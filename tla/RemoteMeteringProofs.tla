-------------------------- MODULE RemoteMeteringProofs -------------------------
(***************************************************************************)
(* For every amount of traffic and every number of reboots, failed polls,  *)
(* faults, resets and crashes: no unit of traffic is in two samples of the *)
(* log or on its way into the metrics twice, a session counts none twice,  *)
(* and none from before its start unless it got no baseline; while nothing *)
(* fails but single polls, metrics and session hold exactly what they must.*)
(***************************************************************************)
EXTENDS RemoteMetering, TLAPS

\* What the argument needs to know about types.
Moment == Epoch \cup {None}
Counters == [epoch : Moment, value : Nat, iface : Int]
Samples == [start : Moment, epoch : Moment, units : SUBSET Int, initial : BOOLEAN]
Meters == [start : Moment, last : Moment, baselined : Moment, units : SUBSET Int]

Types ==
    /\ clock \in Epoch /\ boot \in 0..clock /\ sample \in 0..clock
    /\ reboots \in 0..MaxReboots /\ iface \in 0..MaxReboots
    /\ pc \in {"idle", "poll", "append", "session", "collect", "ingest", "checkpoint", "down"}
    /\ beginning \in {"no", "manual", "automatic"}
    /\ monitor \in [counter : Counters, status : Health!Stabilizer, last : Samples, polled : BOOLEAN]
    /\ disk \in [counter : Counters, log : SUBSET Samples, meter : Meters]
    /\ reading \in Samples /\ meter \in Meters
    /\ collector \in [seen : Moment, baseline : Moment, source : Availability!Stabilizer]
    /\ points \subseteq Int /\ hot \subseteq Int /\ durable \subseteq Int
    /\ blind \in BOOLEAN

\* A counter stands at its reading or was restarted since; the one on disk is not newer
\* than the one in memory, and a poll comes after both.
CountersAreCurrent ==
    /\ \A c \in {monitor.counter, disk.counter} :
           /\ c.epoch <= clock
           /\ c.epoch = None => c = NoCounter
           /\ c.epoch # None => c.epoch <= boot + c.value
    /\ disk.counter.epoch <= monitor.counter.epoch
    /\ pc = "poll" => monitor.counter.epoch <= sample

\* A sample's units passed within its interval.
WellFormed(s) ==
    /\ s.epoch \in Epoch /\ s.start < s.epoch /\ s.epoch <= clock
    /\ s.units \subseteq 1..s.epoch /\ \A u \in s.units : u > s.start

\* A sample follows another one.
Follows(s, t) == t.epoch < s.epoch /\ \A u \in s.units : u > t.epoch

\* The samples of the log follow one another up to the saved counter, the last one is
\* in memory, and one on its way to the log follows them all.
LogIsOrdered ==
    /\ \A s \in disk.log : WellFormed(s) /\ s.epoch <= disk.counter.epoch
    /\ \A s, t \in disk.log : s = t \/ Follows(s, t) \/ Follows(t, s)
    /\ disk.log = {} => monitor.last = NoSample
    /\ disk.log # {} => /\ monitor.last \in disk.log
                        /\ \A s \in disk.log : s.epoch <= monitor.last.epoch
    /\ reading = NoSample \/ WellFormed(reading)
    /\ pc = "append" => /\ WellFormed(reading) /\ reading.epoch = disk.counter.epoch
                        /\ \A s \in disk.log : Follows(reading, s)

\* What is on its way into the store or in it was logged, once.
MetricsAreLogged ==
    /\ pc \notin {"ingest", "down"} => points = {}
    /\ hot \cap durable = {} /\ points \cap (hot \cup durable) = {}
    /\ \A u \in points \cup hot \cup durable : \E s \in disk.log : u \in s.units

\* A sample that would be emitted has not been.
UnsentIsNew ==
    (/\ monitor.last # NoSample /\ monitor.last.epoch # collector.seen
     /\ SinceStart(monitor.last.epoch)
     /\ collector.baseline = None => pc \notin {"idle", "down"})
        => (points \cup hot \cup durable) \cap monitor.last.units = {}

\* A session has counted up to a sample of the log.
MetersAreLogged ==
    \A m \in {meter, disk.meter} :
        /\ m.baselined = m.last /\ m.start <= clock
        /\ m.units \subseteq 1..m.last
        /\ m.last # None => \E s \in disk.log : s.epoch = m.last

\* A session that got no baseline and is not blind began before every interval.
BeginningIsKnown ==
    /\ beginning # "no" => pc \in {"poll", "append", "session", "down"} /\ (pc = "down" => blind)
    /\ ~blind => \A m \in {meter, disk.meter} : \A u \in m.units : u > m.start
    /\ ~blind /\ beginning = "no" =>
        \A m \in {meter, disk.meter} : m.start # None /\ m.baselined = None =>
            /\ \A c \in {monitor.counter, disk.counter} : c.epoch # None => c.epoch >= m.start
            /\ \A s \in disk.log : s.start # None => s.start >= m.start
            /\ pc = "append" /\ reading.start # None => reading.start >= m.start

IInv ==
    /\ Types /\ CountersAreCurrent /\ LogIsOrdered /\ MetricsAreLogged
    /\ UnsentIsNew /\ MetersAreLogged /\ BeginningIsKnown

--------------------------------------------------------------------------------
\* The invariant holds initially.
LEMMA InitIInv == Init => IInv
<1> SUFFICES ASSUME Init PROVE IInv
  OBVIOUS
<1> USE BoundsAssumption DEF Init, LoadedMonitor, FreshCollector, NoCounter, NoSample, NoMeter, None, Epoch
<1>1. /\ Health!Confirmed("waiting") \in Health!Stabilizer
      /\ Availability!Confirmed("available") \in Availability!Stabilizer
  BY DEF Health!Confirmed, Health!Stabilizer, Health!Status,
         Availability!Confirmed, Availability!Stabilizer, Availability!Status
<1>2. /\ disk.log = {} /\ Latest(disk.log) = [start |-> -1, epoch |-> -1, units |-> {}, initial |-> FALSE]
      /\ monitor.last = NoSample /\ monitor.counter = NoCounter
      /\ monitor = [counter |-> NoCounter, status |-> Health!Confirmed("waiting"),
                    last |-> NoSample, polled |-> FALSE]
  BY DEF Latest
<1>3. Types
  <2>1. /\ NoCounter \in Counters /\ NoSample \in Samples /\ NoMeter \in Meters
    BY DEF Counters, Samples, Meters, Moment
  <2>2. clock \in Epoch /\ boot \in 0..clock /\ sample \in 0..clock /\ reboots \in 0..MaxReboots
        /\ iface \in 0..MaxReboots
    OBVIOUS
  <2>3. monitor \in [counter : Counters, status : Health!Stabilizer, last : Samples, polled : BOOLEAN]
    BY ONLY <1>1, <1>2, <2>1
  <2>4. disk \in [counter : Counters, log : SUBSET Samples, meter : Meters]
    BY <2>1
  <2>5. collector \in [seen : Moment, baseline : Moment, source : Availability!Stabilizer]
    BY <1>1 DEF Moment
  <2>6. QED
    BY <2>1, <2>2, <2>3, <2>4, <2>5 DEF Types
<1>4. CountersAreCurrent
  BY <1>2 DEF CountersAreCurrent
<1>5. LogIsOrdered
  BY <1>2 DEF LogIsOrdered
<1>6. MetricsAreLogged /\ UnsentIsNew
  BY <1>2 DEF MetricsAreLogged, UnsentIsNew
<1>7. MetersAreLogged /\ BeginningIsKnown
  BY DEF MetersAreLogged, BeginningIsKnown
<1>8. QED
  BY <1>3, <1>4, <1>5, <1>6, <1>7 DEF IInv

\* The confirmation windows stay of their types.
LEMMA HealthType ==
  ASSUME NEW s \in Health!Stabilizer, NEW immediate \in BOOLEAN,
         NEW candidate \in {"waiting", "baseline", "ok", "error"}
  PROVE  Health!Observe(s, candidate, immediate) \in Health!Stabilizer
<1> DEFINE count == IF s.pending = candidate THEN s.count + 1 ELSE 1
<1>1. candidate \in Health!Status
  BY DEF Health!Status
<1>2. count \in Nat
  BY DEF Health!Stabilizer
<1>3. Health!Confirmed(candidate) \in Health!Stabilizer
  BY <1>1 DEF Health!Confirmed, Health!Stabilizer
<1>4. [s EXCEPT !.pending = candidate, !.count = count] \in Health!Stabilizer
  BY <1>1, <1>2 DEF Health!Stabilizer
<1>5. Health!Observe(s, candidate, immediate) \in
          {Health!Confirmed(candidate), [s EXCEPT !.pending = candidate, !.count = count]}
  BY DEF Health!Observe
<1>6. QED
  BY <1>3, <1>4, <1>5

\* What the window of a server's availability becomes is a window again.
LEMMA AvailabilityType ==
  ASSUME NEW s \in Availability!Stabilizer, NEW candidate \in {"available", "error"}
  PROVE  Availability!Observe(s, candidate, FALSE) \in Availability!Stabilizer
<1> DEFINE count == IF s.pending = candidate THEN s.count + 1 ELSE 1
<1>1. candidate \in Availability!Status
  BY DEF Availability!Status
<1>2. count \in Nat
  BY DEF Availability!Stabilizer
<1>3. Availability!Confirmed(candidate) \in Availability!Stabilizer
  BY <1>1 DEF Availability!Confirmed, Availability!Stabilizer
<1>4. [s EXCEPT !.pending = candidate, !.count = count] \in Availability!Stabilizer
  BY <1>1, <1>2 DEF Availability!Stabilizer
<1>5. Availability!Observe(s, candidate, FALSE) \in
          {Availability!Confirmed(candidate), [s EXCEPT !.pending = candidate, !.count = count]}
  BY DEF Availability!Observe
<1>6. QED
  BY <1>3, <1>4, <1>5

\* The server's time goes on and its counter starts anew: every reading stays in the past.
LEMMA ServerKeeps == ASSUME IInv, Tick \/ Reboot PROVE IInv'
<1> USE BoundsAssumption DEF None, Epoch
<1>1. /\ clock' \in Epoch /\ clock <= clock' /\ boot' \in {boot, clock} /\ boot <= boot'
      /\ boot' \in 0..clock' /\ reboots' \in 0..MaxReboots /\ iface' \in 0..MaxReboots
      /\ UNCHANGED <<pc, sample, beginning, monitor, reading, meter, collector, points, hot, durable,
                     disk, blind>>
  BY DEF IInv, Types, Tick, Reboot, metrics, observers, bounds
<1>2. Types'
  BY <1>1 DEF IInv, Types
<1>3. CountersAreCurrent'
  <2>1. \A c \in {monitor.counter, disk.counter} : c.epoch \in Moment /\ c.value \in Nat
    BY DEF IInv, Types, Counters
  <2>2. QED
    BY <1>1, <2>1 DEF IInv, Types, CountersAreCurrent, Moment
<1>4. LogIsOrdered'
  BY <1>1 DEF IInv, Types, LogIsOrdered, WellFormed, Follows
<1>5. MetricsAreLogged' /\ UnsentIsNew' /\ BeginningIsKnown'
  BY <1>1 DEF IInv, MetricsAreLogged, UnsentIsNew, SinceStart, BeginningIsKnown
<1>6. MetersAreLogged'
  <2>1. \A m \in {meter, disk.meter} : m.start \in Moment
    BY DEF IInv, Types, Meters
  <2>2. QED
    BY <1>1, <2>1 DEF IInv, Types, MetersAreLogged, Moment
<1>7. QED
  BY <1>2, <1>3, <1>4, <1>5, <1>6 DEF IInv

\* A sample begins, perhaps with a reset: what the log holds is not later.
LEMMA BeginKeeps == ASSUME IInv, Begin \/ BeginReset \/ FailReset PROVE IInv'
<1> USE BoundsAssumption DEF None, Epoch
<1>1. /\ pc = "idle" /\ pc' = "poll" /\ sample' = clock /\ beginning = "no"
      /\ clock \in Epoch /\ clock \in 0..MaxTime
      /\ UNCHANGED <<clock, boot, iface, monitor, reading, collector, points, hot, durable, reboots>>
      /\ disk'.log = disk.log /\ disk'.counter = disk.counter
      /\ disk' = [counter |-> disk.counter, log |-> disk.log, meter |-> disk'.meter]
  BY DEF IInv, Types, BeginningIsKnown, Begin, BeginReset, FailReset, Idle, Fault, server, metrics,
         observers, bounds
<1>2. [NoMeter EXCEPT !.start = clock] = [start |-> clock, last |-> -1, baselined |-> -1, units |-> {}]
  BY DEF NoMeter
<1>3. \/ beginning' = "no" /\ meter' = meter /\ disk' = disk /\ blind' = blind
      \/ /\ beginning' = "manual" /\ blind' = blind /\ disk'.meter = meter'
         /\ meter' = [start |-> clock, last |-> -1, baselined |-> -1, units |-> {}]
      \/ /\ beginning' = "no" /\ disk' = disk /\ blind' = (blind \/ monitor.counter # NoCounter)
         /\ meter' = [start |-> clock, last |-> -1, baselined |-> -1, units |-> {}]
  <2>1. CASE Begin
    BY <2>1 DEF Begin, observers
  <2>2. CASE BeginReset
    BY <1>2, <2>2 DEF IInv, Types, BeginReset, observers
  <2>3. CASE FailReset
    BY <1>1, <1>2, <2>3 DEF FailReset
  <2>4. QED
    BY <2>1, <2>2, <2>3
<1>4. Types'
  <2>1. meter' \in Meters /\ disk'.meter \in Meters /\ blind' \in BOOLEAN
    <3>1. [start |-> clock, last |-> -1, baselined |-> -1, units |-> {}] \in Meters
      BY <1>1 DEF Meters, Moment
    <3>2. meter \in Meters /\ disk.meter \in Meters /\ blind \in BOOLEAN
      BY DEF IInv, Types
    <3>3. QED
      BY ONLY <1>3, <3>1, <3>2
  <2>2. disk' \in [counter : Counters, log : SUBSET Samples, meter : Meters]
    BY <1>1, <2>1 DEF IInv, Types
  <2>3. sample' \in 0..clock'
    BY <1>1
  <2>4. beginning' \in {"no", "manual", "automatic"}
    BY <1>3
  <2>5. QED
    BY <1>1, <2>1, <2>2, <2>3, <2>4 DEF IInv, Types
<1>5. CountersAreCurrent'
  BY <1>1 DEF IInv, CountersAreCurrent
<1>6. LogIsOrdered' /\ MetricsAreLogged'
  BY <1>1 DEF IInv, LogIsOrdered, WellFormed, Follows, MetricsAreLogged
<1>7. UnsentIsNew'
  <2>1. monitor.last # NoSample => monitor.last.epoch <= clock
    BY DEF IInv, LogIsOrdered, WellFormed
  <2>2. QED
    BY <1>1, <2>1 DEF IInv, Types, UnsentIsNew, SinceStart, Samples, Moment
<1>8. MetersAreLogged'
  BY <1>1, <1>3 DEF IInv, MetersAreLogged
<1>9. BeginningIsKnown'
  <2>1. monitor.counter = NoCounter =>
            /\ monitor.counter.epoch = -1 /\ disk.counter.epoch = -1 /\ disk.log = {}
    BY DEF IInv, Types, Counters, Moment, CountersAreCurrent, LogIsOrdered, WellFormed, NoCounter
  <2>2. CASE beginning' = "no" /\ meter' = meter /\ disk' = disk /\ blind' = blind
    BY <1>1, <2>2 DEF IInv, BeginningIsKnown
  <2>3. CASE /\ beginning' = "manual" /\ blind' = blind /\ disk'.meter = meter'
             /\ meter' = [start |-> clock, last |-> -1, baselined |-> -1, units |-> {}]
    BY <1>1, <2>3 DEF BeginningIsKnown
  <2>4. CASE /\ beginning' = "no" /\ disk' = disk /\ blind' = (blind \/ monitor.counter # NoCounter)
             /\ meter' = [start |-> clock, last |-> -1, baselined |-> -1, units |-> {}]
    <3>1. ASSUME ~blind' PROVE blind = FALSE /\ disk.log = {}
                               /\ monitor.counter.epoch = -1 /\ disk.counter.epoch = -1
      BY <2>1, <2>4, <3>1 DEF IInv, Types
    <3>2. ~blind' => \A m \in {meter', disk'.meter} : \A u \in m.units : u > m.start
      BY <2>4, <3>1 DEF IInv, BeginningIsKnown
    <3>3. QED
      BY <1>1, <2>4, <3>1, <3>2 DEF BeginningIsKnown
  <2>5. QED
    BY <1>3, <2>2, <2>3, <2>4
<1>10. QED
  BY <1>4, <1>5, <1>6, <1>7, <1>8, <1>9 DEF IInv

\* A reading of the counter is current.
LEMMA CounterIsCurrent ==
  ASSUME Types
  PROVE  /\ Counter \in Counters /\ Counter.epoch = clock /\ Counter # NoCounter
         /\ Counter.epoch <= boot + Counter.value
<1>1. /\ clock \in Epoch /\ clock \in 0..MaxTime /\ boot \in 0..clock /\ iface \in Int
      /\ MaxTime \in Nat /\ boot \in Int /\ clock \in Int /\ clock - boot \in Nat
      /\ clock <= boot + (clock - boot)
  BY BoundsAssumption DEF Types, Epoch
<1>2. Counter = [epoch |-> clock, value |-> clock - boot, iface |-> iface]
  BY DEF Counter
<1>3. Counter \in Counters
  BY <1>1, <1>2 DEF Counters, Moment
<1>4. Counter # NoCounter
  BY <1>1, <1>2 DEF NoCounter, None
<1>5. QED
  BY <1>1, <1>2, <1>3, <1>4

\* A poll that is skipped, fails, or cannot be saved or logged leaves the log alone.
LEMMA NoPollKeeps == ASSUME IInv, SkipPoll \/ FailRead \/ FailSave \/ FailAppend PROVE IInv'
<1> USE BoundsAssumption DEF None, Epoch
<1>1. /\ pc \in {"poll", "append"} /\ pc' = "session" /\ reading' \in {reading, NoSample}
      /\ UNCHANGED <<clock, boot, iface, sample, beginning, meter, collector, points, hot, durable,
                     disk, blind, reboots>>
  BY DEF SkipPoll, FailRead, FailSave, FailAppend, FailPoll, Fault, server, metrics, observers, bounds
<1>2. /\ monitor'.last = monitor.last /\ monitor'.counter \in {monitor.counter, Counter}
      /\ monitor' \in [counter : Counters, status : Health!Stabilizer, last : Samples, polled : BOOLEAN]
  <2>1. /\ monitor \in [counter : Counters, status : Health!Stabilizer, last : Samples, polled : BOOLEAN]
        /\ Counter \in Counters
    BY CounterIsCurrent DEF IInv, Types
  <2>2. Health!Observe(monitor.status, "error", FALSE) \in Health!Stabilizer
    <3>1. monitor.status \in Health!Stabilizer
      BY <2>1
    <3>2. QED
      BY ONLY <3>1, HealthType
  <2>3. CASE SkipPoll
    BY <2>1, <2>3 DEF SkipPoll
  <2>4. CASE FailRead \/ FailAppend
    <3>1. monitor' = [monitor EXCEPT !.polled = TRUE,
                                     !.status = Health!Observe(monitor.status, "error", FALSE)]
      BY <2>4 DEF FailRead, FailAppend, FailPoll
    <3>2. QED
      BY <2>1, <2>2, <3>1
  <2>5. CASE FailSave
    <3>1. monitor' = [[monitor EXCEPT !.counter = Counter] EXCEPT
                          !.polled = TRUE, !.status = Health!Observe(monitor.status, "error", FALSE)]
      BY <2>1, <2>5 DEF FailSave, FailPoll
    <3>2. QED
      BY <2>1, <2>2, <3>1
  <2>6. QED
    BY <2>3, <2>4, <2>5
<1>3. Types'
  <2>1. NoSample \in Samples
    BY DEF NoSample, Samples, Moment
  <2>2. QED
    BY <1>1, <1>2, <2>1 DEF IInv, Types
<1>4. CountersAreCurrent'
  <2>1. /\ Counter.epoch = clock /\ Counter # NoCounter /\ Counter.epoch <= boot + Counter.value
        /\ clock \in Nat
    BY CounterIsCurrent DEF IInv, Types
  <2>2. QED
    BY <1>1, <1>2, <2>1 DEF IInv, CountersAreCurrent
<1>5. LogIsOrdered' /\ MetricsAreLogged' /\ UnsentIsNew' /\ MetersAreLogged'
  BY <1>1, <1>2
     DEF IInv, LogIsOrdered, WellFormed, Follows, MetricsAreLogged, UnsentIsNew, SinceStart, MetersAreLogged
<1>6. BeginningIsKnown'
  <2>1. /\ Counter.epoch = clock /\ \A m \in {meter, disk.meter} : m.start <= clock
    BY CounterIsCurrent DEF IInv, MetersAreLogged
  <2>2. QED
    BY <1>1, <1>2, <2>1 DEF IInv, BeginningIsKnown
<1>7. QED
  BY <1>3, <1>4, <1>5, <1>6 DEF IInv

\* What a poll reads passed since the reading before.
LEMMA IntervalFollows ==
  ASSUME IInv, pc = "poll", clock > sample
  PROVE  /\ Interval \in Samples /\ Interval.epoch = clock /\ WellFormed(Interval)
         /\ Interval.start = monitor.counter.epoch \/ Interval.start = None
         /\ \A u \in Interval.units : u > monitor.counter.epoch
         /\ monitor.counter.epoch < clock
<1> USE BoundsAssumption DEF None, Epoch
<1> DEFINE prior == monitor.counter
           same == prior.epoch # None /\ prior.iface = iface
           gain == IF same THEN Delta(prior.value, clock - boot) ELSE 0
<1>1. /\ clock \in 0..MaxTime /\ boot \in 0..clock /\ sample \in 0..clock /\ MaxTime \in Nat
      /\ prior \in Counters /\ prior.epoch \in Moment /\ prior.value \in Nat
      /\ prior.epoch <= sample
      /\ prior.epoch # None => prior.epoch <= boot + prior.value
  BY DEF IInv, Types, Counters, CountersAreCurrent
<1>2. prior.epoch < clock /\ prior.epoch \in Int
  BY <1>1 DEF Moment
<1>3. gain \in Nat /\ (same => gain <= clock - prior.epoch) /\ (~same => gain = 0)
  BY <1>1, <1>2 DEF Delta
<1>4. Interval = [start |-> IF same THEN prior.epoch ELSE None, epoch |-> clock,
                  units |-> (clock - gain + 1)..clock, initial |-> prior = NoCounter]
  BY DEF Interval
<1> HIDE DEF gain
<1>5. /\ (clock - gain + 1)..clock \subseteq 1..clock
      /\ \A u \in (clock - gain + 1)..clock : same /\ u > prior.epoch
  <2>1. CASE same
    <3>1. prior.epoch >= 0
      BY <1>1, <2>1 DEF Moment
    <3>2. QED
      BY <1>1, <1>2, <1>3, <2>1, <3>1
  <2>2. CASE ~same
    BY <1>1, <1>3, <2>2
  <2>3. QED
    BY <2>1, <2>2
<1>6. (IF same THEN prior.epoch ELSE None) \in Moment
  BY <1>1 DEF Moment
<1> HIDE DEF same
<1>7. Interval \in Samples
  <2>1. (clock - gain + 1)..clock \in SUBSET Int /\ clock \in Moment
    BY <1>1, <1>5 DEF Moment
  <2>2. QED
    BY <1>4, <1>6, <2>1 DEF Samples
<1>8. WellFormed(Interval)
  BY <1>1, <1>2, <1>4, <1>5 DEF WellFormed
<1>9. QED
  BY <1>2, <1>4, <1>5, <1>7, <1>8

\* A reading is saved, and its sample follows the log.
LEMMA ReadKeeps == ASSUME IInv, Read PROVE IInv'
<1> USE BoundsAssumption DEF None, Epoch
<1>1. /\ pc = "poll" /\ clock > sample /\ pc' = "append" /\ reading' = Interval
      /\ monitor' = [monitor EXCEPT !.counter = Counter]
      /\ disk' = [disk EXCEPT !.counter = Counter]
      /\ UNCHANGED <<clock, boot, iface, sample, beginning, meter, collector, points, hot, durable,
                     blind, reboots>>
  BY DEF Read, server, metrics, observers, bounds
<1>2. /\ Counter \in Counters /\ Counter.epoch = clock /\ Counter # NoCounter
      /\ Counter.epoch <= boot + Counter.value
  BY CounterIsCurrent DEF IInv
<1>3. /\ Interval \in Samples /\ Interval.epoch = clock /\ WellFormed(Interval)
      /\ Interval.start = monitor.counter.epoch \/ Interval.start = None
      /\ \A u \in Interval.units : u > monitor.counter.epoch
      /\ monitor.counter.epoch < clock
  BY <1>1, IntervalFollows
<1>4. /\ monitor' = [counter |-> Counter, status |-> monitor.status, last |-> monitor.last,
                     polled |-> monitor.polled]
      /\ disk' = [counter |-> Counter, log |-> disk.log, meter |-> disk.meter]
      /\ monitor.counter.epoch \in Int /\ disk.counter.epoch \in Int /\ clock \in Nat
      /\ \A s \in disk.log : s.epoch \in Int
  BY <1>1 DEF IInv, Types, Counters, Moment, LogIsOrdered, WellFormed
<1>5. Types'
  BY <1>1, <1>2, <1>3, <1>4 DEF IInv, Types
<1>6. CountersAreCurrent'
  BY <1>1, <1>2, <1>4 DEF CountersAreCurrent
<1>7. LogIsOrdered'
  <2>1. ASSUME NEW s \in disk.log PROVE Follows(Interval, s) /\ s.epoch <= clock
    <3>1. s.epoch <= monitor.counter.epoch
      BY <1>4 DEF IInv, LogIsOrdered, CountersAreCurrent
    <3>2. \A u \in Interval.units : u \in Int
      BY <1>3 DEF Samples
    <3>3. QED
      BY <1>3, <1>4, <3>1, <3>2 DEF Follows
  <2>2. WellFormed(reading)' /\ reading'.epoch = disk'.counter.epoch
    BY <1>1, <1>2, <1>3, <1>4 DEF WellFormed
  <2>3. \A s \in disk.log : Follows(reading, s)'
    BY <1>1, <2>1 DEF Follows
  <2>4. \A s \in disk'.log : WellFormed(s)' /\ s.epoch <= disk'.counter.epoch
    BY <1>1, <1>2, <1>4, <2>1 DEF IInv, LogIsOrdered, WellFormed
  <2>5. QED
    BY <1>1, <1>4, <2>2, <2>3, <2>4 DEF IInv, LogIsOrdered, Follows
<1>8. MetricsAreLogged' /\ UnsentIsNew' /\ MetersAreLogged'
  BY <1>1, <1>4 DEF IInv, MetricsAreLogged, UnsentIsNew, SinceStart, MetersAreLogged
<1>9. BeginningIsKnown'
  <2>1. \A m \in {meter, disk.meter} : m.start <= clock
    BY DEF IInv, MetersAreLogged
  <2>2. QED
    BY <1>1, <1>2, <1>3, <1>4, <2>1 DEF IInv, BeginningIsKnown
<1>10. QED
  BY <1>5, <1>6, <1>7, <1>8, <1>9 DEF IInv

\* The sample reaches the log as its last.
LEMMA AppendKeeps == ASSUME IInv, Append PROVE IInv'
<1> USE BoundsAssumption DEF None, Epoch
<1>1. /\ pc = "append" /\ pc' = "session" /\ reading' = NoSample
      /\ disk' = [disk EXCEPT !.log = disk.log \cup {reading}]
      /\ UNCHANGED <<clock, boot, iface, sample, beginning, meter, collector, points, hot, durable,
                     blind, reboots>>
  BY DEF Append, server, metrics, observers, bounds
<1>2. /\ monitor'.last = reading /\ monitor'.counter = monitor.counter
      /\ monitor' \in [counter : Counters, status : Health!Stabilizer, last : Samples, polled : BOOLEAN]
  <2> DEFINE candidate == IF reading.initial THEN "baseline" ELSE "ok"
             immediate == monitor.status.status \in {"waiting", "baseline"}
  <2>1. /\ monitor \in [counter : Counters, status : Health!Stabilizer, last : Samples, polled : BOOLEAN]
        /\ reading \in Samples
    BY DEF IInv, Types
  <2>2. /\ monitor.status \in Health!Stabilizer /\ immediate \in BOOLEAN
        /\ candidate \in {"waiting", "baseline", "ok", "error"}
    BY <2>1
  <2>3. monitor' = [monitor EXCEPT !.polled = TRUE, !.last = reading,
                                   !.status = Health!Observe(monitor.status, candidate, immediate)]
    BY DEF Append
  <2> HIDE DEF candidate, immediate
  <2>4. Health!Observe(monitor.status, candidate, immediate) \in Health!Stabilizer
    BY ONLY <2>2, HealthType
  <2>5. QED
    BY <2>1, <2>3, <2>4
<1>3. /\ disk' = [counter |-> disk.counter, log |-> disk.log \cup {reading}, meter |-> disk.meter]
      /\ reading \in Samples /\ WellFormed(reading) /\ reading.epoch = disk.counter.epoch
      /\ \A s \in disk.log : Follows(reading, s) /\ s.epoch \in Int
      /\ reading.epoch \in Int /\ \A u \in reading.units : u \in Int
  <2>1. /\ disk \in [counter : Counters, log : SUBSET Samples, meter : Meters]
        /\ reading \in Samples /\ MaxTime \in Nat
    BY DEF IInv, Types
  <2>2. /\ WellFormed(reading) /\ reading.epoch = disk.counter.epoch
        /\ \A s \in disk.log : Follows(reading, s)
        /\ \A s \in disk.log : WellFormed(s)
    BY <1>1 DEF IInv, LogIsOrdered
  <2>3. disk' = [counter |-> disk.counter, log |-> disk.log \cup {reading}, meter |-> disk.meter]
    BY <1>1, <2>1
  <2>4. reading.epoch \in Int /\ \A s \in disk.log : s.epoch \in Int
    BY <2>1, <2>2 DEF WellFormed
  <2>5. \A u \in reading.units : u \in Int
    BY <2>1 DEF Samples
  <2>6. QED
    BY <2>1, <2>2, <2>3, <2>4, <2>5
<1>4. Types'
  <2>1. NoSample \in Samples
    BY DEF NoSample, Samples, Moment
  <2>2. QED
    BY <1>1, <1>2, <1>3, <2>1 DEF IInv, Types
<1>5. CountersAreCurrent'
  BY <1>1, <1>2, <1>3 DEF IInv, CountersAreCurrent
<1>6. LogIsOrdered'
  <2>1. \A s \in disk'.log : WellFormed(s)' /\ s.epoch <= disk'.counter.epoch
    BY <1>1, <1>3 DEF IInv, LogIsOrdered, WellFormed
  <2>2. \A s, t \in disk'.log : s = t \/ Follows(s, t)' \/ Follows(t, s)'
    BY <1>3 DEF IInv, LogIsOrdered, Follows
  <2>3. \A s \in disk'.log : s.epoch <= reading.epoch
    BY <1>3 DEF Follows
  <2>4. QED
    BY <1>1, <1>2, <1>3, <2>1, <2>2, <2>3 DEF LogIsOrdered
<1>7. MetricsAreLogged'
  BY <1>1, <1>3 DEF IInv, MetricsAreLogged
<1>8. UnsentIsNew'
  <2>1. ASSUME NEW u \in points \cup hot \cup durable PROVE u \notin reading.units
    <3>1. PICK s \in disk.log : u \in s.units
      BY DEF IInv, MetricsAreLogged
    <3>2. u \in Int /\ s.epoch \in Int /\ u <= s.epoch
      BY <1>3, <3>1 DEF IInv, LogIsOrdered, WellFormed
    <3>3. u \in reading.units => u > s.epoch
      BY <1>3 DEF Follows
    <3>4. QED
      BY <3>2, <3>3
  <2>2. QED
    BY <1>1, <1>2, <2>1 DEF UnsentIsNew
<1>9. MetersAreLogged' /\ BeginningIsKnown'
  BY <1>1, <1>2, <1>3 DEF IInv, MetersAreLogged, BeginningIsKnown
<1>10. QED
  BY <1>4, <1>5, <1>6, <1>7, <1>8, <1>9 DEF IInv

\* The last sample is of the log.
LEMMA LastIsLogged ==
  ASSUME IInv, monitor.last # NoSample
  PROVE  /\ monitor.last \in disk.log /\ WellFormed(monitor.last) /\ monitor.last.epoch \in 0..MaxTime
         /\ monitor.last.epoch \in Moment /\ monitor.last.epoch <= clock
         /\ \A s \in disk.log : s.epoch <= monitor.last.epoch
         /\ \A m \in {meter, disk.meter} : m.last <= monitor.last.epoch
<1> USE BoundsAssumption DEF None, Epoch
<1>1. /\ monitor.last \in disk.log /\ WellFormed(monitor.last)
      /\ \A s \in disk.log : s.epoch <= monitor.last.epoch
  BY DEF IInv, LogIsOrdered
<1>2. monitor.last.epoch \in 0..MaxTime /\ monitor.last.epoch <= clock
  BY <1>1 DEF WellFormed
<1>3. \A m \in {meter, disk.meter} : m.last <= monitor.last.epoch
  BY <1>1, <1>2 DEF IInv, MetersAreLogged
<1>4. QED
  BY <1>1, <1>2, <1>3 DEF Moment

\* A session begins by itself, or its start fails.
LEMMA StartSessionKeeps == ASSUME IInv, BeginAutomatic \/ FailBaseline PROVE IInv'
<1> USE BoundsAssumption DEF None, Epoch
<1>1. CASE BeginAutomatic
  <2>1. /\ pc = "session" /\ pc' = pc /\ beginning' = "automatic"
        /\ meter' = [start |-> sample, last |-> -1, baselined |-> -1, units |-> {}]
        /\ disk' = [disk EXCEPT !.meter = meter']
        /\ UNCHANGED <<clock, boot, iface, sample, monitor, reading, collector, points, hot, durable,
                       blind, reboots>>
    BY <1>1 DEF BeginAutomatic, NoMeter, server, metrics, observers, bounds
  <2>2. /\ sample \in 0..clock /\ clock \in 0..MaxTime
        /\ disk \in [counter : Counters, log : SUBSET Samples, meter : Meters]
    BY DEF IInv, Types
  <2>3. meter' \in Meters
    BY <2>1, <2>2 DEF Meters, Moment
  <2>4. disk' = [counter |-> disk.counter, log |-> disk.log, meter |-> meter']
    BY <2>1, <2>2
  <2>5. Types'
    BY <2>1, <2>2, <2>3, <2>4 DEF IInv, Types
  <2>6. CountersAreCurrent' /\ LogIsOrdered' /\ MetricsAreLogged' /\ UnsentIsNew'
    BY <2>1, <2>4 DEF IInv, CountersAreCurrent, LogIsOrdered, WellFormed, Follows, MetricsAreLogged,
                      UnsentIsNew, SinceStart
  <2>7. MetersAreLogged' /\ BeginningIsKnown'
    BY <2>1, <2>2, <2>4 DEF MetersAreLogged, BeginningIsKnown
  <2>8. QED
    BY <2>5, <2>6, <2>7 DEF IInv
<1>2. CASE FailBaseline
  <2>1. /\ pc = "session" /\ pc' \in {"session", "idle"} /\ beginning' = "no"
        /\ blind' = (blind \/ monitor.counter # NoCounter)
        /\ UNCHANGED <<clock, boot, iface, sample, monitor, reading, meter, collector, points, hot,
                       durable, disk, reboots>>
    BY <1>2 DEF FailBaseline, Fault, server, metrics
  <2>2. Types'
    BY <2>1 DEF IInv, Types
  <2>3. CountersAreCurrent' /\ LogIsOrdered' /\ MetricsAreLogged' /\ UnsentIsNew' /\ MetersAreLogged'
    BY <2>1 DEF IInv, CountersAreCurrent, LogIsOrdered, WellFormed, Follows, MetricsAreLogged,
                UnsentIsNew, SinceStart, MetersAreLogged
  <2>4. BeginningIsKnown'
    <3>1. ASSUME ~blind' PROVE ~blind /\ disk.log = {}
                               /\ monitor.counter.epoch = -1 /\ disk.counter.epoch = -1
      <4>1. monitor.counter = NoCounter /\ ~blind
        BY <2>1, <3>1 DEF IInv, Types
      <4>2. QED
        BY <4>1 DEF IInv, Types, Counters, Moment, CountersAreCurrent, LogIsOrdered, WellFormed, NoCounter
    <3>2. QED
      BY <2>1, <3>1 DEF IInv, BeginningIsKnown
  <2>5. QED
    BY <2>2, <2>3, <2>4 DEF IInv
<1>3. QED
  BY <1>1, <1>2

\* The session looks at the last sample, as its baseline or to count it.
LEMMA MeterKeeps == ASSUME IInv, SetBaseline \/ Record PROVE IInv'
<1> USE BoundsAssumption DEF None, Epoch
<1>1. /\ pc = "session" /\ pc' = "collect" /\ beginning' = "no"
      /\ UNCHANGED <<clock, boot, iface, sample, monitor, reading, collector, points, hot, durable, reboots>>
      /\ disk' \in {disk, [disk EXCEPT !.meter = meter']}
      /\ ~blind' => ~blind
      /\ SetBaseline /\ monitor.status.status = "error" => blind'
      /\ blind' \in BOOLEAN
  <2>1. CASE SetBaseline
    BY <2>1 DEF IInv, Types, SetBaseline, server, metrics, observers, bounds
  <2>2. CASE Record
    <3>1. ~SetBaseline
      BY <2>2 DEF SetBaseline, Record
    <3>2. QED
      BY <2>2, <3>1 DEF IInv, Types, Record, server, metrics, observers, bounds
  <2>3. QED
    BY <2>1, <2>2
<1>2. /\ disk \in [counter : Counters, log : SUBSET Samples, meter : Meters]
      /\ meter \in Meters /\ blind \in BOOLEAN /\ \A m \in {meter, disk.meter} : m.units \in SUBSET Int
      /\ meter.start \in Int
  BY DEF IInv, Types, Meters, Moment
\* What the session becomes.
<1>3. CASE meter' = meter /\ (SetBaseline => monitor.status.status = "error")
  <2>1. disk' = [counter |-> disk.counter, log |-> disk.log, meter |-> disk'.meter]
        /\ disk'.meter \in {meter, disk.meter}
    BY <1>1, <1>2, <1>3
  <2>2. Types'
    BY <1>1, <1>2, <1>3, <2>1 DEF IInv, Types
  <2>3. CountersAreCurrent' /\ LogIsOrdered' /\ MetricsAreLogged' /\ UnsentIsNew' /\ MetersAreLogged'
    BY <1>1, <1>3, <2>1
       DEF IInv, CountersAreCurrent, LogIsOrdered, WellFormed, Follows, MetricsAreLogged,
           UnsentIsNew, SinceStart, MetersAreLogged
  <2>4. ~blind' => ~blind /\ beginning = "no"
    BY <1>1, <1>3 DEF Record, SetBaseline
  <2>5. BeginningIsKnown'
    BY <1>1, <1>3, <2>1, <2>4 DEF IInv, BeginningIsKnown
  <2>6. QED
    BY <2>2, <2>3, <2>5 DEF IInv
<1>4. CASE /\ monitor.last # NoSample
           /\ \E more \in SUBSET monitor.last.units :
                  /\ meter' = [meter EXCEPT !.last = monitor.last.epoch, !.baselined = monitor.last.epoch,
                                            !.units = meter.units \cup more]
                  /\ ~blind => \A u \in more : u > meter.start
  <2>1. /\ monitor.last \in disk.log /\ WellFormed(monitor.last) /\ monitor.last.epoch \in 0..MaxTime
        /\ monitor.last.epoch \in Moment /\ monitor.last.epoch <= clock
        /\ meter.last <= monitor.last.epoch
    BY <1>4, LastIsLogged
  <2>2. PICK more \in SUBSET monitor.last.units :
            /\ meter' = [meter EXCEPT !.last = monitor.last.epoch, !.baselined = monitor.last.epoch,
                                      !.units = meter.units \cup more]
            /\ ~blind => \A u \in more : u > meter.start
    BY <1>4
  <2>3. /\ meter' = [start |-> meter.start, last |-> monitor.last.epoch,
                     baselined |-> monitor.last.epoch, units |-> meter.units \cup more]
        /\ more \subseteq 1..monitor.last.epoch /\ meter.units \subseteq 1..meter.last
        /\ meter.last \in Int /\ meter.start \in Moment
    <3>1. /\ meter.last \in Int /\ meter.start \in Moment
          /\ meter = [start |-> meter.start, last |-> meter.last, baselined |-> meter.baselined,
                      units |-> meter.units]
      BY <1>2 DEF Meters, Moment
    <3>2. more \subseteq 1..monitor.last.epoch /\ meter.units \subseteq 1..meter.last
      BY <2>1 DEF IInv, MetersAreLogged, WellFormed
    <3>3. meter' = [start |-> meter.start, last |-> monitor.last.epoch,
                    baselined |-> monitor.last.epoch, units |-> meter.units \cup more]
      BY <2>2, <3>1
    <3>4. QED
      BY <3>1, <3>2, <3>3
  <2>4. meter'.units \subseteq 1..monitor.last.epoch
    <3>1. 1..meter.last \subseteq 1..monitor.last.epoch
      BY ONLY <2>1, <2>3
    <3>2. meter'.units = meter.units \cup more
      BY ONLY <2>3
    <3>3. QED
      BY ONLY <2>3, <3>1, <3>2
  <2>5. meter' \in Meters
    <3>1. meter'.units \in SUBSET Int
      BY <2>1, <2>4
    <3>2. QED
      BY <2>1, <2>3, <3>1 DEF Meters
  <2>6. /\ disk' = [counter |-> disk.counter, log |-> disk.log, meter |-> disk'.meter]
        /\ disk'.meter \in {meter', disk.meter}
    BY <1>1, <1>2
  <2>7. Types'
    <3>1. disk' \in [counter : Counters, log : SUBSET Samples, meter : Meters]
      BY <1>2, <2>5, <2>6
    <3>2. blind' \in BOOLEAN
      BY <1>1, <1>2
    <3>3. QED
      BY <1>1, <2>5, <3>1, <3>2 DEF IInv, Types
  <2>8. CountersAreCurrent' /\ LogIsOrdered' /\ MetricsAreLogged' /\ UnsentIsNew'
    BY <1>1, <2>6 DEF IInv, CountersAreCurrent, LogIsOrdered, WellFormed, Follows, MetricsAreLogged,
                      UnsentIsNew, SinceStart
  <2>9. MetersAreLogged'
    <3>1. /\ meter'.baselined = meter'.last /\ meter'.start <= clock
          /\ meter'.units \subseteq 1..meter'.last /\ \E s \in disk.log : s.epoch = meter'.last
      BY <2>1, <2>3, <2>4 DEF IInv, MetersAreLogged
    <3>2. QED
      BY <1>1, <2>6, <3>1 DEF IInv, MetersAreLogged
  <2>10. BeginningIsKnown'
    <3>1. ~blind' => /\ \A u \in meter'.units : u > meter'.start
                     /\ \A u \in disk.meter.units : u > disk.meter.start
      BY <1>1, <1>2, <2>2, <2>3 DEF IInv, BeginningIsKnown
    <3>2. meter'.baselined # None
      BY <2>1, <2>3
    <3>3. beginning = "no" \/ disk'.meter = meter'
      BY <1>1, <1>2 DEF Record, SetBaseline
    <3>4. QED
      BY <1>1, <1>2, <2>6, <3>1, <3>2, <3>3 DEF IInv, BeginningIsKnown
  <2>11. QED
    BY <2>7, <2>8, <2>9, <2>10 DEF IInv
<1>5. CASE SetBaseline
  <2>1. CASE monitor.status.status = "error"
    BY <1>3, <1>5, <2>1 DEF SetBaseline, Baselined
  <2>2. CASE monitor.status.status # "error"
    <3>1. /\ monitor.last # NoSample
          /\ meter' = [meter EXCEPT !.last = monitor.last.epoch, !.baselined = monitor.last.epoch]
      BY <1>5, <2>2 DEF SetBaseline, Baselined
    <3>2. meter' = [meter EXCEPT !.last = monitor.last.epoch, !.baselined = monitor.last.epoch,
                                 !.units = meter.units \cup {}]
      <4>1. meter = [start |-> meter.start, last |-> meter.last, baselined |-> meter.baselined,
                     units |-> meter.units]
        BY <1>2 DEF Meters
      <4>2. meter.units \cup {} = meter.units
        OBVIOUS
      <4>3. QED
        BY <3>1, <4>1, <4>2
    <3>3. /\ {} \in SUBSET monitor.last.units
          /\ ~blind => \A u \in {} : u > meter.start
      OBVIOUS
    <3>4. QED
      BY <1>4, <3>1, <3>2, <3>3
  <2>3. QED
    BY <2>1, <2>2
<1>6. CASE Record /\ ~SetBaseline
  <2>1. beginning = "no" /\ meter.start # None
    BY <1>6 DEF Record
  <2>2. CASE ~NewSample(meter, monitor.last)
    BY <1>3, <1>6, <2>2 DEF Record
  <2>3. CASE NewSample(meter, monitor.last)
    <3> DEFINE more == IF Belongs(meter, monitor.last) THEN monitor.last.units ELSE {}
    <3>1. monitor.last # NoSample /\ monitor.last.start # None
      BY <2>3 DEF NewSample, NoSample
    <3>2. meter' = [meter EXCEPT !.last = monitor.last.epoch, !.baselined = monitor.last.epoch,
                                 !.units = meter.units \cup more]
      BY <1>6, <2>3 DEF Record
    <3>3. ASSUME ~blind, NEW u \in more PROVE u > meter.start
      <4>1. /\ monitor.last \in disk.log /\ u \in monitor.last.units /\ u > monitor.last.start
            /\ Belongs(meter, monitor.last) /\ u \in Int /\ monitor.last.start \in Int
        BY <3>1, <3>3, LastIsLogged DEF WellFormed, IInv, Types, Samples, Moment
      <4>2. monitor.last.start >= meter.start
        BY <2>1, <3>1, <3>3, <4>1 DEF Belongs, IInv, BeginningIsKnown
      <4>3. QED
        BY <1>2, <4>1, <4>2
    <3>4. more \in SUBSET monitor.last.units
      OBVIOUS
    <3> HIDE DEF more
    <3>5. QED
      BY <1>4, <3>1, <3>2, <3>3, <3>4
  <2>4. QED
    BY <2>2, <2>3
<1>7. QED
  BY <1>5, <1>6

\* The collector emits the last sample at most once.
LEMMA CollectKeeps == ASSUME IInv, Collect PROVE IInv'
<1> USE BoundsAssumption DEF None, Epoch
<1> DEFINE status == IF monitor.status.status = "error" THEN "error" ELSE "available"
           source == Availability!Observe(collector.source, status, FALSE)
<1>1. /\ pc = "collect" /\ pc' = "ingest"
      /\ collector' = [seen |-> IF monitor.last = NoSample THEN collector.seen ELSE monitor.last.epoch,
                       baseline |-> IF collector.baseline = None THEN sample ELSE collector.baseline,
                       source |-> source]
      /\ points' \in {Emitted, {}}
      /\ UNCHANGED <<clock, boot, iface, sample, beginning, monitor, reading, meter, hot, durable, disk,
                     blind, reboots>>
  BY DEF Collect, server, observers, bounds
<1>2. source \in Availability!Stabilizer
  <2>1. collector.source \in Availability!Stabilizer /\ status \in {"available", "error"}
    BY DEF IInv, Types
  <2> HIDE DEF status
  <2>2. QED
    BY ONLY <2>1, AvailabilityType DEF source
<1> HIDE DEF source, status
<1>3. /\ Emitted = {} \/ /\ Emitted = monitor.last.units /\ monitor.last # NoSample
                         /\ (points \cup hot \cup durable) \cap monitor.last.units = {}
      /\ sample \in Moment
  <2>1. sample \in Moment /\ NoSample.units = {}
    BY DEF IInv, Types, Moment, NoSample
  <2>2. CASE monitor.last = NoSample
    BY <2>1, <2>2 DEF Emitted
  <2>3. CASE monitor.last # NoSample
    BY <1>1, <2>1, <2>3 DEF Emitted, IInv, UnsentIsNew
  <2>4. QED
    BY <2>2, <2>3
<1>4. Emitted \subseteq Int /\ \A u \in Emitted : \E s \in disk.log : u \in s.units
  BY <1>3, LastIsLogged DEF IInv, Types, Samples
<1>5. Types'
  <2>1. (IF monitor.last = NoSample THEN collector.seen ELSE monitor.last.epoch) \in Moment
    BY LastIsLogged DEF IInv, Types
  <2>2. (IF collector.baseline = None THEN sample ELSE collector.baseline) \in Moment
    BY <1>3 DEF IInv, Types
  <2>3. collector' \in [seen : Moment, baseline : Moment, source : Availability!Stabilizer]
    BY ONLY <1>1, <1>2, <2>1, <2>2
  <2>4. points' \subseteq Int
    BY <1>1, <1>4
  <2>5. QED
    BY <1>1, <2>3, <2>4 DEF IInv, Types
<1>6. CountersAreCurrent' /\ LogIsOrdered' /\ MetersAreLogged' /\ BeginningIsKnown'
  BY <1>1 DEF IInv, CountersAreCurrent, LogIsOrdered, WellFormed, Follows, MetersAreLogged,
              BeginningIsKnown
<1>7. MetricsAreLogged'
  BY <1>1, <1>3, <1>4 DEF IInv, MetricsAreLogged
<1>8. UnsentIsNew'
  BY <1>1 DEF UnsentIsNew
<1>9. QED
  BY <1>5, <1>6, <1>7, <1>8 DEF IInv

\* What was emitted moves on to the open window and the store, or is lost with the sample.
LEMMA MetricsKeep == ASSUME IInv, Ingest \/ Raise PROVE IInv'
<1> USE BoundsAssumption DEF None, Epoch
<1>1. /\ pc \in {"collect", "ingest", "checkpoint"} /\ pc' \in {"idle", "checkpoint"} /\ points' = {}
      /\ UNCHANGED <<clock, boot, iface, sample, beginning, monitor, reading, meter, collector, disk,
                     blind, reboots>>
      /\ hot' \cup durable' \subseteq points \cup hot \cup durable /\ hot' \cap durable' = {}
  <2>1. CASE Ingest
    BY <2>1 DEF IInv, MetricsAreLogged, Ingest, server, observers, bounds
  <2>2. CASE Raise
    BY <2>2 DEF IInv, MetricsAreLogged, Raise, Fault, server, observers
  <2>3. QED
    BY <2>1, <2>2
<1>2. Types'
  <2>1. hot' \subseteq Int /\ durable' \subseteq Int
    BY <1>1 DEF IInv, Types
  <2>2. QED
    BY <1>1, <2>1 DEF IInv, Types
<1>3. CountersAreCurrent' /\ LogIsOrdered' /\ MetersAreLogged' /\ BeginningIsKnown'
  BY <1>1 DEF IInv, CountersAreCurrent, LogIsOrdered, WellFormed, Follows, MetersAreLogged,
              BeginningIsKnown
<1>4. MetricsAreLogged' /\ UnsentIsNew'
  BY <1>1 DEF IInv, MetricsAreLogged, UnsentIsNew, SinceStart
<1>5. QED
  BY <1>2, <1>3, <1>4 DEF IInv

\* The session's checkpoints, and the end of the process.
LEMMA EndKeeps == ASSUME IInv, Checkpoint \/ Stop \/ Crash PROVE IInv'
<1> USE BoundsAssumption DEF None, Epoch
<1>1. /\ UNCHANGED <<clock, boot, iface, sample, beginning, monitor, reading, meter, collector, points, reboots>>
      /\ pc \notin {"append"} \/ Crash
      /\ pc' \in {"idle", "down"} /\ (pc' = "idle" => pc = "checkpoint")
      /\ hot' \cup durable' \subseteq hot \cup durable /\ hot' \cap durable' = {}
      /\ disk \in [counter : Counters, log : SUBSET Samples, meter : Meters]
      /\ disk' = [disk EXCEPT !.meter = disk'.meter] /\ disk'.meter \in {meter, disk.meter}
      /\ disk'.meter = disk.meter \/ beginning = "no"
      /\ ~blind' => ~blind
      /\ beginning # "no" => blind' /\ pc' = "down"
      /\ blind' \in BOOLEAN
  <2>1. disk \in [counter : Counters, log : SUBSET Samples, meter : Meters] /\ blind \in BOOLEAN
    BY DEF IInv, Types
  <2>2. pc \in {"checkpoint", "idle"} => beginning = "no"
    BY DEF IInv, BeginningIsKnown
  <2>3. hot \cap durable = {}
    BY DEF IInv, MetricsAreLogged
  <2>4. CASE Checkpoint
    BY <2>1, <2>2, <2>3, <2>4 DEF Checkpoint, server, metrics, observers, bounds
  <2>5. CASE Stop
    BY <2>1, <2>2, <2>3, <2>5 DEF Stop, Flushed, server, observers, bounds
  <2>6. CASE Crash
    BY <2>1, <2>3, <2>6 DEF Crash, server, metrics
  <2>7. QED
    BY <2>4, <2>5, <2>6
<1>2. /\ disk' = [counter |-> disk.counter, log |-> disk.log, meter |-> disk'.meter]
      /\ hot' \subseteq Int /\ durable' \subseteq Int
  BY <1>1 DEF IInv, Types
<1>3. Types'
  <2>1. disk' \in [counter : Counters, log : SUBSET Samples, meter : Meters]
    BY <1>1, <1>2 DEF IInv, Types
  <2>2. QED
    BY <1>1, <1>2, <2>1 DEF IInv, Types
<1>4. CountersAreCurrent' /\ LogIsOrdered' /\ MetersAreLogged'
  BY <1>1, <1>2 DEF IInv, CountersAreCurrent, LogIsOrdered, WellFormed, Follows, MetersAreLogged
<1>5. MetricsAreLogged' /\ UnsentIsNew'
  BY <1>1, <1>2 DEF IInv, MetricsAreLogged, UnsentIsNew, SinceStart
<1>6. BeginningIsKnown'
  BY <1>1, <1>2 DEF IInv, BeginningIsKnown
<1>7. QED
  BY <1>3, <1>4, <1>5, <1>6 DEF IInv

\* The next process finds the last sample, the saved counter and the saved session.
LEMMA StartKeeps == ASSUME IInv, Start PROVE IInv'
<1> USE BoundsAssumption DEF None, Epoch
<1>1. /\ pc = "down" /\ pc' = "idle" /\ beginning' = "no" /\ reading' = NoSample
      /\ monitor' = LoadedMonitor /\ meter' = disk.meter /\ collector' = FreshCollector
      /\ points' = {} /\ hot' = {}
      /\ UNCHANGED <<clock, boot, iface, sample, durable, disk, blind, reboots>>
  BY DEF Start, server, observers, bounds
<1>2. Latest(disk.log) = monitor.last
  <2>1. CASE disk.log = {}
    BY <2>1 DEF Latest, IInv, LogIsOrdered
  <2>2. CASE disk.log # {}
    <3>1. monitor.last \in disk.log /\ \A s \in disk.log : s.epoch <= monitor.last.epoch
      BY <2>2 DEF IInv, LogIsOrdered
    <3>2. PICK s \in disk.log : s = Latest(disk.log) /\ \A t \in disk.log : t.epoch <= s.epoch
      BY <2>2, <3>1 DEF Latest
    <3>3. s.epoch \in Int /\ monitor.last.epoch \in Int
      BY <3>1, <3>2 DEF IInv, LogIsOrdered, WellFormed
    <3>4. s.epoch = monitor.last.epoch
      BY <3>1, <3>2, <3>3
    <3>5. s = monitor.last
      BY <3>1, <3>2, <3>3, <3>4 DEF IInv, LogIsOrdered, Follows
    <3>6. QED
      BY <3>2, <3>5
  <2>3. QED
    BY <2>1, <2>2
<1>3. /\ monitor'.counter = disk.counter /\ monitor'.last = monitor.last
      /\ monitor' \in [counter : Counters, status : Health!Stabilizer, last : Samples, polled : BOOLEAN]
  <2>1. \A c \in {"waiting", "ok"} : Health!Confirmed(c) \in Health!Stabilizer
    BY DEF Health!Confirmed, Health!Stabilizer, Health!Status
  <2>2. monitor.last \in Samples /\ disk.counter \in Counters
    BY DEF IInv, Types
  <2>3. QED
    BY ONLY <1>1, <1>2, <2>1, <2>2 DEF LoadedMonitor
<1>4. /\ collector'.seen = None /\ collector'.baseline = None
      /\ collector' \in [seen : Moment, baseline : Moment, source : Availability!Stabilizer]
  <2>1. Availability!Confirmed("available") \in Availability!Stabilizer
    BY DEF Availability!Confirmed, Availability!Stabilizer, Availability!Status
  <2>2. QED
    BY <1>1, <2>1 DEF FreshCollector, Moment
<1>5. Types'
  <2>1. NoSample \in Samples /\ disk.meter \in Meters
    BY DEF NoSample, Samples, Moment, IInv, Types
  <2>2. QED
    BY <1>1, <1>3, <1>4, <2>1 DEF IInv, Types
<1>6. CountersAreCurrent' /\ LogIsOrdered' /\ MetersAreLogged'
  <2>1. disk.counter.epoch \in Int
    BY DEF IInv, Types, Counters, Moment
  <2>2. QED
    BY <1>1, <1>3, <2>1 DEF IInv, CountersAreCurrent, LogIsOrdered, WellFormed, Follows, MetersAreLogged
<1>7. MetricsAreLogged' /\ UnsentIsNew'
  BY <1>1, <1>3, <1>4 DEF IInv, MetricsAreLogged, UnsentIsNew
<1>8. BeginningIsKnown'
  BY <1>1, <1>3 DEF IInv, BeginningIsKnown
<1>9. QED
  BY <1>5, <1>6, <1>7, <1>8 DEF IInv

--------------------------------------------------------------------------------
\* Every step keeps it: one case per action.
LEMMA NextIInv == IInv /\ [Next]_vars => IInv'
<1> SUFFICES ASSUME IInv, [Next]_vars PROVE IInv'
  OBVIOUS
<1>1. CASE Tick \/ Reboot
  BY <1>1, ServerKeeps
<1>2. CASE Begin \/ BeginReset \/ FailReset
  BY <1>2, BeginKeeps
<1>3. CASE SkipPoll \/ FailRead \/ FailSave \/ FailAppend
  BY <1>3, NoPollKeeps
<1>4. CASE Read
  BY <1>4, ReadKeeps
<1>5. CASE Append
  BY <1>5, AppendKeeps
<1>6. CASE BeginAutomatic \/ FailBaseline
  BY <1>6, StartSessionKeeps
<1>7. CASE SetBaseline \/ Record
  BY <1>7, MeterKeeps
<1>8. CASE Collect
  BY <1>8, CollectKeeps
<1>9. CASE Ingest \/ Raise
  BY <1>9, MetricsKeep
<1>10. CASE Checkpoint \/ Stop \/ Crash
  BY <1>10, EndKeeps
<1>11. CASE Start
  BY <1>11, StartKeeps
<1>12. CASE UNCHANGED vars
  BY <1>12 DEF vars, IInv, Types, CountersAreCurrent, LogIsOrdered, WellFormed, Follows,
               MetricsAreLogged, UnsentIsNew, SinceStart, MetersAreLogged, BeginningIsKnown
<1>13. QED
  BY <1>1, <1>2, <1>3, <1>4, <1>5, <1>6, <1>7, <1>8, <1>9, <1>10, <1>11, <1>12 DEF Next

\* The inductive invariant holds in every behaviour.
THEOREM RemoteInvariance == Spec => []IInv
<1>1. QED
  BY InitIInv, NextIInv, PTL DEF Spec

\* The types, and that a session's baseline is the last sample it looked at.
THEOREM RemoteTypes == Spec => []TypeOK
<1>1. ASSUME IInv PROVE TypeOK
  <2> USE BoundsAssumption DEF None, Epoch
  <2>1. \A s \in disk.log \cup {monitor.last, reading} :
            s = NoSample \/ (s.epoch \in Epoch /\ s.start < s.epoch)
    BY <1>1, LastIsLogged DEF IInv, LogIsOrdered, WellFormed
  <2>2. \A s \in disk.log : s.units \subseteq Unit
    BY <1>1 DEF IInv, Types, LogIsOrdered, WellFormed, Unit
  <2>3. points \subseteq Unit /\ hot \subseteq Unit /\ durable \subseteq Unit
    BY <1>1, <2>2 DEF IInv, MetricsAreLogged
  <2>4. ASSUME NEW m \in {meter, disk.meter}
        PROVE  /\ m.start \in Epoch \cup {None} /\ m.units \subseteq Unit
               /\ m.last \in Epoch \cup {None} /\ m.baselined = m.last
    <3>1. m \in Meters /\ clock \in Int
      BY <1>1 DEF IInv, Types
    <3>2. m.units \subseteq 1..m.last /\ m.baselined = m.last
      BY <1>1 DEF IInv, MetersAreLogged
    <3>3. m.start \in Moment /\ m.last \in Moment
      BY <3>1 DEF Meters
    <3>4. m.last <= clock
      BY <1>1, <3>3 DEF IInv, Types, MetersAreLogged, LogIsOrdered, WellFormed, Moment
    <3>5. m.units \subseteq Unit
      BY <3>1, <3>2, <3>3, <3>4 DEF Unit, Moment
    <3>6. QED
      BY <3>2, <3>3, <3>5 DEF Moment
  <2>5. QED
    BY <1>1, <2>1, <2>3, <2>4 DEF IInv, Types, TypeOK
<1>2. QED
  BY <1>1, RemoteInvariance, PTL

\* No unit of traffic is in two samples of the log or in the metrics twice, whatever reboots,
\* fails, raises or crashes between the save of the counter and the flush.
THEOREM RemoteTrafficIsNotReplayed == Spec => []NothingReplayed
<1>1. ASSUME IInv PROVE NothingReplayed
  <2>1. ASSUME NEW s \in disk.log, NEW t \in disk.log, Follows(s, t) PROVE s.units \cap t.units = {}
    <3>1. t.units \subseteq 1..t.epoch /\ t.epoch \in Int /\ \A u \in s.units : u > t.epoch
      BY <1>1, <2>1, BoundsAssumption DEF IInv, LogIsOrdered, WellFormed, Follows, Epoch
    <3>2. QED
      BY <3>1
  <2>2. \A s, t \in disk.log : s # t => s.units \cap t.units = {}
    BY <1>1, <2>1 DEF IInv, LogIsOrdered
  <2>3. QED
    BY <1>1, <2>2 DEF IInv, MetricsAreLogged, NothingReplayed
<1>2. QED
  BY <1>1, RemoteInvariance, PTL

\* A session that has yet to record the last sample counts nothing of it, through restarts
\* with a session file older than the log.
THEOREM SessionsCountOnce == Spec => []SessionCountsOnce
<1>1. ASSUME IInv PROVE SessionCountsOnce
  <2> USE BoundsAssumption DEF None, Epoch
  <2>1. SUFFICES ASSUME NewSample(meter, monitor.last) PROVE meter.units \cap monitor.last.units = {}
    BY DEF SessionCountsOnce
  <2>2. monitor.last # NoSample /\ monitor.last.epoch # meter.last
    BY <2>1 DEF NewSample, NoSample
  <2>3. /\ monitor.last \in disk.log /\ WellFormed(monitor.last)
        /\ \A s \in disk.log : s.epoch <= monitor.last.epoch
    BY <1>1, <2>2, LastIsLogged
  <2>4. meter.units \subseteq 1..meter.last /\ meter.last \in Moment
    BY <1>1 DEF IInv, Types, Meters, MetersAreLogged
  <2>5. CASE meter.last = None
    BY <2>4, <2>5
  <2>6. CASE meter.last # None
    <3>1. PICK s \in disk.log : s.epoch = meter.last
      BY <1>1, <2>6 DEF IInv, MetersAreLogged
    <3>2. s.epoch \in Int /\ monitor.last.epoch \in Int
      BY <1>1, <2>3 DEF IInv, LogIsOrdered, WellFormed
    <3>3. Follows(monitor.last, s)
      BY <1>1, <2>2, <2>3, <3>1, <3>2 DEF IInv, LogIsOrdered, Follows
    <3>4. QED
      BY <2>4, <3>1, <3>2, <3>3 DEF Follows
  <2>7. QED
    BY <2>5, <2>6
<1>2. QED
  BY <1>1, RemoteInvariance, PTL

\* A session counts nothing from before its start, unless it began blind.
THEOREM BaselinedSessionsAreSound == Spec => []BaselinedSessionsKeepTheirStart
<1>1. IInv => BaselinedSessionsKeepTheirStart
  BY DEF IInv, BeginningIsKnown, BaselinedSessionsKeepTheirStart, SessionKeepsItsStart
<1>2. QED
  BY <1>1, RemoteInvariance, PTL

--------------------------------------------------------------------------------
(* Orderly runs. *)

Orderly == crashes = 0 /\ faults = 0 /\ ~outage

\* The server is never held to be failing; a counter is known once a sample is logged, and
\* a stopped process has saved its session.
PollsSucceed ==
    /\ ~blind
    /\ monitor.status.status # "error"
    /\ monitor.last.units # {} => monitor.status.status = "ok"
    /\ pc = "append" /\ reading.initial => reading.units = {}
    /\ pc # "append" /\ disk.log = {} => monitor.counter = NoCounter /\ disk.counter = NoCounter
    /\ pc = "down" => disk.meter = meter /\ hot = {} /\ points = {}

\* The collector withholds nothing and has seen no later sample than the last.
CollectorFollows ==
    /\ collector.source.status = "available"
    /\ collector.baseline <= sample /\ collector.seen <= monitor.last.epoch

\* Only the last sample may be later than the local one, and a session is begun before it.
LogFollowsSamples ==
    /\ pc = "append" => reading.epoch > sample /\ \A s \in disk.log : s.epoch <= sample
    /\ pc = "session" => \A s \in disk.log : s.epoch <= sample \/ s = monitor.last
    /\ beginning # "no" => meter.start = sample
    /\ meter.start = None =>
        /\ pc \in {"idle", "poll", "append", "session", "down"}
        /\ IF pc = "session" THEN disk.log \subseteq {monitor.last} ELSE disk.log = {}

Unsent(s) ==
    /\ pc \in {"session", "collect"} /\ s = monitor.last
    /\ s.epoch # collector.seen /\ SinceStart(s.epoch)

\* Every logged unit is in the metrics, on its way there, or will be collected.
MetricsHoldTheLog ==
    \A s \in disk.log : s.units \subseteq hot \cup durable \cup points \/ Unsent(s)

Unrecorded(s) ==
    /\ pc = "session" /\ beginning = "no"
    /\ s = monitor.last /\ NewSample(meter, s)

\* A session counts intervals that began within it, and after its first poll all of them.
SessionHoldsItsLog ==
    /\ \A u \in meter.units : \E s \in disk.log : s.start >= meter.start /\ u \in s.units
    /\ \A p, s \in disk.log : p.epoch > meter.start /\ s.start >= p.epoch =>
        s.units \subseteq meter.units \/ Unrecorded(s)

OrderlyRun ==
    PollsSucceed /\ CollectorFollows /\ LogFollowsSamples /\ MetricsHoldTheLog /\ SessionHoldsItsLog

OrderlyInv == crashes \in Nat /\ faults \in Nat /\ outage \in BOOLEAN /\ (Orderly => OrderlyRun)

\* An orderly run takes none of the steps that fail but a missed poll.
LEMMA OrderlySteps ==
  ASSUME OrderlyInv, Next, Orderly'
  PROVE  /\ Orderly
         /\ \/ Tick \/ Reboot \/ Begin \/ BeginReset \/ SkipPoll \/ Read \/ FailRead \/ Append
            \/ BeginAutomatic \/ SetBaseline \/ FailBaseline \/ Record
            \/ Collect \/ Ingest \/ Checkpoint \/ Stop \/ Start
<1> USE DEF OrderlyInv, Orderly, observers, bounds
<1>1. ASSUME Fault PROVE FALSE
  BY <1>1 DEF Fault
<1>2. ASSUME FailReset \/ FailSave \/ FailAppend \/ Raise PROVE FALSE
  BY <1>1, <1>2 DEF FailReset, FailSave, FailAppend, Raise
<1>3. ASSUME Crash PROVE FALSE
  BY <1>3 DEF Crash
<1>4. ASSUME FailPoll(monitor) PROVE outage = FALSE
  BY <1>4 DEF FailPoll
<1>5. CASE Tick \/ Reboot \/ Begin \/ BeginReset \/ SkipPoll \/ Read \/ Append
  BY <1>5 DEF Tick, Reboot, Begin, BeginReset, SkipPoll, Read, Append
<1>6. CASE FailRead
  BY <1>4, <1>6 DEF FailRead
<1>7. CASE BeginAutomatic \/ SetBaseline \/ Record \/ Collect \/ Ingest \/ Checkpoint \/ Stop \/ Start
  BY <1>7 DEF BeginAutomatic, SetBaseline, Record, Collect, Ingest, Checkpoint, Stop, Start
<1>8. CASE FailBaseline
  <2>1. UNCHANGED faults \/ Fault
    BY <1>8 DEF FailBaseline
  <2>2. UNCHANGED <<crashes, outage>> /\ UNCHANGED faults
    BY <1>1, <1>8, <2>1 DEF FailBaseline
  <2>3. QED
    BY <1>8, <2>2
<1>9. QED
  BY <1>2, <1>3, <1>5, <1>6, <1>7, <1>8 DEF Next

\* Time goes on.
LEMMA ServerOrderly == ASSUME IInv, OrderlyRun, Tick \/ Reboot PROVE OrderlyRun'
<1>1. UNCHANGED <<pc, sample, beginning, monitor, reading, meter, collector, points, hot, durable, disk, blind>>
  BY DEF Tick, Reboot, metrics, observers, bounds
<1>2. QED
  BY <1>1 DEF OrderlyRun, PollsSucceed, CollectorFollows, LogFollowsSamples, MetricsHoldTheLog, Unsent,
              SinceStart, SessionHoldsItsLog, Unrecorded

\* A sample begins: what is logged is not later, so that a new session has nothing to hold.
LEMMA BeginOrderly == ASSUME IInv, OrderlyRun, Begin \/ BeginReset PROVE OrderlyRun'
<1> USE BoundsAssumption DEF None, Epoch
<1>1. /\ pc = "idle" /\ pc' = "poll" /\ sample' = clock /\ clock \in Nat /\ sample <= clock
      /\ sample \in Int
      /\ UNCHANGED <<monitor, reading, collector, points, hot, durable, blind>>
      /\ disk'.log = disk.log /\ disk'.counter = disk.counter
  BY DEF Begin, BeginReset, Idle, server, metrics, observers, bounds, IInv, Types
<1>2. PollsSucceed'
  BY <1>1 DEF OrderlyRun, PollsSucceed
<1>3. CollectorFollows'
  <2>1. collector.baseline \in Int
    BY DEF IInv, Types, Moment
  <2>2. QED
    BY <1>1, <2>1 DEF OrderlyRun, CollectorFollows
<1>4. MetricsHoldTheLog'
  <2>1. \A s \in disk.log : s.units \subseteq hot \cup durable \cup points
    BY <1>1 DEF OrderlyRun, MetricsHoldTheLog, Unsent
  <2>2. QED
    BY <1>1, <2>1 DEF MetricsHoldTheLog
<1>5. CASE Begin
  <2>1. meter' = meter /\ beginning' = "no"
    BY <1>5 DEF Begin
  <2>2. LogFollowsSamples' /\ SessionHoldsItsLog'
    BY <1>1, <2>1 DEF OrderlyRun, LogFollowsSamples, SessionHoldsItsLog, Unrecorded
  <2>3. QED
    BY <1>2, <1>3, <1>4, <2>2 DEF OrderlyRun
<1>6. CASE BeginReset
  <2>1. meter'.start = clock /\ meter'.units = {}
    BY <1>6 DEF BeginReset, NoMeter
  <2>2. \A s \in disk.log : s.epoch \in Int /\ s.epoch <= clock
    BY <1>1 DEF IInv, LogIsOrdered, WellFormed
  <2>3. LogFollowsSamples' /\ SessionHoldsItsLog'
    BY <1>1, <2>1, <2>2 DEF LogFollowsSamples, SessionHoldsItsLog
  <2>4. QED
    BY <1>2, <1>3, <1>4, <2>3 DEF OrderlyRun
<1>7. QED
  BY <1>5, <1>6

\* What is logged when a poll is due is not later than the local sample.
LEMMA LoggedBefore ==
  ASSUME IInv, pc = "poll" PROVE \A s \in disk.log : s.epoch <= sample
<1> USE BoundsAssumption DEF None, Epoch
<1>1. disk.counter.epoch \in Int /\ monitor.counter.epoch \in Int /\ sample \in Int
  BY DEF IInv, Types, Counters, Moment
<1>2. disk.counter.epoch <= monitor.counter.epoch /\ monitor.counter.epoch <= sample
  BY DEF IInv, CountersAreCurrent
<1>3. \A s \in disk.log : s.epoch \in Int /\ s.epoch <= disk.counter.epoch
  BY DEF IInv, LogIsOrdered, WellFormed
<1>4. QED
  BY <1>1, <1>2, <1>3

\* No poll, or one that fails without confirming a failure.
LEMMA NoPollOrderly == ASSUME IInv, OrderlyRun, SkipPoll \/ FailRead, ~outage' PROVE OrderlyRun'
<1>1. /\ pc = "poll" /\ pc' = "session"
      /\ UNCHANGED <<sample, beginning, meter, collector, points, hot, durable, disk, blind>>
      /\ monitor'.last = monitor.last /\ monitor'.counter = monitor.counter
      /\ reading' \in {reading, NoSample}
      /\ monitor'.status.status = monitor.status.status
  <2>1. CASE SkipPoll
    BY <2>1 DEF SkipPoll, metrics, observers, bounds
  <2>2. CASE FailRead
    <3>1. /\ pc = "poll" /\ pc' = "session" /\ reading' = NoSample
          /\ UNCHANGED <<sample, beginning, meter, collector, points, hot, durable, disk, blind>>
          /\ monitor' = [monitor EXCEPT !.polled = TRUE,
                                        !.status = Health!Observe(monitor.status, "error", FALSE)]
          /\ monitor'.status.status # "error"
      BY <2>2 DEF FailRead, FailPoll, metrics
    <3>2. /\ monitor \in [counter : Counters, status : Health!Stabilizer, last : Samples, polled : BOOLEAN]
          /\ monitor.status \in Health!Stabilizer
      BY DEF IInv, Types
    <3>3. monitor'.status = Health!Observe(monitor.status, "error", FALSE)
          /\ monitor'.last = monitor.last /\ monitor'.counter = monitor.counter
      BY <3>1, <3>2
    <3>4. monitor'.status.status = monitor.status.status
      BY <3>1, <3>2, <3>3 DEF Health!Observe, Health!Confirmed, Health!Stabilizer
    <3>5. QED
      BY <3>1, <3>3, <3>4
  <2>3. QED
    BY <2>1, <2>2
<1>2. PollsSucceed' /\ CollectorFollows'
  BY <1>1 DEF OrderlyRun, PollsSucceed, CollectorFollows
<1>3. LogFollowsSamples'
  BY <1>1, LoggedBefore DEF OrderlyRun, LogFollowsSamples
<1>4. MetricsHoldTheLog' /\ SessionHoldsItsLog'
  BY <1>1 DEF OrderlyRun, MetricsHoldTheLog, Unsent, SessionHoldsItsLog, Unrecorded
<1>5. QED
  BY <1>2, <1>3, <1>4 DEF OrderlyRun

\* A poll of an orderly run reads exactly the units that passed since the one before.
LEMMA ReadOrderly == ASSUME IInv, OrderlyRun, Read PROVE OrderlyRun'
<1> USE BoundsAssumption DEF None, Epoch
<1>1. /\ pc = "poll" /\ pc' = "append" /\ reading' = Interval
      /\ UNCHANGED <<sample, beginning, meter, collector, points, hot, durable, blind>>
      /\ disk'.log = disk.log /\ disk'.meter = disk.meter
      /\ monitor'.last = monitor.last /\ monitor'.status = monitor.status
  <2>1. /\ monitor \in [counter : Counters, status : Health!Stabilizer, last : Samples, polled : BOOLEAN]
        /\ disk \in [counter : Counters, log : SUBSET Samples, meter : Meters]
    BY DEF IInv, Types
  <2>2. QED
    BY <2>1 DEF Read, metrics, observers
<1>2. Interval.initial => Interval.units = {}
  <2>1. clock \in Nat
    BY DEF IInv, Types
  <2>2. SUFFICES ASSUME monitor.counter = NoCounter PROVE Interval.units = {}
    BY DEF Interval
  <2>3. monitor.counter.epoch = None
    BY <2>2 DEF NoCounter
  <2>4. Interval.units = (clock - 0 + 1)..clock
    BY <2>3 DEF Interval
  <2>5. QED
    BY <2>1, <2>4
<1>3. PollsSucceed' /\ CollectorFollows'
  BY <1>1, <1>2 DEF OrderlyRun, PollsSucceed, CollectorFollows
<1>4. LogFollowsSamples'
  <2>1. Interval.epoch = clock /\ clock > sample
    BY DEF Interval, Read
  <2>2. QED
    BY <1>1, <2>1, LoggedBefore DEF OrderlyRun, LogFollowsSamples
<1>5. MetricsHoldTheLog' /\ SessionHoldsItsLog'
  BY <1>1 DEF OrderlyRun, MetricsHoldTheLog, Unsent, SessionHoldsItsLog, Unrecorded
<1>6. QED
  BY <1>3, <1>4, <1>5 DEF OrderlyRun

\* The sample is logged, and waits for the session and the collector.
LEMMA AppendOrderly == ASSUME IInv, OrderlyRun, Append PROVE OrderlyRun'
<1> USE BoundsAssumption DEF None, Epoch
<1> DEFINE candidate == IF reading.initial THEN "baseline" ELSE "ok"
           immediate == monitor.status.status \in {"waiting", "baseline"}
<1>1. /\ pc = "append" /\ pc' = "session" /\ disk'.log = disk.log \cup {reading}
      /\ UNCHANGED <<sample, beginning, meter, collector, points, hot, durable, blind>>
      /\ monitor'.last = reading
      /\ monitor'.status = Health!Observe(monitor.status, candidate, immediate)
      /\ monitor.status \in Health!Stabilizer
  <2>1. /\ monitor \in [counter : Counters, status : Health!Stabilizer, last : Samples, polled : BOOLEAN]
        /\ disk \in [counter : Counters, log : SUBSET Samples, meter : Meters]
    BY DEF IInv, Types
  <2>2. QED
    BY <2>1 DEF Append, metrics, observers
<1>2. /\ WellFormed(reading) /\ reading.epoch \in Int /\ reading.start \in Int
      /\ \A s \in disk.log : Follows(reading, s) /\ s.epoch \in Int /\ s.start \in Int /\ s.start < s.epoch
      /\ sample \in Int /\ meter.start \in Int
  <2>1. reading \in Samples /\ disk.log \subseteq Samples /\ sample \in Int /\ meter \in Meters
    BY DEF IInv, Types
  <2>2. \A s \in Samples : s.start \in Int /\ s.epoch \in Int
    BY DEF Samples, Moment
  <2>3. meter.start \in Int
    BY <2>1 DEF Meters, Moment
  <2>4. QED
    BY <1>1, <2>1, <2>2, <2>3 DEF IInv, LogIsOrdered, WellFormed
<1>3. monitor'.status.status # "error" /\ (reading.units # {} => monitor'.status.status = "ok")
  <2>1. monitor.status.status \in {"waiting", "baseline", "ok"}
    <3>1. monitor.status.status \in DOMAIN [waiting |-> 0, baseline |-> 0, ok |-> 0, error |-> 1]
      BY <1>1 DEF Health!Stabilizer, Health!Status
    <3>2. QED
      BY <3>1 DEF OrderlyRun, PollsSucceed
  <2>2. CASE candidate = monitor.status.status \/ immediate
    <3>1. monitor'.status.status = candidate
      BY <1>1, <2>2 DEF Health!Observe, Health!Confirmed
    <3>2. QED
      BY <1>1, <3>1 DEF OrderlyRun, PollsSucceed
  <2>3. CASE ~immediate /\ candidate # monitor.status.status
    <3>1. monitor.status.status = "ok" /\ reading.initial /\ reading.units = {}
      BY <1>1, <2>1, <2>3 DEF OrderlyRun, PollsSucceed
    <3>2. monitor'.status.status \in {"ok", "baseline"}
      BY <1>1, <3>1 DEF Health!Observe, Health!Confirmed, Health!Stabilizer
    <3>3. QED
      BY <3>1, <3>2
  <2>4. QED
    BY <2>2, <2>3
<1>4. \A s \in disk.log : s.epoch < reading.epoch
  BY <1>2 DEF Follows
<1>5. PollsSucceed'
  BY <1>1, <1>3 DEF OrderlyRun, PollsSucceed
<1>6. collector.seen \in Int /\ collector.seen < reading.epoch
  <2>1. collector.seen \in Int /\ monitor.last.epoch \in Int
    BY DEF IInv, Types, Moment, Samples
  <2>2. monitor.last.epoch < reading.epoch
    <3>1. CASE disk.log = {}
      BY <1>1, <1>2, <3>1 DEF IInv, LogIsOrdered, NoSample, WellFormed
    <3>2. CASE disk.log # {}
      BY <1>4, <3>2 DEF IInv, LogIsOrdered
    <3>3. QED
      BY <3>1, <3>2
  <2>3. QED
    BY <1>2, <2>1, <2>2 DEF OrderlyRun, CollectorFollows
<1>7. CollectorFollows'
  BY <1>1, <1>2, <1>6 DEF OrderlyRun, CollectorFollows
<1>8. LogFollowsSamples'
  BY <1>1 DEF OrderlyRun, LogFollowsSamples
<1>9. MetricsHoldTheLog'
  <2>1. \A s \in disk.log : s.units \subseteq hot \cup durable \cup points
    BY <1>1 DEF OrderlyRun, MetricsHoldTheLog, Unsent
  <2>2. SinceStart(reading.epoch)
    <3>1. collector.baseline \in Int
      BY DEF IInv, Types, Moment
    <3>2. QED
      BY <1>1, <1>2, <3>1 DEF OrderlyRun, CollectorFollows, LogFollowsSamples, SinceStart
  <2>3. QED
    BY <1>1, <1>6, <2>1, <2>2 DEF MetricsHoldTheLog, Unsent, SinceStart
<1>10. SessionHoldsItsLog'
  <2>1. \A u \in meter.units : \E s \in disk.log : s.start >= meter.start /\ u \in s.units
    BY DEF OrderlyRun, SessionHoldsItsLog
  <2>2. ASSUME NEW p \in disk'.log, NEW s \in disk'.log, p.epoch > meter.start, s.start >= p.epoch
        PROVE  s.units \subseteq meter.units \/ Unrecorded(s)'
    <3>1. p \in disk.log
      BY <1>1, <1>2, <1>4, <2>2 DEF WellFormed
    <3>2. CASE s \in disk.log
      BY <1>1, <2>2, <3>1, <3>2 DEF OrderlyRun, SessionHoldsItsLog, Unrecorded
    <3>3. CASE s = reading
      <4>1. beginning = "no"
        BY <1>1, <1>2, <2>2, <3>1 DEF OrderlyRun, LogFollowsSamples
      <4>2. p.epoch \in Nat
        BY <3>1 DEF IInv, LogIsOrdered, WellFormed
      <4>3. reading.start # None
        BY <1>2, <2>2, <3>3, <4>2
      <4>4. reading.epoch # meter.last
        <5>1. meter.last # None => \E t \in disk.log : t.epoch = meter.last
          BY DEF IInv, MetersAreLogged
        <5>2. reading.epoch \in Nat
          BY <1>2 DEF WellFormed
        <5>3. QED
          BY <1>2, <1>4, <5>1, <5>2
      <4>5. QED
        BY <1>1, <3>3, <4>1, <4>3, <4>4 DEF Unrecorded, NewSample
    <3>4. QED
      BY <1>1, <3>2, <3>3
  <2>3. QED
    BY <1>1, <2>1, <2>2 DEF SessionHoldsItsLog
<1>11. QED
  BY <1>5, <1>7, <1>8, <1>9, <1>10 DEF OrderlyRun

\* No logged interval began after a poll that is later than the local sample.
LEMMA NothingHeld ==
  ASSUME IInv, LogFollowsSamples, pc = "session",
         NEW p \in disk.log, NEW s \in disk.log, p.epoch > sample, s.start >= p.epoch
  PROVE  FALSE
<1>1. /\ p = monitor.last /\ s.epoch <= monitor.last.epoch /\ s.start < s.epoch
  <2>1. p.epoch \in Int /\ sample \in Int
    BY BoundsAssumption DEF IInv, Types, LogIsOrdered, WellFormed, Epoch
  <2>2. QED
    BY <2>1 DEF LogFollowsSamples, IInv, LogIsOrdered, WellFormed
<1>2. p.epoch \in Int /\ s.epoch \in Int /\ s.start \in Int
  <2>1. p \in Samples /\ s \in Samples
    BY DEF IInv, Types
  <2>2. QED
    BY <2>1, BoundsAssumption DEF Samples, Moment, Epoch, None
<1>3. QED
  BY <1>1, <1>2

\* A session begins after its poll, or cannot because nothing was ever polled.
LEMMA StartSessionOrderly ==
  ASSUME IInv, OrderlyRun, BeginAutomatic \/ (FailBaseline /\ ~Fault) PROVE OrderlyRun'
<1> USE BoundsAssumption DEF None, Epoch
<1>1. CASE BeginAutomatic
  <2>1. /\ pc = "session" /\ pc' = "session" /\ beginning = "no" /\ beginning' = "automatic"
        /\ meter.start = None /\ meter' = [NoMeter EXCEPT !.start = sample]
        /\ disk'.log = disk.log /\ disk'.counter = disk.counter
        /\ UNCHANGED <<sample, monitor, reading, collector, points, hot, durable, blind>>
    <3>1. disk \in [counter : Counters, log : SUBSET Samples, meter : Meters]
      BY DEF IInv, Types
    <3>2. QED
      BY <1>1, <3>1 DEF BeginAutomatic, metrics, observers
  <2>2. meter'.start = sample /\ meter'.units = {} /\ sample \in Nat
    BY <2>1 DEF NoMeter, IInv, Types
  <2>3. PollsSucceed' /\ CollectorFollows'
    BY <2>1 DEF OrderlyRun, PollsSucceed, CollectorFollows
  <2>4. LogFollowsSamples' /\ MetricsHoldTheLog'
    BY <2>1, <2>2 DEF OrderlyRun, LogFollowsSamples, MetricsHoldTheLog, Unsent, SinceStart
  <2>5. SessionHoldsItsLog'
    BY <2>1, <2>2, NothingHeld DEF OrderlyRun, SessionHoldsItsLog
  <2>6. QED
    BY <2>3, <2>4, <2>5 DEF OrderlyRun
<1>2. CASE FailBaseline /\ ~Fault
  <2>1. /\ pc = "session" /\ pc' \in {"session", "idle"} /\ beginning # "no" /\ beginning' = "no"
        /\ monitor.last = NoSample
        /\ blind' = (blind \/ monitor.counter # NoCounter)
        /\ UNCHANGED <<sample, monitor, reading, meter, collector, points, hot, durable, disk>>
    BY <1>2 DEF FailBaseline, metrics
  <2>2. disk.log = {}
    BY <2>1 DEF IInv, LogIsOrdered, WellFormed, NoSample
  <2>3. monitor.counter = NoCounter /\ ~blind /\ blind' = FALSE
    BY <2>1, <2>2 DEF OrderlyRun, PollsSucceed
  <2>4. PollsSucceed' /\ CollectorFollows'
    BY <2>1, <2>2, <2>3 DEF OrderlyRun, PollsSucceed, CollectorFollows
  <2>5. LogFollowsSamples'
    BY <2>1, <2>2 DEF OrderlyRun, LogFollowsSamples
  <2>6. MetricsHoldTheLog' /\ SessionHoldsItsLog'
    BY <2>1, <2>2 DEF OrderlyRun, MetricsHoldTheLog, SessionHoldsItsLog
  <2>7. QED
    BY <2>4, <2>5, <2>6 DEF OrderlyRun
<1>3. QED
  BY <1>1, <1>2

\* The session gets its baseline, or records what is new of the log.
LEMMA MeterOrderly == ASSUME IInv, OrderlyRun, SetBaseline \/ Record PROVE OrderlyRun'
<1> USE BoundsAssumption DEF None, Epoch
<1>1. /\ pc = "session" /\ pc' = "collect" /\ beginning' = "no"
      /\ disk'.log = disk.log /\ disk'.counter = disk.counter
      /\ UNCHANGED <<sample, monitor, reading, collector, points, hot, durable>>
      /\ blind' = FALSE /\ monitor.status.status # "error"
  <2>1. disk \in [counter : Counters, log : SUBSET Samples, meter : Meters]
    BY DEF IInv, Types
  <2>2. blind = FALSE /\ monitor.status.status # "error"
    BY DEF OrderlyRun, PollsSucceed, IInv, Types
  <2>3. CASE SetBaseline
    BY <2>1, <2>2, <2>3 DEF SetBaseline, metrics
  <2>4. CASE Record
    BY <2>1, <2>2, <2>4 DEF Record, metrics, observers
  <2>5. QED
    BY <2>3, <2>4
<1>2. PollsSucceed' /\ CollectorFollows'
  BY <1>1 DEF OrderlyRun, PollsSucceed, CollectorFollows
<1>3. MetricsHoldTheLog'
  BY <1>1 DEF OrderlyRun, MetricsHoldTheLog, Unsent, SinceStart
<1>4. CASE SetBaseline
  <2>1. beginning # "no" /\ meter'.units = meter.units /\ meter'.start = meter.start
        /\ meter.start = sample /\ sample \in Nat
    <3>1. meter' = [meter EXCEPT !.last = monitor.last.epoch, !.baselined = monitor.last.epoch]
      BY <1>1, <1>4 DEF SetBaseline, Baselined
    <3>2. meter \in Meters /\ sample \in Nat
      BY DEF IInv, Types
    <3>3. QED
      BY <1>4, <3>1, <3>2 DEF Meters, SetBaseline, OrderlyRun, LogFollowsSamples
  <2>2. LogFollowsSamples'
    BY <1>1, <2>1 DEF LogFollowsSamples
  <2>3. SessionHoldsItsLog'
    BY <1>1, <2>1, NothingHeld DEF OrderlyRun, SessionHoldsItsLog
  <2>4. QED
    BY <1>2, <1>3, <2>2, <2>3 DEF OrderlyRun
<1>5. CASE Record
  <2> DEFINE last == monitor.last
  <2>1. beginning = "no" /\ meter.start # None /\ meter'.start = meter.start
        /\ meter'.units = IF NewSample(meter, last) /\ Belongs(meter, last)
                          THEN meter.units \cup last.units ELSE meter.units
    <3>1. meter \in Meters
      BY DEF IInv, Types
    <3>2. QED
      BY <1>5, <3>1 DEF Meters, Record
  <2>2. LogFollowsSamples'
    BY <1>1, <2>1 DEF LogFollowsSamples
  <2>3. ASSUME NewSample(meter, last), Belongs(meter, last)
        PROVE  last \in disk.log /\ last.start >= meter.start
    <3>1. last \in disk.log
      <4>1. last # NoSample
        BY <2>3 DEF NewSample, NoSample
      <4>2. QED
        BY <4>1, LastIsLogged
    <3>2. last.start # None
      BY <2>3 DEF NewSample
    <3>3. meter.baselined = None => last.start >= meter.start
      BY <2>1, <3>1, <3>2 DEF OrderlyRun, PollsSucceed, IInv, BeginningIsKnown
    <3>4. QED
      BY <2>3, <3>1, <3>3 DEF Belongs
  <2>4. \A u \in meter'.units : \E s \in disk.log : s.start >= meter.start /\ u \in s.units
    BY <2>1, <2>3 DEF OrderlyRun, SessionHoldsItsLog
  <2>5. ASSUME NEW p \in disk.log, NEW s \in disk.log, p.epoch > meter.start, s.start >= p.epoch
        PROVE  s.units \subseteq meter'.units
    <3>1. s.units \subseteq meter.units \/ (s = last /\ NewSample(meter, last))
      BY <2>5 DEF OrderlyRun, SessionHoldsItsLog, Unrecorded
    <3>2. s.start >= meter.start
      <4>1. s \in Samples /\ p \in Samples /\ meter \in Meters
        BY DEF IInv, Types
      <4>2. s.start \in Int /\ p.epoch \in Int /\ meter.start \in Int
        BY <4>1 DEF Samples, Meters, Moment
      <4>3. QED
        BY <2>5, <4>2
    <3>3. QED
      BY <2>1, <3>1, <3>2 DEF Belongs
  <2>6. SessionHoldsItsLog'
    BY <1>1, <2>1, <2>4, <2>5 DEF SessionHoldsItsLog
  <2>7. QED
    BY <1>2, <1>3, <2>2, <2>6 DEF OrderlyRun
<1>6. QED
  BY <1>4, <1>5

\* What waited of the log is collected: the server is not held to be failing.
LEMMA CollectOrderly == ASSUME IInv, OrderlyRun, Collect PROVE OrderlyRun'
<1> USE BoundsAssumption DEF None, Epoch
<1>1. /\ pc = "collect" /\ pc' = "ingest"
      /\ UNCHANGED <<sample, beginning, monitor, reading, meter, hot, durable, disk, blind>>
      /\ monitor.status.status # "error" /\ sample \in Nat
  BY DEF Collect, observers, OrderlyRun, PollsSucceed, IInv, Types
<1>2. Availability!Observe(collector.source, "available", FALSE).status = "available"
  BY DEF OrderlyRun, CollectorFollows, Availability!Observe, Availability!Confirmed
<1>3. /\ collector'.source.status = "available" /\ points' = Emitted
      /\ collector'.baseline = IF collector.baseline = None THEN sample ELSE collector.baseline
      /\ collector'.seen = IF monitor.last = NoSample THEN collector.seen ELSE monitor.last.epoch
  BY <1>1, <1>2 DEF Collect
<1>4. PollsSucceed' /\ LogFollowsSamples'
  BY <1>1 DEF OrderlyRun, PollsSucceed, LogFollowsSamples
<1>5. CollectorFollows'
  <2>1. monitor.last.epoch \in Int
    BY DEF IInv, Types, Samples, Moment
  <2>2. QED
    BY <1>1, <1>3, <2>1 DEF OrderlyRun, CollectorFollows
<1>6. MetricsHoldTheLog'
  <2>1. points = {}
    BY <1>1 DEF IInv, MetricsAreLogged
  <2>2. ASSUME NEW s \in disk.log PROVE s.units \subseteq hot \cup durable \cup points'
    <3>1. CASE s.units \subseteq hot \cup durable
      BY <3>1
    <3>2. CASE Unsent(s) /\ s.units # {}
      <4>1. Emitted = s.units
        BY <3>2 DEF Emitted, Unsent, OrderlyRun, PollsSucceed
      <4>2. QED
        BY <1>3, <4>1
    <3>3. QED
      BY <2>1, <3>1, <3>2 DEF OrderlyRun, MetricsHoldTheLog
  <2>3. QED
    BY <1>1, <2>2 DEF MetricsHoldTheLog
<1>7. SessionHoldsItsLog'
  BY <1>1 DEF OrderlyRun, SessionHoldsItsLog, Unrecorded
<1>8. QED
  BY <1>4, <1>5, <1>6, <1>7 DEF OrderlyRun

\* Points move on within the metrics.
LEMMA MetricsOrderly == ASSUME IInv, OrderlyRun, Ingest \/ Checkpoint \/ Stop PROVE OrderlyRun'
<1>1. /\ pc \in {"ingest", "checkpoint", "idle"} /\ pc' \in {"idle", "checkpoint", "down"}
      /\ UNCHANGED <<sample, beginning, monitor, reading, meter, collector, blind>>
      /\ disk'.log = disk.log /\ disk'.counter = disk.counter
      /\ pc' = "down" => disk'.meter = meter' /\ hot' = {} /\ points' = {}
      /\ pc = "idle" => pc' = "down"
      /\ beginning = "no"
  <2>1. disk \in [counter : Counters, log : SUBSET Samples, meter : Meters]
    BY DEF IInv, Types
  <2>2. CASE Ingest
    BY <2>2 DEF Ingest, observers, IInv, BeginningIsKnown
  <2>3. CASE Checkpoint
    BY <2>1, <2>3 DEF Checkpoint, metrics, observers, IInv, BeginningIsKnown
  <2>4. CASE Stop
    BY <2>1, <2>4 DEF Stop, observers, IInv, BeginningIsKnown, MetricsAreLogged
  <2>5. QED
    BY <2>2, <2>3, <2>4
<1>2. hot' \cup durable' \cup points' = hot \cup durable \cup points
  <2>1. CASE Ingest
    BY <2>1 DEF Ingest
  <2>2. CASE Checkpoint
    BY <2>2 DEF Checkpoint, metrics
  <2>3. CASE Stop
    BY <2>3 DEF Stop, Flushed
  <2>4. QED
    BY <2>1, <2>2, <2>3
<1>3. PollsSucceed' /\ CollectorFollows'
  BY <1>1 DEF OrderlyRun, PollsSucceed, CollectorFollows
<1>4. LogFollowsSamples'
  BY <1>1 DEF OrderlyRun, LogFollowsSamples
<1>5. MetricsHoldTheLog'
  BY <1>1, <1>2 DEF OrderlyRun, MetricsHoldTheLog, Unsent
<1>6. SessionHoldsItsLog'
  BY <1>1 DEF OrderlyRun, SessionHoldsItsLog, Unrecorded
<1>7. QED
  BY <1>3, <1>4, <1>5, <1>6 DEF OrderlyRun

\* A stopped process left everything on disk.
LEMMA StartOrderly == ASSUME IInv, OrderlyRun, Start PROVE OrderlyRun'
<1> USE BoundsAssumption DEF None, Epoch
<1>1. /\ pc = "down" /\ pc' = "idle" /\ beginning' = "no" /\ reading' = NoSample
      /\ meter' = meter /\ collector' = FreshCollector /\ points' = {} /\ hot' = {}
      /\ UNCHANGED <<sample, durable, disk, blind>>
      /\ monitor' = LoadedMonitor /\ sample \in Nat
  BY DEF Start, observers, OrderlyRun, PollsSucceed, IInv, Types
<1>2. /\ monitor'.counter = disk.counter /\ monitor'.last = Latest(disk.log)
      /\ monitor'.status.status = IF disk.log = {} THEN "waiting" ELSE "ok"
  BY <1>1 DEF LoadedMonitor, Health!Confirmed
<1>3. disk.log = {} => monitor'.last.units = {}
  BY <1>2 DEF Latest, NoSample
<1>4. PollsSucceed'
  BY <1>1, <1>2, <1>3 DEF OrderlyRun, PollsSucceed
<1>5. CollectorFollows'
  <2>1. collector'.source.status = "available" /\ collector'.seen = -1 /\ collector'.baseline = -1
    BY <1>1 DEF FreshCollector, Availability!Confirmed
  <2>2. monitor'.last.epoch \in Moment
    <3>1. IInv'
      BY StartKeeps
    <3>2. QED
      BY <3>1 DEF IInv, Types, Samples
  <2>3. QED
    BY <1>1, <2>1, <2>2 DEF CollectorFollows, Moment
<1>6. LogFollowsSamples'
  BY <1>1 DEF OrderlyRun, LogFollowsSamples

<1>7. MetricsHoldTheLog'
  <2>1. \A s \in disk.log : s.units \subseteq durable
    BY <1>1 DEF OrderlyRun, PollsSucceed, MetricsHoldTheLog, Unsent
  <2>2. QED
    BY <1>1, <2>1 DEF MetricsHoldTheLog
<1>8. SessionHoldsItsLog'
  BY <1>1 DEF OrderlyRun, SessionHoldsItsLog, Unrecorded
<1>9. QED
  BY <1>4, <1>5, <1>6, <1>7, <1>8 DEF OrderlyRun

\* The invariant holds initially.
LEMMA InitOrderly == Init => OrderlyInv
<1> SUFFICES ASSUME Init PROVE OrderlyInv
  OBVIOUS
<1> USE DEF Init, None
<1>1. disk.log = {} /\ disk.counter = NoCounter /\ meter = NoMeter /\ meter.units = {} /\ meter.start = -1
  BY DEF NoMeter
<1>2. /\ monitor.status.status = "waiting" /\ monitor.last.units = {} /\ monitor.last.epoch = -1
      /\ monitor.counter = NoCounter
  BY <1>1 DEF LoadedMonitor, Latest, NoSample, Health!Confirmed
<1>3. collector.source.status = "available" /\ collector.seen = -1 /\ collector.baseline = -1
  BY DEF FreshCollector, Availability!Confirmed
<1>4. PollsSucceed /\ CollectorFollows
  BY <1>1, <1>2, <1>3 DEF PollsSucceed, CollectorFollows
<1>5. LogFollowsSamples /\ MetricsHoldTheLog /\ SessionHoldsItsLog
  BY <1>1 DEF LogFollowsSamples, MetricsHoldTheLog, SessionHoldsItsLog
<1>6. QED
  BY <1>4, <1>5 DEF OrderlyInv, OrderlyRun

\* Every step keeps it: one case per action.
LEMMA NextOrderly == IInv /\ OrderlyInv /\ [Next]_vars => OrderlyInv'
<1> SUFFICES ASSUME IInv, OrderlyInv, [Next]_vars PROVE OrderlyInv'
  OBVIOUS
<1>1. CASE UNCHANGED vars
  BY <1>1 DEF vars, OrderlyInv, Orderly, OrderlyRun, PollsSucceed, CollectorFollows, LogFollowsSamples,
              MetricsHoldTheLog, Unsent, SinceStart, SessionHoldsItsLog, Unrecorded
<1>2. CASE Next
  <2>1. crashes' \in Nat /\ faults' \in Nat /\ outage' \in BOOLEAN
    <3> USE <1>2 DEF OrderlyInv, Fault, observers, bounds
    <3>1. CASE Tick \/ Reboot \/ Begin \/ BeginReset \/ FailReset \/ SkipPoll \/ Read \/ Append
      BY <3>1 DEF Tick, Reboot, Begin, BeginReset, FailReset, SkipPoll, Read, Append
    <3>2. CASE FailRead \/ FailSave \/ FailAppend
      <4>1. outage' = (outage \/ monitor'.status.status = "error")
        BY <3>2 DEF FailRead, FailSave, FailAppend, FailPoll
      <4>2. UNCHANGED crashes /\ faults' \in {faults, faults + 1}
        BY <3>2 DEF FailRead, FailSave, FailAppend, FailPoll
      <4>3. QED
        BY <4>1, <4>2
    <3>3. CASE BeginAutomatic \/ SetBaseline \/ FailBaseline \/ Record
      BY <3>3 DEF BeginAutomatic, SetBaseline, FailBaseline, Record
    <3>4. CASE Collect \/ Ingest \/ Checkpoint \/ Raise \/ Stop \/ Crash \/ Start
      <4>1. UNCHANGED outage /\ crashes' \in {crashes, crashes + 1} /\ faults' \in {faults, faults + 1}
        BY <3>4 DEF Collect, Ingest, Checkpoint, Raise, Stop, Crash, Start
      <4>2. QED
        BY <4>1
    <3>5. QED
      BY <3>1, <3>2, <3>3, <3>4 DEF Next
  <2>2. ASSUME Orderly' PROVE OrderlyRun'
    <3>1. /\ Orderly
          /\ \/ Tick \/ Reboot \/ Begin \/ BeginReset \/ SkipPoll \/ Read \/ FailRead \/ Append
             \/ BeginAutomatic \/ SetBaseline \/ FailBaseline \/ Record
             \/ Collect \/ Ingest \/ Checkpoint \/ Stop \/ Start
      BY <1>2, <2>2, OrderlySteps
    <3>2. OrderlyRun
      BY <3>1 DEF OrderlyInv
    <3>3. ~outage' /\ ~Fault
      BY <2>2, <3>1 DEF Orderly, Fault
    <3>4. QED
      BY <3>1, <3>2, <3>3, ServerOrderly, BeginOrderly, NoPollOrderly, ReadOrderly, AppendOrderly,
         StartSessionOrderly, MeterOrderly, CollectOrderly, MetricsOrderly, StartOrderly
  <2>3. QED
    BY <2>1, <2>2 DEF OrderlyInv
<1>3. QED
  BY <1>1, <1>2

\* With missed polls that are not confirmed, reboots, resets and restarts, the metrics hold
\* every logged unit, and a session every interval since its first poll and none from before
\* its start.
THEOREM OrderlyServersAreExact == Spec => []OrderlyRunsAreExact
<1>1. ASSUME IInv, OrderlyInv PROVE OrderlyRunsAreExact
  <2>1. SUFFICES ASSUME Orderly, pc = "idle"
                 PROVE  /\ hot \cup durable = Traffic(disk.log)
                        /\ meter.units \subseteq Traffic(Within(meter.start))
                        /\ \A poll \in disk.log : poll.epoch > meter.start =>
                               Traffic(Within(poll.epoch)) \subseteq meter.units
    BY DEF OrderlyRunsAreExact, Orderly
  <2>2. OrderlyRun /\ points = {}
    BY <1>1, <2>1 DEF OrderlyInv, IInv, MetricsAreLogged
  <2>3. hot \cup durable = Traffic(disk.log)
    <3>1. \A s \in disk.log : s.units \subseteq hot \cup durable
      BY <2>1, <2>2 DEF OrderlyRun, MetricsHoldTheLog, Unsent
    <3>2. \A u \in hot \cup durable : \E s \in disk.log : u \in s.units
      BY <1>1 DEF IInv, MetricsAreLogged
    <3>3. QED
      BY <3>1, <3>2 DEF Traffic
  <2>4. meter.units \subseteq Traffic(Within(meter.start))
    <3>1. ASSUME NEW u \in meter.units PROVE u \in Traffic(Within(meter.start))
      <4>1. PICK s \in disk.log : s.start >= meter.start /\ u \in s.units
        BY <2>2 DEF OrderlyRun, SessionHoldsItsLog
      <4>2. meter.start # None
        BY <2>1, <2>2, <4>1 DEF OrderlyRun, LogFollowsSamples
      <4>3. QED
        BY <4>1, <4>2 DEF Traffic, Within
    <3>2. QED
      BY <3>1
  <2>5. ASSUME NEW poll \in disk.log, poll.epoch > meter.start
        PROVE  Traffic(Within(poll.epoch)) \subseteq meter.units
    <3>1. \A s \in Within(poll.epoch) : s.units \subseteq meter.units
      BY <2>1, <2>2, <2>5 DEF OrderlyRun, SessionHoldsItsLog, Unrecorded, Within
    <3>2. QED
      BY <3>1 DEF Traffic
  <2>6. QED
    BY <2>3, <2>4, <2>5
<1>2. QED
  BY <1>1, InitIInv, NextIInv, InitOrderly, NextOrderly, PTL DEF Spec
================================================================================
