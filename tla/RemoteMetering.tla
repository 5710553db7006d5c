---------------------------- MODULE RemoteMetering ----------------------------
(***************************************************************************)
(* The traffic of a remote server from its interface counter, read over    *)
(* SSH, to the raw log, the metrics and the observation session            *)
(* (resources/network/vps.py, metrics.py, session.py, core/collectors.py,  *)
(* handle_sample in app/agent.py), for one server.                         *)
(*                                                                         *)
(* Time is the server's traffic: at time t units 1..t have passed, and an  *)
(* interval is the set of its units, so that one counted twice, lost or    *)
(* put into the wrong session is visible.                                  *)
(***************************************************************************)
EXTENDS Integers, FiniteSetsExt

CONSTANTS MaxTime, MaxReboots, MaxCrashes, MaxMisses, MaxFaults, MaxResets \* bounds

ASSUME BoundsAssumption ==
    {MaxTime, MaxReboots, MaxCrashes, MaxMisses, MaxFaults, MaxResets} \subseteq Nat

None == -1
Epoch == 0..MaxTime

Health == INSTANCE StatusStabilizer
    WITH Rank <- [waiting |-> 0, baseline |-> 0, ok |-> 0, error |-> 1],
         WorsenAfter <- 2, RecoverAfter <- 2
Availability == INSTANCE StatusStabilizer
    WITH Rank <- [available |-> 0, error |-> 1], WorsenAfter <- 3, RecoverAfter <- 2

VARIABLES
    clock,     \* units of traffic so far
    boot,      \* time at which the server's counter started from zero
    iface,     \* the interface that carries its traffic
    pc,        \* where handle_sample is
    sample,    \* epoch of the local sample being handled
    beginning, \* "manual" or "automatic" while a session is being started, else "no"
    monitor,   \* VpsMonitor: counter, confirmed status, last sample, whether it has polled
    reading,   \* the sample between the save of the counter and the log
    meter,     \* SessionMeter, the remote part
    collector, \* _LatestRemoteSampleCollector and its availability
    points,    \* units on their way into the pipeline
    hot,       \* units in the open metric window
    durable,   \* units in the metric store
    disk,      \* vps_counter_baseline.json, vps_samples.jsonl, session.json
    \* Observers and bounds.
    blind,     \* a session began without a baseline although the server was known
    outage,    \* the server was once confirmed to be failing
    reboots, crashes, misses, faults, resets

server == <<clock, boot, iface>>
metrics == <<collector, points, hot, durable>>
observers == <<blind, outage>>
bounds == <<reboots, crashes, misses, faults, resets>>
vars == <<clock, boot, iface, pc, sample, beginning, monitor, reading, meter, collector,
          points, hot, durable, disk, blind, outage, reboots, crashes, misses, faults, resets>>

NoSample == [start |-> None, epoch |-> None, units |-> {}, initial |-> FALSE]
NoCounter == [epoch |-> None, value |-> 0, iface |-> None]
NoMeter == [start |-> None, last |-> None, baselined |-> None, units |-> {}]

Latest(log) == IF log = {} THEN NoSample
               ELSE CHOOSE s \in log : \A other \in log : other.epoch <= s.epoch

\* VpsMonitor.__init__: the counter and the last sample come from disk.
LoadedMonitor ==
    [counter |-> disk.counter,
     status |-> Health!Confirmed(IF disk.log = {} THEN "waiting" ELSE "ok"),
     last |-> Latest(disk.log),
     polled |-> FALSE]

FreshCollector ==
    [seen |-> None, baseline |-> None, source |-> Availability!Confirmed("available")]

Init ==
    /\ clock = 0 /\ boot = 0 /\ iface = 0
    /\ pc = "idle"
    /\ sample = 0
    /\ beginning = "no"
    /\ disk = [counter |-> NoCounter, log |-> {}, meter |-> NoMeter]
    /\ monitor = LoadedMonitor
    /\ reading = NoSample
    /\ meter = NoMeter
    /\ collector = FreshCollector
    /\ points = {} /\ hot = {} /\ durable = {}
    /\ blind = FALSE /\ outage = FALSE
    /\ reboots = 0 /\ crashes = 0 /\ misses = 0 /\ faults = 0 /\ resets = 0

Fault == faults < MaxFaults /\ faults' = faults + 1

--------------------------------------------------------------------------------
(* The server. *)

Tick ==
    /\ clock < MaxTime
    /\ clock' = clock + 1
    /\ UNCHANGED <<boot, iface, pc, sample, beginning, monitor, reading, meter, metrics,
                   disk, observers, bounds>>

\* The counter starts from zero, perhaps on an interface with another name.
Reboot ==
    /\ reboots < MaxReboots
    /\ reboots' = reboots + 1
    /\ boot' = clock
    /\ iface' \in {iface, reboots'}
    /\ UNCHANGED <<clock, pc, sample, beginning, monitor, reading, meter, metrics, disk,
                   observers, crashes, misses, faults, resets>>

--------------------------------------------------------------------------------
(* One sample: the commands, then RemoteFleetMonitor.maybe_poll. *)

Idle == pc = "idle" /\ clock < MaxTime \* a sample leaves time for its poll

Begin ==
    /\ Idle
    /\ pc' = "poll"
    /\ sample' = clock
    /\ beginning' = "no"
    /\ UNCHANGED <<server, monitor, reading, meter, metrics, disk, observers, bounds>>

\* session.reset: SessionMeter.reset comes first and is saved; the poll that
\* follows is forced.
BeginReset ==
    /\ Idle
    /\ resets < MaxResets
    /\ resets' = resets + 1
    /\ pc' = "poll"
    /\ sample' = clock
    /\ beginning' = "manual"
    /\ meter' = [NoMeter EXCEPT !.start = clock]
    /\ disk' = [disk EXCEPT !.meter = meter']
    /\ UNCHANGED <<server, monitor, reading, metrics, observers, reboots, crashes,
                   misses, faults>>

\* The reset cannot be saved: the command is answered with an error, and the
\* sample goes on in the session it began in memory.
FailReset ==
    /\ Idle
    /\ Fault
    /\ pc' = "poll"
    /\ sample' = clock
    /\ meter' = [NoMeter EXCEPT !.start = clock]
    /\ blind' = (blind \/ monitor.counter # NoCounter)
    /\ UNCHANGED <<server, beginning, monitor, reading, metrics, disk, outage, reboots,
                   crashes, misses, resets>>

\* The poll is not due.  The first one of a process always is.
SkipPoll ==
    /\ pc = "poll" /\ beginning = "no" /\ monitor.polled
    /\ pc' = "session"
    /\ UNCHANGED <<server, sample, beginning, monitor, reading, meter, metrics, disk,
                   observers, bounds>>

\* VpsCounterTracker.apply: the interval since the previous reading of the same
\* interface, without traffic if the counter went back.
Delta(prior, value) == IF value >= prior THEN value - prior ELSE 0

Interval ==
    LET prior == monitor.counter
        same == prior.epoch # None /\ prior.iface = iface
        gain == IF same THEN Delta(prior.value, clock - boot) ELSE 0
    IN  [start |-> IF same THEN prior.epoch ELSE None,
         epoch |-> clock,
         units |-> (clock - gain + 1)..clock,
         initial |-> prior = NoCounter]

Counter == [epoch |-> clock, value |-> clock - boot, iface |-> iface]

\* The error path of maybe_poll keeps the last sample.
FailPoll(m) ==
    /\ monitor' = [m EXCEPT !.polled = TRUE, !.status = Health!Observe(@, "error", FALSE)]
    /\ outage' = (outage \/ monitor'.status.status = "error")
    /\ pc' = "session"
    /\ reading' = NoSample

\* SSH answers, and the counter is saved before anything is counted.  The
\* reading is later than the local sample.
Read ==
    /\ pc = "poll"
    /\ clock > sample
    /\ pc' = "append"
    /\ reading' = Interval
    /\ monitor' = [monitor EXCEPT !.counter = Counter]
    /\ disk' = [disk EXCEPT !.counter = Counter]
    /\ UNCHANGED <<server, sample, beginning, meter, metrics, observers, bounds>>

\* SSH fails or times out.
FailRead ==
    /\ pc = "poll"
    /\ misses < MaxMisses
    /\ misses' = misses + 1
    /\ FailPoll(monitor)
    /\ UNCHANGED <<server, sample, beginning, meter, metrics, disk, blind, reboots, crashes,
                   faults, resets>>

\* The counter cannot be saved.
FailSave ==
    /\ pc = "poll"
    /\ clock > sample
    /\ Fault
    /\ FailPoll([monitor EXCEPT !.counter = Counter])
    /\ UNCHANGED <<server, sample, beginning, meter, metrics, disk, blind, reboots, crashes,
                   misses, resets>>

\* The sample reaches the log and becomes the last one.
Append ==
    /\ pc = "append"
    /\ pc' = "session"
    /\ disk' = [disk EXCEPT !.log = @ \cup {reading}]
    /\ monitor' = [monitor EXCEPT
           !.polled = TRUE,
           !.last = reading,
           !.status = Health!Observe(@, IF reading.initial THEN "baseline" ELSE "ok",
                                     @.status \in {"waiting", "baseline"})]
    /\ reading' = NoSample
    /\ UNCHANGED <<server, sample, beginning, meter, metrics, observers, bounds>>

FailAppend ==
    /\ pc = "append"
    /\ Fault
    /\ FailPoll(monitor)
    /\ UNCHANGED <<server, sample, beginning, meter, metrics, disk, blind, reboots, crashes,
                   misses, resets>>

--------------------------------------------------------------------------------
(* The observation session. *)

\* Without a session the first sample starts one, after its poll.
BeginAutomatic ==
    /\ pc = "session" /\ beginning = "no" /\ meter.start = None
    /\ beginning' = "automatic"
    /\ meter' = [NoMeter EXCEPT !.start = sample]
    /\ disk' = [disk EXCEPT !.meter = meter']
    /\ UNCHANGED <<server, pc, sample, monitor, reading, metrics, observers, bounds>>

\* set_vps_baseline: traffic counts from the last sample on.  A server that is
\* failing gets no baseline; a missing sample makes it raise.
SeenOnly == \* mutant: the sample is noted, the baseline is not
    IF monitor.status.status = "error" THEN meter ELSE [meter EXCEPT !.last = monitor.last.epoch]
Baselined ==
    IF monitor.status.status = "error" THEN meter
    ELSE [meter EXCEPT !.last = monitor.last.epoch, !.baselined = monitor.last.epoch]

SetBaseline ==
    /\ pc = "session" /\ beginning # "no"
    /\ monitor.status.status = "error" \/ monitor.last # NoSample
    /\ pc' = "collect"
    /\ beginning' = "no"
    /\ meter' = Baselined
    /\ disk' = [disk EXCEPT !.meter = meter']
    /\ blind' = (blind \/ monitor.status.status = "error")
    /\ UNCHANGED <<server, sample, monitor, reading, metrics, outage, bounds>>

\* The start of a session raises.  A command is answered with an error and the
\* sample recorded after all; an automatic start fails the sample.
FailBaseline ==
    /\ pc = "session" /\ beginning # "no"
    /\ IF monitor.status.status # "error" /\ monitor.last = NoSample
         THEN UNCHANGED faults
         ELSE Fault
    /\ pc' = IF beginning = "manual" THEN "session" ELSE "idle"
    /\ beginning' = "no"
    /\ blind' = (blind \/ monitor.counter # NoCounter)
    /\ UNCHANGED <<server, sample, monitor, reading, meter, metrics, disk, outage, reboots,
                   crashes, misses, resets>>

\* SessionMeter.record: every new sample once, if it began within the session or
\* the session has no baseline.
AnySample(m, s) == s.start # None \* mutant: the retained sample counts again
NewSample(m, s) == s.start # None /\ s.epoch # m.last

LateStart(m, s) == TRUE \* mutant: the interval that a reset falls into is counted
Belongs(m, s) == m.baselined = None \/ s.start >= m.start

Record ==
    /\ pc = "session" /\ beginning = "no" /\ meter.start # None
    /\ pc' = "collect"
    /\ LET last == monitor.last
       IN  meter' = IF NewSample(meter, last)
                    THEN [meter EXCEPT !.last = last.epoch, !.baselined = last.epoch,
                              !.units = @ \cup IF Belongs(meter, last) THEN last.units ELSE {}]
                    ELSE meter
    /\ UNCHANGED <<server, sample, beginning, monitor, reading, metrics, disk, observers,
                   bounds>>

--------------------------------------------------------------------------------
(* The metrics. *)

\* _LatestRemoteSampleCollector.collect: each sample once, none from before the
\* process, none while the server is failing.
FromStart(epoch) == TRUE \* mutant: the sample retained over a restart is emitted
SinceStart(epoch) ==
    epoch > IF collector.baseline = None THEN sample ELSE collector.baseline

Emitted ==
    IF /\ monitor.status.status = "ok"
       /\ monitor.last.epoch # collector.seen
       /\ SinceStart(monitor.last.epoch)
    THEN monitor.last.units
    ELSE {}

\* CollectorRegistry.collect withholds the points of a source whose failure is
\* confirmed until its recovery is.
Collect ==
    /\ pc = "collect"
    /\ pc' = "ingest"
    /\ LET status == IF monitor.status.status = "error" THEN "error" ELSE "available"
           source == Availability!Observe(collector.source, status, FALSE)
       IN  /\ collector' = [
                  seen |-> IF monitor.last = NoSample THEN collector.seen ELSE monitor.last.epoch,
                  baseline |-> IF collector.baseline = None THEN sample ELSE collector.baseline,
                  source |-> source]
           /\ points' = IF source.status = "available" THEN Emitted ELSE {}
    /\ UNCHANGED <<server, sample, beginning, monitor, reading, meter, hot, durable, disk,
                   observers, bounds>>

\* MetricPipeline.ingest: join the open window, or commit it and open the next.
Ingest ==
    /\ pc = "ingest"
    /\ \/ /\ hot' = hot \cup points
          /\ pc' = "idle"
          /\ UNCHANGED durable
       \/ /\ durable' = durable \cup hot
          /\ hot' = points
          /\ pc' = "checkpoint"
    /\ points' = {}
    /\ UNCHANGED <<server, sample, beginning, monitor, reading, meter, collector, disk,
                   observers, bounds>>

Checkpoint ==
    /\ pc = "checkpoint"
    /\ pc' = "idle"
    /\ disk' = [disk EXCEPT !.meter = meter]
    /\ UNCHANGED <<server, sample, beginning, monitor, reading, meter, metrics, observers,
                   bounds>>

\* The sample raises; a failed commit has already taken its points.
Raise ==
    /\ pc \in {"collect", "ingest", "checkpoint"}
    /\ Fault
    /\ pc' = "idle"
    /\ \E keep \in {{}, points} : hot' = hot \cup keep
    /\ points' = {}
    /\ UNCHANGED <<server, sample, beginning, monitor, reading, meter, collector, durable,
                   disk, observers, reboots, crashes, misses, resets>>

--------------------------------------------------------------------------------
(* The process. *)

DropHot == {} \* mutant: the open window is not flushed
Flushed == hot

\* flush_all, then the session's checkpoint.
Stop ==
    /\ pc = "idle"
    /\ pc' = "down"
    /\ durable' = durable \cup Flushed
    /\ hot' = {}
    /\ disk' = [disk EXCEPT !.meter = meter]
    /\ UNCHANGED <<server, sample, beginning, monitor, reading, meter, collector, points,
                   observers, bounds>>

Crash ==
    /\ pc # "down"
    /\ crashes < MaxCrashes
    /\ crashes' = crashes + 1
    /\ pc' = "down"
    /\ blind' = (blind \/ beginning # "no")
    /\ UNCHANGED <<server, sample, beginning, monitor, reading, meter, metrics, disk, outage,
                   reboots, misses, faults, resets>>

Start ==
    /\ pc = "down"
    /\ pc' = "idle"
    /\ beginning' = "no"
    /\ monitor' = LoadedMonitor
    /\ reading' = NoSample
    /\ meter' = disk.meter
    /\ collector' = FreshCollector
    /\ points' = {} /\ hot' = {}
    /\ UNCHANGED <<server, sample, durable, disk, observers, bounds>>

Next ==
    \/ Tick \/ Reboot
    \/ Begin \/ BeginReset \/ FailReset \/ SkipPoll
    \/ Read \/ FailRead \/ FailSave \/ Append \/ FailAppend
    \/ BeginAutomatic \/ SetBaseline \/ FailBaseline \/ Record
    \/ Collect \/ Ingest \/ Checkpoint \/ Raise
    \/ Stop \/ Crash \/ Start

Spec == Init /\ [][Next]_vars

--------------------------------------------------------------------------------
(* Properties. *)

Unit == 1..clock

\* Types of the variables; units counted anywhere have passed, and the session's
\* baseline is the last sample it looked at.
TypeOK ==
    /\ clock \in Epoch /\ boot \in 0..clock /\ iface \in 0..MaxReboots
    /\ pc \in {"idle", "poll", "append", "session", "collect", "ingest", "checkpoint", "down"}
    /\ sample \in 0..clock
    /\ beginning \in {"no", "manual", "automatic"}
    /\ monitor.status \in Health!Stabilizer
    /\ \A s \in disk.log \cup {monitor.last, reading} :
           s = NoSample \/ (s.epoch \in Epoch /\ s.start < s.epoch)
    /\ \A m \in {meter, disk.meter} :
           /\ m.start \in Epoch \cup {None} /\ m.units \subseteq Unit
           /\ m.last \in Epoch \cup {None} /\ m.baselined = m.last
    /\ collector.source \in Availability!Stabilizer
    /\ points \subseteq Unit /\ hot \subseteq Unit /\ durable \subseteq Unit

\* "A crash may lose an interval, never replay one": no unit is in two samples
\* of the log, nor on its way into the metrics a second time, whatever crashes.
NothingReplayed ==
    /\ \A s, t \in disk.log : s # t => s.units \cap t.units = {}
    /\ points \cap (hot \cup durable) = {}
    /\ hot \cap durable = {}

\* A sample the session has yet to record holds nothing the session counts.
SessionCountsOnce ==
    (pc # "down" /\ NewSample(meter, monitor.last)) => meter.units \cap monitor.last.units = {}

\* The session counts no traffic from before it began.
SessionKeepsItsStart == \A unit \in meter.units : unit > meter.start

\* It does so as long as each session got its baseline when it began.
BaselinedSessionsKeepTheirStart == ~blind => SessionKeepsItsStart

Traffic(samples) == UNION {s.units : s \in samples}
Within(epoch) == {s \in disk.log : epoch # None /\ s.start >= epoch}

\* Restarts, reboots and failed polls that are not confirmed lose nothing the
\* counter still shows: the metrics hold every unit of the log, and the session
\* those of every interval since its first poll.
OrderlyRunsAreExact ==
    (crashes = 0 /\ faults = 0 /\ ~outage /\ pc = "idle") =>
        /\ hot \cup durable = Traffic(disk.log)
        /\ meter.units \subseteq Traffic(Within(meter.start))
        /\ \A poll \in disk.log :
               poll.epoch > meter.start => Traffic(Within(poll.epoch)) \subseteq meter.units

================================================================================
