---------------------------- MODULE SystemResources ----------------------------
(***************************************************************************)
(* The system resource collector (resources/system/collector.py,           *)
(* process_io.py): counters of the host and of its processes become        *)
(* intervals, a window of intervals becomes points, and a confirmed change *)
(* of the health becomes a transition that the sampling loop writes as an  *)
(* event.  One counter of the host stands for the disk and swap counters,  *)
(* which are treated alike, and one of a process for its two; gauges,      *)
(* rates and shares, which are computed from one reading, are left out.    *)
(***************************************************************************)
EXTENDS Integers, Sequences, FiniteSets, Functions, FiniteSetsExt

CONSTANTS
    Processes, AppOf,       \* the app of a process; apps are numbers in the order of their labels
    FirstProcesses,         \* one of each app
    OtherApp,               \* OTHER_APP_ID
    SampleApps, DisplayApps,          \* MAX_SAMPLE_APPS, MAX_DISPLAY_APPS
    HealthReadings,         \* what a reading may say of each signal
    ClockSteps,             \* seconds between two readings; 0 when the clock went back
    PersistInterval, MaxGap,
    MaxIo, MaxReadings, MaxTransitionFaults

ASSUME SystemAssumption ==
    /\ PersistInterval \in Nat \ {0} /\ MaxGap \in Nat /\ MaxGap >= PersistInterval
    /\ ClockSteps \subseteq Nat
    /\ IsFiniteSet(Processes) /\ DOMAIN AppOf = Processes /\ FirstProcesses \subseteq Processes
    /\ \A a \in Range(AppOf) : \E p \in FirstProcesses : AppOf[p] = a
    /\ \A p, q \in FirstProcesses : AppOf[p] = AppOf[q] => p = q
    /\ OtherApp \notin Range(AppOf) \* the other ids begin with app: or process:
    /\ {SampleApps, DisplayApps, MaxIo, MaxReadings, MaxTransitionFaults} \subseteq Nat
    /\ \A reading \in HealthReadings : Range(reading) \subseteq {"ok", "warning", "critical"}

VARIABLES
    hostCounter, io,        \* of the operating system; io of the processes that run
    previous,               \* _previous: the counter of the last reading
    seen,                   \* ProcessIoAttributor._previous
    window,                 \* seconds since _window_started
    intervals,              \* [host, apps]
    health, reasons,        \* _health_stability, _confirmed_reasons
    lastStatus, systemEvents,         \* _last_status, _transitions
    toldStatus,             \* level of the last event
    hostMoved, ioMoved,     \* observer: growth of the counters since their first reading
    stored, storedApps,     \* observer: sums of the points
    irregular,              \* observer: an interval of the host was no measure, likewise of a process
    unwritten,              \* observer: a transition was lost
    readings, transitionFaults

ioVars == <<hostCounter, io, hostMoved, ioMoved>>
systemVars == <<ioVars, previous, seen, window, intervals, health, reasons, lastStatus, systemEvents,
                toldStatus, stored, storedApps, irregular, unwritten, readings, transitionFaults>>

SystemRank == [healthy |-> 0, warning |-> 1, critical |-> 2]
Health == INSTANCE StatusStabilizer WITH Rank <- SystemRank, WorsenAfter <- 3, RecoverAfter <- 2

NoReading == -1
NotReady == <<>>        \* no rows: no attribution, or nothing to attribute

SumOf(values) == SumFunctionOnSet(values, DOMAIN values)
Common == DOMAIN io \cap DOMAIN seen

----------------------------------------------------------------------------
\* _health: its level is the worst of its reasons.
Reasons(reading) == {<<signal, reading[signal]>> : signal \in {s \in DOMAIN reading : reading[s] # "ok"}}

LevelOf(found) ==
    IF \E r \in found : r[2] = "critical" THEN "critical"
    ELSE IF found # {} THEN "warning" ELSE "healthy"

\* A full or failing disk is believed at once.
Direct(found) ==
    \/ \E r \in found : r[1] \in {"space", "disk", "smart"} /\ r[2] = "critical"
    \/ LevelOf(found) = "warning" /\ <<"space", "warning">> \in found

StableHealth(found) ==
    Health!Observe(health, LevelOf(found),
                   SystemRank[LevelOf(found)] > SystemRank[health.status] /\ Direct(found))

\* _transition
EventOf(status) ==
    CASE lastStatus = status -> <<>>
      [] lastStatus = "unknown" /\ status = "healthy" -> <<>>
      [] OTHER -> <<status>>

----------------------------------------------------------------------------
Busy(bytes) == {a \in DOMAIN bytes : bytes[a] > 0}

First(bytes, limit) ==
    LET busier(a, b) == bytes[a] > bytes[b] \/ (bytes[a] = bytes[b] /\ a < b)
    IN  {a \in Busy(bytes) : Cardinality({b \in Busy(bytes) : busier(b, a)}) < limit}

\* mutant: without the row of the others
Busiest(bytes, limit) == [a \in First(bytes, limit) |-> bytes[a]]

\* _bounded_apps: the busiest, and one row for the others.
Bounded(bytes, limit) ==
    LET first == First(bytes, limit)
        others == SumFunctionOnSet(bytes, Busy(bytes) \ first)
    IN  [a \in first \cup (IF first = Busy(bytes) THEN {} ELSE {OtherApp}) |->
            (IF a \in first THEN bytes[a] ELSE 0) + (IF a = OtherApp THEN others ELSE 0)]

BytesOf(rows, app) == IF app \in DOMAIN rows THEN rows[app] ELSE 0

\* ProcessIoAttributor.sample with an interval before it: the growth of the processes known
\* since the last one, by app.
Attributed ==
    LET growth(p) == IF io[p] > seen[p] THEN io[p] - seen[p] ELSE 0
        ofApp(a) == {p \in Common : AppOf[p] = a}
    IN  Bounded([a \in {AppOf[p] : p \in Common} |-> SumOf([p \in ofApp(a) |-> growth(p)])], SampleApps)

\* aggregate_process_io
Aggregate(open) ==
    Bounded([a \in UNION {DOMAIN open[i].apps : i \in DOMAIN open} |->
                SumOf([i \in DOMAIN open |-> BytesOf(open[i].apps, a)])], DisplayApps)

----------------------------------------------------------------------------
\* The host and its processes; a counter of the host falls when a disk goes away.
HostIo ==
    /\ hostMoved < MaxIo
    /\ hostCounter' = hostCounter + 1 /\ hostMoved' = hostMoved + 1
    /\ UNCHANGED <<io, ioMoved, previous, seen, window, intervals, health, reasons, lastStatus, systemEvents,
                   toldStatus, stored, storedApps, irregular, unwritten, readings, transitionFaults>>

DiskLeaves ==
    /\ hostCounter > 0 /\ hostCounter' = 0
    /\ irregular' = [irregular EXCEPT !.host = TRUE]
    /\ UNCHANGED <<io, hostMoved, ioMoved, previous, seen, window, intervals, health, reasons, lastStatus,
                   systemEvents, toldStatus, stored, storedApps, unwritten, readings, transitionFaults>>

ProcessIo(p) ==
    /\ p \in DOMAIN io /\ ioMoved[AppOf[p]] < MaxIo
    /\ io' = [io EXCEPT ![p] = @ + 1]
    /\ ioMoved' = [ioMoved EXCEPT ![AppOf[p]] = @ + 1]
    /\ UNCHANGED <<hostCounter, hostMoved, previous, seen, window, intervals, health, reasons, lastStatus,
                   systemEvents, toldStatus, stored, storedApps, irregular, unwritten, readings, transitionFaults>>

\* A process ends and another of its app starts, under a new identity and with a new counter.
Respawn(p, q) ==
    /\ p \in DOMAIN io /\ q \notin DOMAIN io \cup DOMAIN seen /\ AppOf[p] = AppOf[q]
    /\ io' = [r \in (DOMAIN io \ {p}) \cup {q} |-> IF r = q THEN 0 ELSE io[r]]
    /\ irregular' = [irregular EXCEPT !.apps = TRUE]
    /\ UNCHANGED <<hostCounter, hostMoved, ioMoved, previous, seen, window, intervals, health, reasons,
                   lastStatus, systemEvents, toldStatus, stored, storedApps, unwritten, readings, transitionFaults>>

----------------------------------------------------------------------------
Gap(seconds) == previous # NoReading /\ seconds > MaxGap
Measures(seconds) == previous # NoReading /\ seconds \in 1 .. MaxGap

\* The attributor is not asked when the clock stands; when it fails it forgets.
SampleProcesses(seconds, fails) ==
    IF previous # NoReading /\ seconds <= 0 THEN UNCHANGED seen
    ELSE seen' = IF fails THEN <<>> ELSE io

Interval(fails) ==
    [host |-> IF hostCounter >= previous THEN hostCounter - previous ELSE 0,
     apps |-> IF fails \/ seen = <<>> THEN NotReady ELSE Attributed]

\* mutant: a gap does not start the window anew
PersistAcrossGaps(seconds, open) ==
    IF window # NoReading /\ window + seconds >= PersistInterval /\ open # <<>>
    THEN /\ window' = 0 /\ intervals' = <<>>
         /\ stored' = stored + SumOf([i \in DOMAIN open |-> open[i].host])
         /\ storedApps' = [a \in DOMAIN storedApps |-> storedApps[a] + BytesOf(Aggregate(open), a)]
    ELSE /\ window' = (IF window = NoReading THEN 0 ELSE window + seconds) /\ intervals' = open
         /\ UNCHANGED <<stored, storedApps>>

\* _points
Persist(seconds, open) ==
    IF window = NoReading \/ Gap(seconds)
    THEN /\ window' = 0 /\ intervals' = open
         /\ UNCHANGED <<stored, storedApps>>
    ELSE IF window + seconds < PersistInterval \/ open = <<>>
    THEN /\ window' = window + seconds /\ intervals' = open
         /\ UNCHANGED <<stored, storedApps>>
    ELSE /\ window' = 0 /\ intervals' = <<>>
         /\ stored' = stored + SumOf([i \in DOMAIN open |-> open[i].host])
         /\ storedApps' = [a \in DOMAIN storedApps |-> storedApps[a] + BytesOf(Aggregate(open), a)]

\* SystemResourceCollector.collect
Collect(seconds, reading, fails) ==
    /\ readings < MaxReadings /\ readings' = readings + 1
    /\ SampleProcesses(seconds, fails)
    /\ Persist(seconds, IF Gap(seconds) THEN <<>>
                        ELSE IF Measures(seconds) THEN Append(intervals, Interval(fails)) ELSE intervals)
    /\ health' = StableHealth(Reasons(reading))
    /\ reasons' = IF health'.status = LevelOf(Reasons(reading)) THEN Reasons(reading) ELSE reasons
    /\ lastStatus' = health'.status
    /\ systemEvents' = systemEvents \o EventOf(health'.status)
    /\ previous' = hostCounter
    /\ hostMoved' = IF previous = NoReading THEN 0 ELSE hostMoved
    /\ ioMoved' = IF previous = NoReading THEN [a \in DOMAIN ioMoved |-> 0] ELSE ioMoved
    /\ irregular' = [host |-> irregular.host \/ (previous # NoReading /\ ~Measures(seconds)),
                     apps |-> irregular.apps \/ Gap(seconds) \/ fails]
    /\ UNCHANGED <<hostCounter, io, toldStatus, unwritten, transitionFaults>>

\* drain_transitions and the events of the sampling loop; a write may fail, and takes with it
\* the transitions that are left.
WriteTransitions(written) ==
    /\ systemEvents # <<>> /\ systemEvents' = <<>>
    /\ written = Len(systemEvents) \/ transitionFaults < MaxTransitionFaults
    /\ transitionFaults' = transitionFaults + (IF written < Len(systemEvents) THEN 1 ELSE 0)
    /\ unwritten' = (unwritten \/ written < Len(systemEvents))
    /\ toldStatus' = IF written = 0 THEN toldStatus ELSE systemEvents[written]
    /\ UNCHANGED <<ioVars, previous, seen, window, intervals, health, reasons, lastStatus, stored, storedApps,
                   irregular, readings>>

----------------------------------------------------------------------------
SystemInit ==
    LET apps == Range(AppOf) \cup {OtherApp}
    IN  /\ hostCounter = 0 /\ hostMoved = 0
        /\ io = [p \in FirstProcesses |-> 0]
        /\ ioMoved = [a \in apps |-> 0]
        /\ previous = NoReading /\ seen = <<>> /\ window = NoReading /\ intervals = <<>>
        /\ health = Health!Confirmed("healthy") /\ reasons = {}
        /\ lastStatus = "unknown" /\ systemEvents = <<>> /\ toldStatus = "healthy"
        /\ stored = 0 /\ storedApps = [a \in apps |-> 0]
        /\ irregular = [host |-> FALSE, apps |-> FALSE] /\ unwritten = FALSE
        /\ readings = 0 /\ transitionFaults = 0

SystemNext ==
    \/ HostIo \/ DiskLeaves
    \/ \E p \in Processes : ProcessIo(p) \/ \E q \in Processes : Respawn(p, q)
    \/ \E seconds \in ClockSteps, reading \in HealthReadings, fails \in BOOLEAN :
           Collect(seconds, reading, fails)
    \/ \E written \in 0 .. Len(systemEvents) : WriteTransitions(written)

SystemSpec == SystemInit /\ [][SystemNext]_systemVars

----------------------------------------------------------------------------
\* The types.
SystemTypeOK ==
    /\ hostCounter \in 0 .. 2 * MaxIo /\ hostMoved \in 0 .. MaxIo
    /\ Cardinality(DOMAIN io) = Cardinality(Range(AppOf))
    /\ DOMAIN io \subseteq Processes /\ DOMAIN seen \subseteq Processes
    /\ window \in NoReading .. PersistInterval
    /\ health \in Health!Stabilizer
    /\ stored \in Nat /\ storedApps \in [DOMAIN ioMoved -> Nat]
    /\ lastStatus \in Health!Status \cup {"unknown"} /\ toldStatus \in Health!Status

OpenBytes == SumOf([i \in DOMAIN intervals |-> intervals[i].host])
OpenApps(app) == SumOf([i \in DOMAIN intervals |-> BytesOf(intervals[i].apps, app)])

StoredInAll == SumOf([a \in DOMAIN storedApps |-> storedApps[a] + OpenApps(a)])
MovedInAll == SumOf(ioMoved)

\* The growth since the last reading is in no interval yet.
Unsampled == IF previous = NoReading THEN hostMoved ELSE hostCounter - previous
UnsampledApps == SumOf([p \in DOMAIN io |-> IF p \in DOMAIN seen THEN io[p] - seen[p] ELSE io[p]])

\* Points and open intervals hold no byte twice, of the host and of each app, and every byte
\* up to the last reading if no interval of it was irregular; the reasons shown give the
\* status shown; and the events, once written, tell that status. This is of one process:
\* the next one knows neither its window nor what was told (collector.py:209, 273).
SystemTellsTheHost ==
    /\ stored + OpenBytes <= hostMoved
    /\ ~irregular.host /\ previous # NoReading => stored + OpenBytes + Unsampled = hostMoved
    /\ \A a \in Range(AppOf) : storedApps[a] + OpenApps(a) <= ioMoved[a]
    /\ StoredInAll <= MovedInAll
    /\ ~irregular.apps /\ previous # NoReading => StoredInAll + UnsampledApps = MovedInAll
    /\ LevelOf(reasons) = health.status
    /\ ~unwritten /\ systemEvents = <<>> => toldStatus = health.status
=================================================================================
