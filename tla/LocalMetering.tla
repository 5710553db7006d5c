----------------------------- MODULE LocalMetering -----------------------------
(***************************************************************************)
(* Local traffic from the Mihomo core's cumulative counter to the durable  *)
(* metrics and the observation session (resources/network/mihomo.py,       *)
(* session.py, core/collectors.py, handle_sample and main in app/agent.py).*)
(*                                                                         *)
(* The counter is polled into a baseline that lives in memory and is saved *)
(* only after a metric flush: commit the buckets, then the session, then   *)
(* the baseline.  A crash may fall anywhere.  Traffic is a sequence of     *)
(* numbered units, so that a unit counted twice or never is visible; the   *)
(* two directions of the counter behave alike and are one here.            *)
(***************************************************************************)
EXTENDS Integers

CONSTANTS MaxTraffic, MaxReloads, MaxCrashes, MaxFaults \* bounds

ASSUME ConstantsAssumption ==
    {MaxTraffic, MaxReloads, MaxCrashes, MaxFaults} \subseteq Nat

Unit == 1..MaxTraffic
NoBaseline == -1

\* Availability of a collector, as CollectorRegistry.register sets it up.
Window == INSTANCE StatusStabilizer
    WITH Rank <- [available |-> 0, error |-> 1], WorsenAfter <- 3, RecoverAfter <- 2

VARIABLES
    passed,   \* units of traffic so far
    base,     \* units that had passed when the running core started from zero
    pc,       \* where the sampling loop is
    stopping, \* it is in the finally block of main
    tracker,  \* the counter at the last poll, or NoBaseline
    interval, \* units of the sample being taken
    source,   \* the confirmed availability of the local collector
    hot,      \* units in the metric window that is still in memory
    durable,  \* units in the metric store
    started,  \* the observation session has begun
    session,  \* units it counts
    baselineFile, \* mihomo-baseline.json
    sessionFile,  \* session.json
    \* Observers and bounds.
    polled,   \* units that had passed at the poll that set the tracker
    first,    \* units that had passed at the very first poll
    before,   \* units polled before the session was last reset
    silent,   \* samples in a row without a local part, three standing for more
    outage,   \* the core was once silent for three samples
    torn,     \* a process or a sample ended between a commit and its last save
    reloads, crashes, faults

counterVars == <<passed, base>>
metricVars == <<source, hot, durable>>
sessionVars == <<started, session>>
files == <<baselineFile, sessionFile>>
bounds == <<reloads, crashes, faults>>
vars == <<passed, base, pc, stopping, tracker, interval, source, hot, durable, started,
          session, baselineFile, sessionFile, polled, first, before, silent, outage, torn,
          reloads, crashes, faults>>

Init ==
    /\ passed = 0
    /\ base = 0
    /\ pc = "idle"
    /\ stopping = FALSE
    /\ tracker = NoBaseline
    /\ interval = {}
    /\ source = Window!Confirmed("available")
    /\ hot = {}
    /\ durable = {}
    /\ started = FALSE
    /\ session = {}
    /\ baselineFile = [tracker |-> NoBaseline, polled |-> 0]
    /\ sessionFile = [started |-> FALSE, session |-> {}]
    /\ polled = 0
    /\ first = NoBaseline
    /\ before = {}
    /\ silent = 0
    /\ outage = FALSE
    /\ torn = FALSE
    /\ reloads = 0
    /\ crashes = 0
    /\ faults = 0

Fault == faults < MaxFaults /\ faults' = faults + 1
SaveWindow == {"checkpoint", "save"}

--------------------------------------------------------------------------------
(* The core. *)

Traffic ==
    /\ passed < MaxTraffic
    /\ passed' = passed + 1
    /\ UNCHANGED <<base, pc, stopping, tracker, interval, metricVars, sessionVars, files,
                   polled, first, before, silent, outage, torn, bounds>>

\* The core restarts and counts from zero again.
ReloadCore ==
    /\ reloads < MaxReloads
    /\ reloads' = reloads + 1
    /\ base' = passed
    /\ UNCHANGED <<passed, pc, stopping, tracker, interval, metricVars, sessionVars, files,
                   polled, first, before, silent, outage, torn, crashes, faults>>

--------------------------------------------------------------------------------
(* One sample: collect_interval, then handle_sample. *)

\* MihomoTrafficTracker.apply: what the counter gained since the last poll; a
\* first poll and a smaller counter only set the baseline.
InclusiveGain(counter) == \* mutant: off by one
    IF tracker # NoBaseline /\ counter >= tracker THEN counter - tracker + 1 ELSE 0
Gain(counter) ==
    IF tracker # NoBaseline /\ counter >= tracker THEN counter - tracker ELSE 0

Poll ==
    /\ pc \in {"idle", "polling"}
    /\ pc = "polling" => silent = 0
    /\ pc' = "polling"
    /\ interval' = interval \cup ((passed - Gain(passed - base) + 1)..passed)
    /\ tracker' = passed - base
    /\ polled' = passed
    /\ first' = IF first = NoBaseline THEN passed ELSE first
    /\ silent' = 0
    /\ UNCHANGED <<counterVars, stopping, metricVars, sessionVars, files, before, outage,
                   torn, bounds>>

\* No poll of the interval succeeded: the sample has no local part.
Unavailable ==
    /\ pc = "idle"
    /\ pc' = "polling"
    /\ silent' = IF silent < 3 THEN silent + 1 ELSE 3
    /\ outage' = (outage \/ silent' = 3)
    /\ UNCHANGED <<counterVars, stopping, tracker, interval, metricVars, sessionVars, files,
                   polled, first, before, torn, bounds>>

RecordSession ==
    /\ pc = "polling"
    /\ started
    /\ pc' = "collect"
    /\ session' = session \cup interval
    /\ UNCHANGED <<counterVars, stopping, tracker, interval, metricVars, started, files,
                   polled, first, before, silent, outage, torn, bounds>>

\* The first sample, or a session.reset command: the session starts after this
\* sample and is saved at once.
ResetSession ==
    /\ pc = "polling"
    /\ pc' = "collect"
    /\ started' = TRUE
    /\ session' = {}
    /\ sessionFile' = [started |-> TRUE, session |-> {}]
    /\ before' = 1..polled
    /\ UNCHANGED <<counterVars, stopping, tracker, interval, metricVars, baselineFile,
                   polled, first, silent, outage, torn, bounds>>

\* A reset raises before or after its save.  The command is answered with an
\* error and the sample is recorded after all; in the first sample nothing
\* catches it before main.
FailReset ==
    /\ pc = "polling"
    /\ Fault
    /\ started' = TRUE
    /\ session' = {}
    /\ sessionFile' \in {sessionFile, [started |-> TRUE, session |-> {}]}
    /\ \/ pc' = "polling" /\ UNCHANGED interval
       \/ ~started /\ pc' = "idle" /\ interval' = {}
    /\ UNCHANGED <<counterVars, stopping, tracker, metricVars, baselineFile, polled, first,
                   before, silent, outage, torn, reloads, crashes>>

\* CollectorRegistry.collect: the points of a source that is confirmed to be
\* failing are withheld, those of its first good sample included.
Collect ==
    /\ pc = "collect"
    /\ pc' = "ingest"
    /\ source' = Window!Observe(source, IF silent = 0 THEN "available" ELSE "error", FALSE)
    /\ interval' = IF source'.status = "available" THEN interval ELSE {}
    /\ UNCHANGED <<counterVars, stopping, tracker, hot, durable, sessionVars, files, polled,
                   first, before, silent, outage, torn, bounds>>

NoSave == "idle" \* mutant: a flush is not followed by the saves
AfterFlush == "checkpoint"

\* metric_pipeline.ingest: the sample joins the open bucket, or it opens the
\* next one and the completed buckets (of any resource) are committed.
Ingest ==
    /\ pc = "ingest"
    /\ \/ /\ hot' = hot \cup interval
          /\ pc' = "idle"
          /\ UNCHANGED durable
       \/ /\ durable' = durable \cup hot
          /\ hot' = interval
          /\ pc' = AfterFlush
    /\ interval' = {}
    /\ UNCHANGED <<counterVars, stopping, tracker, source, sessionVars, files, polled,
                   first, before, silent, outage, torn, bounds>>

SaveSession ==
    /\ pc = "checkpoint"
    /\ pc' = "save"
    /\ sessionFile' = [started |-> started, session |-> session]
    /\ UNCHANGED <<counterVars, stopping, tracker, interval, metricVars, sessionVars,
                   baselineFile, polled, first, before, silent, outage, torn, bounds>>

SaveTracker ==
    /\ pc = "save"
    /\ pc' = IF stopping THEN "down" ELSE "idle"
    /\ baselineFile' = [tracker |-> tracker, polled |-> polled]
    /\ UNCHANGED <<counterVars, stopping, tracker, interval, metricVars, sessionVars,
                   sessionFile, polled, first, before, silent, outage, torn, bounds>>

\* Something in the sample raises: main logs it and takes the next sample.  In
\* the finally block it ends the process.
Raise ==
    /\ pc \in {"polling", "collect", "ingest", "checkpoint", "save"}
    /\ Fault
    /\ pc' = IF stopping THEN "down" ELSE "idle"
    \* A failed flush has already put the sample into the accumulator.
    /\ \E keep \in {{}, IF pc = "ingest" THEN interval ELSE {}} : hot' = hot \cup keep
    /\ interval' = {}
    /\ torn' = (torn \/ pc \in SaveWindow)
    /\ UNCHANGED <<counterVars, stopping, tracker, source, durable, sessionVars, files,
                   polled, first, before, silent, outage, reloads, crashes>>

--------------------------------------------------------------------------------
(* The process. *)

\* The finally block of main, between two samples or, after an interrupt, out
\* of one: flush_all, then the same two saves.
DropHot == {} \* mutant: the open bucket is not flushed
Flushed == hot

Stop ==
    /\ pc # "down" /\ ~stopping
    /\ stopping' = TRUE
    /\ IF pc = "idle" THEN UNCHANGED faults ELSE Fault
    /\ interval' = {}
    /\ pc' = "checkpoint"
    /\ durable' = durable \cup Flushed
    /\ hot' = {}
    /\ UNCHANGED <<counterVars, tracker, source, sessionVars, files, polled, first, before,
                   silent, outage, torn, reloads, crashes>>

\* The flush of the finally block fails: the saves are skipped.
FailStop ==
    /\ pc # "down" /\ ~stopping
    /\ Fault
    /\ pc' = "down"
    /\ torn' = (torn \/ pc \in SaveWindow)
    /\ UNCHANGED <<counterVars, stopping, tracker, interval, metricVars, sessionVars, files,
                   polled, first, before, silent, outage, reloads, crashes>>

Crash ==
    /\ pc # "down"
    /\ crashes < MaxCrashes
    /\ crashes' = crashes + 1
    /\ pc' = "down"
    /\ torn' = (torn \/ pc \in SaveWindow)
    /\ UNCHANGED <<counterVars, stopping, tracker, interval, metricVars, sessionVars, files,
                   polled, first, before, silent, outage, reloads, faults>>

Start ==
    /\ pc = "down"
    /\ pc' = "idle"
    /\ stopping' = FALSE
    /\ interval' = {}
    /\ source' = Window!Confirmed("available")
    /\ hot' = {}
    /\ tracker' = baselineFile.tracker
    /\ polled' = baselineFile.polled
    /\ started' = sessionFile.started
    /\ session' = sessionFile.session
    /\ silent' = 0
    /\ UNCHANGED <<counterVars, durable, files, first, before, outage, torn, bounds>>

Next ==
    \/ Traffic \/ ReloadCore
    \/ Poll \/ Unavailable \/ RecordSession \/ ResetSession \/ FailReset
    \/ Collect \/ Ingest \/ SaveSession \/ SaveTracker \/ Raise
    \/ Stop \/ FailStop \/ Crash \/ Start

Spec == Init /\ [][Next]_vars

--------------------------------------------------------------------------------
(* Properties. *)

\* Types of the variables; the units counted are units that have passed.
TypeOK ==
    /\ passed \in 0..MaxTraffic
    /\ base \in 0..passed
    /\ pc \in {"idle", "polling", "collect", "ingest", "checkpoint", "save", "down"}
    /\ stopping \in BOOLEAN
    /\ tracker \in Nat \cup {NoBaseline}
    /\ interval \subseteq 1..passed /\ hot \subseteq 1..passed /\ durable \subseteq 1..passed
    /\ source \in Window!Stabilizer
    /\ started \in BOOLEAN
    /\ session \subseteq 1..passed
    /\ baselineFile \in [tracker : Nat \cup {NoBaseline}, polled : 0..passed]
    /\ sessionFile \in [started : BOOLEAN, session : SUBSET (1..passed)]
    /\ polled \in 0..passed
    /\ first \in Nat \cup {NoBaseline}
    /\ before \subseteq 1..passed
    /\ silent \in 0..3
    /\ outage \in BOOLEAN
    /\ torn \in BOOLEAN
    /\ reloads \in 0..MaxReloads /\ crashes \in 0..MaxCrashes /\ faults \in 0..MaxFaults

\* "App 重启不重放已经写入的区间": a restart does not replay what was written.
NothingReplayed == (interval \cup hot) \cap durable = {}

\* Whatever crashes, fails, reloads or restarts, traffic is only ever replayed
\* into the metrics after a process or a sample ended between the commit of a
\* flush and the save of its baseline.
OnlyTornSavesReplay == ~torn => NothingReplayed

\* As long as nothing fails, the session holds every unit polled since it
\* began exactly once, and the metrics hold every unit between the first and
\* the latest poll, restarts, short silences of the core and the traffic of the
\* time in between included; only a confirmed outage withholds some of them.
OrderlyRunsAreExact ==
    (crashes = 0 /\ faults = 0 /\ reloads = 0 /\ pc = "idle" /\ first # NoBaseline) =>
        /\ session = ((first + 1)..polled) \ before
        /\ hot \cap durable = {}
        /\ ~outage => hot \cup durable = (first + 1)..polled

================================================================================
