-------------------------- MODULE LocalMeteringProofs --------------------------
(***************************************************************************)
(* For every amount of traffic and every number of reloads, crashes and    *)
(* faults: local traffic is replayed into the metrics only after a process *)
(* or a sample ended between the commit of a flush and the save of its     *)
(* baseline; and while nothing fails, the session and the metrics hold     *)
(* every unit polled exactly once, through any number of restarts.         *)
(***************************************************************************)
EXTENDS LocalMetering, TLAPS

Counted == interval \cup hot

\* What the argument needs to know about types.
Types ==
    /\ passed \in Nat /\ base \in Nat /\ polled \in Nat
    /\ tracker \in Nat \cup {NoBaseline}
    /\ baselineFile \in [tracker : Nat \cup {NoBaseline}, polled : Nat]

\* The saved poll is not later than the last one; no poll and no start
\* of the core is in the future.
PollsAreOrdered == baselineFile.polled <= polled /\ polled <= passed /\ base <= passed

\* A counter that has not been reset since a poll stands where the poll was; a
\* core that restarted did so after it.
BaselinesAreCurrent ==
    /\ tracker # NoBaseline => polled <= base + tracker
    /\ baselineFile.tracker # NoBaseline => baselineFile.polled <= base + baselineFile.tracker

\* What is on its way into the store is disjoint and was polled.
Pending == Counted \subseteq 1..polled /\ interval \cap hot = {}

\* What is in the store is older than the baseline a restart would load, but
\* for the time between a commit and the save of its baseline.
Stored ==
    ~torn => /\ durable \subseteq 1..polled
             /\ pc \notin SaveWindow => durable \subseteq 1..baselineFile.polled
             /\ Counted \cap durable = {}

IInv == Types /\ PollsAreOrdered /\ BaselinesAreCurrent /\ Pending /\ Stored

--------------------------------------------------------------------------------
\* Initially nothing has been counted and nothing saved.
LEMMA InitIInv == Init => IInv
  BY DEF Init, IInv, Types, PollsAreOrdered, BaselinesAreCurrent, Pending, Stored, Counted,
         NoBaseline, SaveWindow

\* A poll adds only units that passed after the last one.
LEMMA PollIsFresh ==
    ASSUME Types, PollsAreOrdered, BaselinesAreCurrent
    PROVE  \A unit \in (passed - Gain(passed - base) + 1)..passed : polled < unit
  BY DEF Types, PollsAreOrdered, BaselinesAreCurrent, Gain, NoBaseline

\* Every step of the core, the sampling loop and the process keeps the
\* invariant.
LEMMA NextIInv == IInv /\ [Next]_vars => IInv'
<1> USE DEF IInv, Types, PollsAreOrdered, BaselinesAreCurrent, Pending, Stored, Counted,
            NoBaseline, SaveWindow, files
<1>1. SUFFICES ASSUME IInv, [Next]_vars PROVE IInv'
  OBVIOUS
<1>2. CASE Traffic
  BY <1>1, <1>2 DEF Traffic, metricVars, sessionVars, bounds
<1>3. CASE ReloadCore
  BY <1>1, <1>3 DEF ReloadCore, metricVars, sessionVars
<1>4. CASE Poll
  <2>1. \A unit \in (passed - Gain(passed - base) + 1)..passed : polled < unit
    BY <1>1, PollIsFresh
  <2>2. Gain(passed - base) \in Int
    BY <1>1 DEF Gain
  <2> DEFINE new == (passed - Gain(passed - base) + 1)..passed
  <2>3. new \subseteq 1..passed /\ \A unit \in new : unit > polled
    BY <1>1, <2>1, <2>2
  <2>4. /\ interval' = interval \cup new
        /\ tracker' = passed - base /\ polled' = passed
        /\ UNCHANGED <<passed, base, hot, durable, files, torn>> /\ pc' = "polling"
        /\ pc \in {"idle", "polling"}
    BY <1>4 DEF Poll, counterVars, metricVars
  <2> HIDE DEF new
  <2>5. 1..polled \subseteq 1..passed /\ new \cap 1..polled = {}
    BY <1>1, <2>3
  <2>6. Pending' /\ Stored'
    <3>1. /\ Counted \subseteq 1..polled /\ interval \cap hot = {}
          /\ ~torn => durable \subseteq 1..polled /\ Counted \cap durable = {}
      BY <1>1
    <3>2. ~torn => durable \subseteq 1..baselineFile.polled
      BY <1>1, <2>4
    <3> QED BY ONLY <2>3, <2>4, <2>5, <3>1, <3>2 DEF Pending, Stored, Counted, SaveWindow, files
  <2>7. Types' /\ PollsAreOrdered' /\ BaselinesAreCurrent'
    BY <1>1, <1>4, <2>4 DEF Poll, sessionVars, files
  <2> QED BY <2>6, <2>7
<1>5. CASE Unavailable
  BY <1>1, <1>5 DEF Unavailable, counterVars, metricVars, sessionVars, bounds
<1>6. CASE RecordSession
  BY <1>1, <1>6 DEF RecordSession, counterVars, metricVars, bounds
<1>7. CASE ResetSession
  BY <1>1, <1>7 DEF ResetSession, counterVars, metricVars, bounds
<1>8. CASE FailReset
  BY <1>1, <1>8 DEF FailReset, Fault, counterVars, metricVars
<1>9. CASE Collect
  BY <1>1, <1>9 DEF Collect, counterVars, sessionVars, bounds
<1>10. CASE Ingest
  BY <1>1, <1>10 DEF Ingest, AfterFlush, counterVars, sessionVars, bounds
<1>11. CASE SaveSession
  BY <1>1, <1>11 DEF SaveSession, counterVars, metricVars, sessionVars, bounds
<1>12. CASE SaveTracker
  BY <1>1, <1>12 DEF SaveTracker, counterVars, metricVars, sessionVars, bounds
<1>13. CASE Raise
  <2>1. PICK keep \in {{}, IF pc = "ingest" THEN interval ELSE {}} : hot' = hot \cup keep
    BY <1>13 DEF Raise
  <2>2. /\ interval' = {} /\ pc' \notin SaveWindow
        /\ (torn \/ pc \in SaveWindow) = torn'
        /\ UNCHANGED <<passed, base, polled, tracker, durable, files>>
    BY <1>13 DEF Raise, counterVars
  <2>3. Types' /\ PollsAreOrdered' /\ BaselinesAreCurrent'
    BY <1>1, <2>2
  <2>4. Counted' \subseteq Counted
    BY <2>1, <2>2
  <2>5. QED
    BY <1>1, <2>2, <2>3, <2>4
<1>14. CASE Stop
  BY <1>1, <1>14 DEF Stop, Fault, Flushed, counterVars, sessionVars
<1>15. CASE FailStop
  BY <1>1, <1>15 DEF FailStop, Fault, counterVars, metricVars, sessionVars
<1>16. CASE Crash
  BY <1>1, <1>16 DEF Crash, counterVars, metricVars, sessionVars
<1>17. CASE Start
  BY <1>1, <1>17 DEF Start, counterVars, bounds
<1>18. CASE UNCHANGED vars
  BY <1>1, <1>18 DEF vars
<1> QED
  BY <1>1, <1>2, <1>3, <1>4, <1>5, <1>6, <1>7, <1>8, <1>9, <1>10, <1>11, <1>12, <1>13,
     <1>14, <1>15, <1>16, <1>17, <1>18 DEF Next

\* Traffic is replayed only after a torn save, however much traffic passes and
\* however often the core reloads and the process fails.
THEOREM ReplaysAreTorn == Spec => []OnlyTornSavesReplay
<1>1. IInv => OnlyTornSavesReplay
  BY DEF IInv, Stored, Counted, OnlyTornSavesReplay, NothingReplayed
<1> QED
  BY InitIInv, NextIInv, <1>1, PTL DEF Spec

--------------------------------------------------------------------------------
(* Types. *)

\* A confirmation window stays one.
LEMMA WindowsAreTyped ==
    /\ Window!Status = {"available", "error"}
    /\ Window!Confirmed("available") \in Window!Stabilizer
    /\ \A w \in Window!Stabilizer, c \in Window!Status : Window!Observe(w, c, FALSE) \in Window!Stabilizer
<1>1. Window!Status = {"available", "error"}
  BY DEF Window!Status
<1>2. \A c \in Window!Status : Window!Confirmed(c) \in Window!Stabilizer
  BY <1>1 DEF Window!Confirmed, Window!Stabilizer
<1>3. ASSUME NEW w \in Window!Stabilizer, NEW c \in Window!Status
      PROVE  Window!Observe(w, c, FALSE) \in Window!Stabilizer
  <2> DEFINE count == IF w.pending = c THEN w.count + 1 ELSE 1
  <2>1. count \in Nat
    BY <1>3 DEF Window!Stabilizer
  <2>2. [w EXCEPT !.pending = c, !.count = count] \in Window!Stabilizer
    BY <1>3, <2>1 DEF Window!Stabilizer
  <2>3. Window!Observe(w, c, FALSE) \in
            {Window!Confirmed(c), [w EXCEPT !.pending = c, !.count = count]}
    BY DEF Window!Observe
  <2> QED BY <1>2, <1>3, <2>2, <2>3
<1> QED BY <1>1, <1>2, <1>3

\* The types hold initially.
LEMMA InitTypes == Init => TypeOK
<1>1. SUFFICES ASSUME Init PROVE TypeOK
  OBVIOUS
<1>2. source \in Window!Stabilizer
  BY <1>1, WindowsAreTyped DEF Init
<1>3. baselineFile \in [tracker : Nat \cup {NoBaseline}, polled : 0..passed]
  BY <1>1 DEF Init, NoBaseline
<1>4. sessionFile \in [started : BOOLEAN, session : SUBSET (1..passed)]
  BY <1>1 DEF Init
<1>5. /\ passed = 0 /\ base = 0 /\ pc = "idle" /\ stopping = FALSE /\ tracker = NoBaseline
      /\ interval = {} /\ hot = {} /\ durable = {} /\ started = FALSE /\ session = {} /\ polled = 0
      /\ first = NoBaseline /\ before = {} /\ silent = 0 /\ outage = FALSE /\ torn = FALSE
      /\ reloads = 0 /\ crashes = 0 /\ faults = 0
  BY <1>1 DEF Init
<1>6. /\ passed \in 0..MaxTraffic /\ base \in 0..passed /\ polled \in 0..passed
      /\ pc \in {"idle", "polling", "collect", "ingest", "checkpoint", "save", "down"}
      /\ tracker \in Nat \cup {NoBaseline} /\ first \in Nat \cup {NoBaseline} /\ silent \in 0..3
      /\ reloads \in 0..MaxReloads /\ crashes \in 0..MaxCrashes /\ faults \in 0..MaxFaults
  BY <1>5, ConstantsAssumption DEF NoBaseline
<1>7. /\ interval \subseteq 1..passed /\ hot \subseteq 1..passed /\ durable \subseteq 1..passed
      /\ session \subseteq 1..passed /\ before \subseteq 1..passed
  BY <1>5
<1>8. stopping \in BOOLEAN /\ started \in BOOLEAN /\ outage \in BOOLEAN /\ torn \in BOOLEAN
  BY <1>5
<1> QED BY <1>2, <1>3, <1>4, <1>6, <1>7, <1>8 DEF TypeOK

\* Every step keeps the types, given the invariant.
LEMMA NextTypes == IInv /\ TypeOK /\ [Next]_vars => TypeOK'
<1> USE ConstantsAssumption DEF TypeOK, NoBaseline, files, bounds, counterVars, metricVars, sessionVars, Fault
<1> USE DEF IInv, Types, PollsAreOrdered, Pending, Counted
<1>1. SUFFICES ASSUME IInv, TypeOK, [Next]_vars PROVE TypeOK'
  OBVIOUS
<1>2. CASE Traffic
  BY <1>1, <1>2 DEF Traffic
<1>3. CASE ReloadCore
  BY <1>1, <1>3 DEF ReloadCore
<1>4. CASE Poll
  <2>1. \A unit \in (passed - Gain(passed - base) + 1)..passed : polled < unit
    BY <1>1, PollIsFresh
  <2>2. (passed - Gain(passed - base) + 1)..passed \subseteq 1..passed
    <3>1. Gain(passed - base) \in Int
      BY <1>1 DEF Gain
    <3> QED BY <1>1, <2>1, <3>1
  <2>3. interval' \subseteq 1..passed
    BY <1>1, <1>4, <2>2 DEF Poll
  <2>4. /\ passed' = passed /\ base' = base /\ pc' = "polling" /\ tracker' = passed - base
        /\ polled' = passed /\ first' \in {passed, first} /\ silent' = 0
        /\ UNCHANGED <<stopping, source, hot, durable, started, session, baselineFile, sessionFile,
                       before, outage, torn, reloads, crashes, faults>>
    BY <1>4 DEF Poll
  <2> QED BY <1>1, <2>3, <2>4
<1>5. CASE Unavailable
  BY <1>1, <1>5 DEF Unavailable
<1>6. CASE RecordSession
  BY <1>1, <1>6 DEF RecordSession
<1>7. CASE ResetSession
  BY <1>1, <1>7 DEF ResetSession
<1>8. CASE FailReset
  <2>1. /\ interval' \in {interval, {}} /\ pc' \in {"polling", "idle"} /\ started' = TRUE /\ session' = {}
        /\ sessionFile' = sessionFile \/ sessionFile' = [started |-> TRUE, session |-> {}]
        /\ faults' \in 0..MaxFaults
        /\ UNCHANGED <<passed, base, stopping, tracker, source, hot, durable, baselineFile, polled, first,
                       before, silent, outage, torn, reloads, crashes>>
    BY <1>1, <1>8 DEF FailReset
  <2>2. sessionFile' \in [started : BOOLEAN, session : SUBSET (1..passed)]
    <3>1. [started |-> TRUE, session |-> {}] \in [started : BOOLEAN, session : SUBSET (1..passed)]
      OBVIOUS
    <3>2. sessionFile \in [started : BOOLEAN, session : SUBSET (1..passed)]
      BY <1>1
    <3> QED BY <2>1, <3>1, <3>2
  <2> QED BY <1>1, <2>1, <2>2
<1>9. CASE Collect
  <2>1. source' \in Window!Stabilizer
    BY <1>1, <1>9, WindowsAreTyped DEF Collect
  <2> QED BY <1>1, <1>9, <2>1 DEF Collect
<1>10. CASE Ingest
  BY <1>1, <1>10 DEF Ingest, AfterFlush
<1>11. CASE SaveSession
  BY <1>1, <1>11 DEF SaveSession
<1>12. CASE SaveTracker
  BY <1>1, <1>12 DEF SaveTracker
<1>13. CASE Raise
  <2>1. /\ interval' = {} /\ pc' \in {"idle", "down"} /\ torn' \in BOOLEAN /\ faults' \in 0..MaxFaults
        /\ hot' \subseteq hot \cup interval
        /\ UNCHANGED <<passed, base, stopping, tracker, source, durable, started, session, baselineFile,
                       sessionFile, polled, first, before, silent, outage, reloads, crashes>>
    BY <1>1, <1>13 DEF Raise
  <2> QED BY <1>1, <2>1
<1>14. CASE Stop
  BY <1>1, <1>14 DEF Stop, Flushed
<1>15. CASE FailStop
  BY <1>1, <1>15 DEF FailStop
<1>16. CASE Crash
  BY <1>1, <1>16 DEF Crash
<1>17. CASE Start
  <2>1. /\ baselineFile.tracker \in Nat \cup {NoBaseline} /\ baselineFile.polled \in 0..passed
        /\ sessionFile.started \in BOOLEAN /\ sessionFile.session \subseteq 1..passed
    BY <1>1
  <2>2. source' \in Window!Stabilizer
    BY <1>17, WindowsAreTyped DEF Start
  <2>3. /\ passed' = passed /\ base' = base /\ pc' = "idle" /\ stopping' = FALSE
        /\ interval' = {} /\ hot' = {} /\ silent' = 0 /\ tracker' = baselineFile.tracker
        /\ polled' = baselineFile.polled /\ started' = sessionFile.started
        /\ session' = sessionFile.session
        /\ UNCHANGED <<durable, baselineFile, sessionFile, first, before, outage, torn, reloads,
                       crashes, faults>>
    BY <1>17 DEF Start
  <2>4. /\ baselineFile' \in [tracker : Nat \cup {NoBaseline}, polled : 0..passed]
        /\ sessionFile' \in [started : BOOLEAN, session : SUBSET (1..passed)]
    BY <1>1, <2>3
  <2>5. /\ session' \subseteq 1..passed' /\ started' \in BOOLEAN /\ polled' \in 0..passed'
        /\ tracker' \in Nat \cup {NoBaseline}
    BY <2>1, <2>3
  <2>6. /\ passed' \in 0..MaxTraffic /\ base' \in 0..passed' /\ first' \in Nat \cup {NoBaseline}
        /\ pc' \in {"idle", "polling", "collect", "ingest", "checkpoint", "save", "down"}
        /\ silent' \in 0..3
        /\ reloads' \in 0..MaxReloads /\ crashes' \in 0..MaxCrashes /\ faults' \in 0..MaxFaults
    BY <1>1, <2>3
  <2>7. /\ interval' \subseteq 1..passed' /\ hot' \subseteq 1..passed' /\ durable' \subseteq 1..passed'
        /\ before' \subseteq 1..passed'
    BY <1>1, <2>3
  <2>8. passed' = passed
    BY <2>3
  <2>9. stopping' \in BOOLEAN /\ outage' \in BOOLEAN /\ torn' \in BOOLEAN
    BY <1>1, <2>3
  <2> QED BY ONLY <2>2, <2>4, <2>5, <2>6, <2>7, <2>8, <2>9 DEF TypeOK
<1>18. CASE UNCHANGED vars
  BY <1>1, <1>18 DEF vars
<1> QED
  BY <1>1, <1>2, <1>3, <1>4, <1>5, <1>6, <1>7, <1>8, <1>9, <1>10, <1>11, <1>12, <1>13,
     <1>14, <1>15, <1>16, <1>17, <1>18 DEF Next

\* What is counted, saved and stored are units that have passed, for any amount of traffic.
THEOREM LocalTypes == Spec => []TypeOK
<1> QED
  BY InitTypes, InitIInv, NextIInv, NextTypes, PTL DEF Spec

--------------------------------------------------------------------------------
(* Orderly runs. *)

Orderly == crashes = 0 /\ faults = 0 /\ reloads = 0

\* Where the sampling loop may be, and what is then empty.
LoopIsOrderly ==
    /\ base = 0 /\ ~torn
    /\ stopping => pc \in {"checkpoint", "save", "down"} /\ interval = {} /\ hot = {}
    /\ pc = "down" => stopping
    /\ pc \in {"idle", "checkpoint", "save"} => interval = {}

\* Before the first poll there is nothing; after it the counter stands where the poll was.
PolledSinceFirst ==
    /\ before \subseteq 1..polled
    /\ first = NoBaseline =>
        /\ tracker = NoBaseline /\ polled = 0
        /\ interval = {} /\ hot = {} /\ durable = {} /\ session = {}
    /\ first # NoBaseline => first <= polled /\ tracker = polled

\* The session with the sample that it has not been told of yet.
SessionIsExact ==
    first # NoBaseline =>
        session \cup (IF pc = "polling" THEN interval ELSE {}) = ((first + 1)..polled) \ before

\* A stop saves everything before the process is down.
StopSaves ==
    /\ stopping /\ pc \in {"save", "down"} => sessionFile = [started |-> started, session |-> session]
    /\ pc = "down" => baselineFile = [tracker |-> tracker, polled |-> polled]

\* The window of the source counts no more failures than there were silent samples.
WindowLags ==
    ~outage =>
        /\ source.status = "available" /\ silent <= 2
        /\ silent > 0 /\ source.pending = "error" =>
            source.count <= IF pc \in {"polling", "collect"} THEN silent - 1 ELSE silent
        /\ silent = 0 /\ pc \notin {"polling", "collect"} => source.pending # "error"

MetricsAreExact ==
    first # NoBaseline /\ ~outage => interval \cup hot \cup durable = (first + 1)..polled

OrderlyInv ==
    Orderly => /\ LoopIsOrderly /\ PolledSinceFirst /\ SessionIsExact
               /\ StopSaves /\ WindowLags /\ MetricsAreExact

\* A poll adds exactly what passed since the last one.
LEMMA PollIsExact ==
    ASSUME IInv, TypeOK, Orderly, OrderlyInv, Poll
    PROVE  /\ first = NoBaseline => interval' = {} /\ first' = passed
           /\ first # NoBaseline => interval' = interval \cup ((polled + 1)..passed) /\ first' = first
<1> USE DEF OrderlyInv, LoopIsOrderly, PolledSinceFirst, TypeOK, Poll, NoBaseline
<1>1. CASE first = NoBaseline
  <2>1. Gain(passed - base) = 0 /\ interval = {}
    BY <1>1 DEF Gain
  <2>2. (passed - 0 + 1)..passed = {}
    OBVIOUS
  <2> QED BY <1>1, <2>1, <2>2
<1>2. CASE first # NoBaseline
  <2>1. Gain(passed - base) = passed - polled
    BY <1>2 DEF Gain
  <2>2. passed - Gain(passed - base) + 1 = polled + 1
    BY <2>1
  <2> QED BY <1>2, <2>2
<1> QED BY <1>1, <1>2

\* A poll keeps the session and the metrics exact.
LEMMA PollKeepsOrder ==
    ASSUME IInv, TypeOK, Orderly, OrderlyInv, Poll
    PROVE  OrderlyInv'
<1> USE DEF NoBaseline
<1>1. /\ pc \in {"idle", "polling"} /\ pc' = "polling" /\ tracker' = passed - base /\ polled' = passed
      /\ silent' = 0
      /\ UNCHANGED <<passed, base, stopping, source, hot, durable, started, session, baselineFile,
                     sessionFile, before, outage, torn, reloads, crashes, faults>>
  BY DEF Poll, counterVars, metricVars, sessionVars, files, bounds
<1>2. /\ base = 0 /\ ~torn /\ ~stopping /\ (pc = "idle" => interval = {})
      /\ before \subseteq 1..polled /\ PolledSinceFirst /\ SessionIsExact /\ MetricsAreExact /\ WindowLags
  BY <1>1 DEF OrderlyInv, LoopIsOrderly, PolledSinceFirst
<1>3. polled \in 0..passed /\ passed \in Nat /\ first \in Nat \cup {-1} /\ silent \in 0..3
  BY ConstantsAssumption DEF TypeOK
<1>4. LoopIsOrderly' /\ StopSaves' /\ WindowLags'
  BY <1>1, <1>2 DEF LoopIsOrderly, StopSaves, WindowLags
<1>5. CASE first = NoBaseline
  <2>1. interval' = {} /\ first' = passed
    BY <1>5, PollIsExact
  <2>2. hot = {} /\ durable = {} /\ session = {} /\ polled = 0
    BY <1>2, <1>5 DEF PolledSinceFirst
  <2>3. (first' + 1)..polled' = {}
    BY <1>1, <1>3, <2>1
  <2>4. before' \subseteq 1..polled' /\ first' # -1
    BY <1>1, <1>2, <1>3, <2>1, <2>2
  <2> QED
    BY <1>1, <1>2, <1>3, <1>4, <2>1, <2>2, <2>3, <2>4
       DEF OrderlyInv, PolledSinceFirst, SessionIsExact, MetricsAreExact
<1>6. CASE first # NoBaseline
  <2> DEFINE new == (polled + 1)..passed
  <2>1. interval' = interval \cup new /\ first' = first
    BY <1>6, PollIsExact
  <2>2. first \in Nat /\ first <= polled
    BY <1>2, <1>3, <1>6 DEF PolledSinceFirst
  <2>3. (first + 1)..passed = ((first + 1)..polled) \cup new /\ new \cap 1..polled = {}
    BY <1>3, <2>2
  <2> HIDE DEF new
  <2>4. PolledSinceFirst'
    <3>1. 1..polled \subseteq 1..passed
      BY <1>3
    <3> QED BY <1>1, <1>2, <1>3, <1>6, <2>1, <2>2, <3>1 DEF PolledSinceFirst
  <2>5. SessionIsExact'
    <3>1. session \cup interval = ((first + 1)..polled) \ before
      BY <1>1, <1>2, <1>6 DEF SessionIsExact
    <3>2. new \ before = new
      BY <1>2, <2>3
    <3> QED BY <1>1, <2>1, <2>3, <3>1, <3>2 DEF SessionIsExact
  <2>6. MetricsAreExact'
    BY <1>1, <1>2, <1>6, <2>1, <2>3 DEF MetricsAreExact
  <2> QED BY <1>4, <2>4, <2>5, <2>6 DEF OrderlyInv
<1> QED BY <1>5, <1>6

\* A source is not given up before the third silent sample in a row.
LEMMA CollectKeepsOrder ==
    ASSUME IInv, TypeOK, Orderly, OrderlyInv, Collect
    PROVE  OrderlyInv'
<1> USE DEF NoBaseline
<1>1. /\ pc = "collect" /\ pc' = "ingest"
      /\ source' = Window!Observe(source, IF silent = 0 THEN "available" ELSE "error", FALSE)
      /\ interval' = IF source'.status = "available" THEN interval ELSE {}
      /\ UNCHANGED <<passed, base, stopping, tracker, hot, durable, started, session, baselineFile,
                     sessionFile, polled, first, before, silent, outage, torn, reloads, crashes, faults>>
  BY DEF Collect, counterVars, sessionVars, files, bounds
<1>2. source \in Window!Stabilizer /\ silent \in 0..3
  BY DEF TypeOK
<1>3. WindowLags'
  <2>1. SUFFICES ASSUME ~outage
                 PROVE  /\ source'.status = "available" /\ silent <= 2
                        /\ silent > 0 /\ source'.pending = "error" => source'.count <= silent
                        /\ silent = 0 => source'.pending # "error"
    BY <1>1 DEF WindowLags
  <2>2. /\ source.status = "available" /\ silent <= 2
        /\ silent > 0 /\ source.pending = "error" => source.count <= silent - 1
    BY <1>1, <2>1 DEF OrderlyInv, WindowLags
  <2>3. CASE silent = 0
    BY <1>1, <1>2, <2>2, <2>3 DEF Window!Observe, Window!Confirmed, Window!Stabilizer, Window!Status
  <2>4. CASE silent > 0
    <3> DEFINE count == IF source.pending = "error" THEN source.count + 1 ELSE 1
    <3>1. count \in Nat /\ count <= silent
      BY <1>2, <2>2, <2>4 DEF Window!Stabilizer
    <3>2. Window!Required("available", "error") = 3
      BY DEF Window!Required
    <3> DEFINE candidate == IF silent = 0 THEN "available" ELSE "error"
    <3>3. source' = Window!Observe(source, "error", FALSE)
      <4>1. candidate = "error"
        BY <1>2, <2>4
      <4>2. source' = Window!Observe(source, candidate, FALSE)
        BY <1>1
      <4> HIDE DEF candidate
      <4> QED BY <4>1, <4>2
    <3>4. ~(count >= Window!Required(source.status, "error"))
      BY <1>2, <2>2, <3>1, <3>2
    <3>5. source' = [source EXCEPT !.pending = "error", !.count = count]
      <4>1. source.status # "error"
        BY <2>2
      <4> HIDE DEF count
      <4> QED BY <3>3, <3>4, <4>1 DEF Window!Observe, count
    <3> QED BY <1>2, <2>2, <2>4, <3>1, <3>5 DEF Window!Stabilizer
  <2> QED BY <1>2, <2>3, <2>4
<1>4. MetricsAreExact'
  BY <1>1, <1>3 DEF OrderlyInv, MetricsAreExact, WindowLags
<1>5. LoopIsOrderly' /\ StopSaves' /\ SessionIsExact' /\ PolledSinceFirst'
  BY <1>1 DEF OrderlyInv, LoopIsOrderly, StopSaves, SessionIsExact, PolledSinceFirst
<1> QED BY <1>3, <1>4, <1>5 DEF OrderlyInv

\* Every step of an orderly run keeps it exact; what is not orderly stays so.
LEMMA NextOrderly == IInv /\ TypeOK /\ OrderlyInv /\ [Next]_vars => OrderlyInv'
<1> USE ConstantsAssumption DEF files, bounds, counterVars, metricVars, sessionVars
<1>1. SUFFICES ASSUME IInv, TypeOK, OrderlyInv, [Next]_vars, Orderly' PROVE OrderlyInv'
  BY DEF OrderlyInv
<1> DEFINE parts == /\ LoopIsOrderly /\ PolledSinceFirst /\ SessionIsExact
                    /\ StopSaves /\ WindowLags /\ MetricsAreExact
<1>2. ASSUME Fault \/ crashes' = crashes + 1 \/ reloads' = reloads + 1 PROVE FALSE
  BY <1>1, <1>2 DEF Orderly, Fault, TypeOK
<1>3. ASSUME Orderly PROVE parts
  BY <1>1, <1>3 DEF OrderlyInv
<1> USE DEF OrderlyInv, LoopIsOrderly, PolledSinceFirst, SessionIsExact, StopSaves, WindowLags, MetricsAreExact
<1> HIDE DEF parts
<1>4. CASE Traffic
  BY <1>1, <1>4 DEF Traffic, Orderly
<1>5. CASE ReloadCore
  BY <1>2, <1>5 DEF ReloadCore
<1>6. CASE Poll
  BY <1>1, <1>6, PollKeepsOrder DEF Orderly, Poll
<1>7. CASE Unavailable
  <2>1. LoopIsOrderly' /\ PolledSinceFirst' /\ SessionIsExact' /\ StopSaves' /\ MetricsAreExact'
    BY <1>1, <1>7 DEF Unavailable, Orderly
  <2>2. WindowLags'
    <3>1. source.count \in Nat /\ silent \in 0..3 /\ silent' \in 0..3
      BY <1>1, <1>7 DEF Unavailable, TypeOK, Window!Stabilizer
    <3>2. /\ pc = "idle" /\ pc' = "polling" /\ source' = source
          /\ silent' = (IF silent < 3 THEN silent + 1 ELSE 3) /\ outage' = (outage \/ silent' = 3)
      BY <1>7 DEF Unavailable
    <3>3. WindowLags
      BY <1>1, <1>7 DEF Unavailable, Orderly
    <3>4. ~outage' => ~outage /\ silent' # 3
      BY <3>2
    <3>5. /\ pc = "idle" /\ pc' = "polling" /\ source' = source
          /\ silent' = (IF silent < 3 THEN silent + 1 ELSE 3)
      BY <3>2
    <3> QED BY ONLY <3>1, <3>3, <3>4, <3>5 DEF WindowLags
  <2> QED BY <2>1, <2>2
<1>8. CASE RecordSession
  BY <1>1, <1>8 DEF RecordSession, Orderly
<1>9. CASE ResetSession
  BY <1>1, <1>9 DEF ResetSession, Orderly, TypeOK, NoBaseline
<1>10. CASE FailReset
  BY <1>2, <1>10 DEF FailReset
<1>11. CASE Collect
  BY <1>1, <1>11, CollectKeepsOrder DEF Orderly, Collect
<1>12. CASE Ingest
  BY <1>1, <1>12 DEF Ingest, AfterFlush, Orderly
<1>13. CASE SaveSession
  BY <1>1, <1>13 DEF SaveSession, Orderly
<1>14. CASE SaveTracker
  <2>1. /\ pc = "save" /\ pc' = (IF stopping THEN "down" ELSE "idle")
        /\ baselineFile' = [tracker |-> tracker, polled |-> polled]
        /\ UNCHANGED <<passed, base, stopping, tracker, interval, source, hot, durable, started, session,
                       sessionFile, polled, first, before, silent, outage, torn, reloads, crashes, faults>>
    BY <1>14 DEF SaveTracker
  <2>2. Orderly
    BY <1>1, <2>1 DEF Orderly
  <2>3. LoopIsOrderly /\ PolledSinceFirst /\ SessionIsExact /\ StopSaves /\ MetricsAreExact /\ WindowLags
    BY <1>1, <2>2
  <2>4. PolledSinceFirst'
    BY <2>1, <2>3
  <2>5. SessionIsExact'
    BY ONLY <2>1, <2>3 DEF SessionIsExact
  <2>6. StopSaves'
    BY ONLY <2>1, <2>3 DEF StopSaves
  <2>7. MetricsAreExact'
    BY ONLY <2>1, <2>3 DEF MetricsAreExact
  <2>8. WindowLags'
    BY ONLY <2>1, <2>3 DEF WindowLags
  <2>9. LoopIsOrderly'
    <3>1. CASE stopping
      BY ONLY <2>1, <2>3, <3>1 DEF LoopIsOrderly
    <3>2. CASE ~stopping
      BY ONLY <2>1, <2>3, <3>2 DEF LoopIsOrderly
    <3> QED BY <3>1, <3>2
  <2> QED BY <2>4, <2>5, <2>6, <2>7, <2>8, <2>9
<1>15. CASE Raise
  BY <1>2, <1>15 DEF Raise
<1>16. CASE Stop
  <2>1. pc = "idle"
    BY <1>2, <1>16 DEF Stop
  <2> QED BY <1>1, <1>16, <2>1 DEF Stop, Flushed, Orderly
<1>17. CASE FailStop
  BY <1>2, <1>17 DEF FailStop
<1>18. CASE Crash
  BY <1>2, <1>18 DEF Crash
<1>19. CASE Start
  <2>1. /\ pc = "down" /\ pc' = "idle" /\ stopping' = FALSE /\ interval' = {} /\ hot' = {}
        /\ source' = Window!Confirmed("available") /\ silent' = 0
        /\ tracker' = baselineFile.tracker /\ polled' = baselineFile.polled
        /\ started' = sessionFile.started /\ session' = sessionFile.session
        /\ UNCHANGED <<passed, base, durable, baselineFile, sessionFile, first, before, outage, torn,
                       reloads, crashes, faults>>
    BY <1>19 DEF Start
  <2>2. Orderly
    BY <1>1, <2>1 DEF Orderly
  <2>3. /\ tracker' = tracker /\ polled' = polled /\ started' = started /\ session' = session
        /\ hot = {} /\ interval = {} /\ base = 0 /\ ~torn
    BY <1>1, <2>1, <2>2
  <2>4. WindowLags'
    BY <2>1 DEF Window!Confirmed
  <2>5. LoopIsOrderly' /\ StopSaves'
    BY <2>1, <2>3
  <2>6. PolledSinceFirst' /\ SessionIsExact' /\ MetricsAreExact'
    <3>1. PolledSinceFirst /\ SessionIsExact /\ MetricsAreExact
      BY <1>1, <2>2
    <3> QED BY ONLY <2>1, <2>3, <3>1 DEF PolledSinceFirst, SessionIsExact, MetricsAreExact
  <2> QED BY <2>4, <2>5, <2>6
<1>20. CASE UNCHANGED vars
  BY <1>1, <1>20 DEF vars, Orderly
<1> QED
  BY <1>1, <1>4, <1>5, <1>6, <1>7, <1>8, <1>9, <1>10, <1>11, <1>12, <1>13, <1>14, <1>15,
     <1>16, <1>17, <1>18, <1>19, <1>20 DEF Next

\* While nothing fails, the session and the metrics hold every unit polled exactly once,
\* for any traffic and any number of stops and starts.
THEOREM OrderlyMeteringIsExact == Spec => []OrderlyRunsAreExact
<1>1. Init => OrderlyInv
  BY DEF Init, OrderlyInv, Orderly, LoopIsOrderly, PolledSinceFirst, SessionIsExact, StopSaves,
         WindowLags, MetricsAreExact, NoBaseline, Window!Confirmed
<1>2. IInv /\ OrderlyInv => OrderlyRunsAreExact
  BY DEF IInv, Stored, Counted, OrderlyInv, Orderly, LoopIsOrderly, SessionIsExact, MetricsAreExact,
         OrderlyRunsAreExact
<1> QED
  BY <1>1, <1>2, InitTypes, InitIInv, NextIInv, NextTypes, NextOrderly, PTL DEF Spec

================================================================================
