------------------------------- MODULE AlertEvents -------------------------------
(***************************************************************************)
(* Two engines that keep a level in memory and write an event for every    *)
(* change of it into events.jsonl: the traffic alert of the sampling loop  *)
(* (app/agent.py) and the daily-usage guards of the remote servers         *)
(* (resources/network/billing_policy.py).  Each sample evaluates the one,  *)
(* then the other; a write that fails ends the sample there.  Time is the  *)
(* age of a sample in ticks; notifications and snapshots of connections    *)
(* follow an event and are left out.                                       *)
(***************************************************************************)
EXTENDS Naturals, Sequences, FiniteSets, Functions, SequencesExt, FiniteSetsExt

CONSTANTS
    Intervals,          \* what a sample may measure: [realtime, up, down]
    WarningWindow, CriticalWindow,     \* in ticks
    WarningBytes, CriticalBytes,
    Policies,           \* daily-usage policies
    Usages,             \* bytes a server may have used today
    GuardWarning, GuardCritical,
    MaxAlertFaults      \* writes that fail, and restarts

ASSUME AlertAssumption ==
    /\ IsFiniteSet(Policies) /\ "mihomo" \notin Policies
    /\ CriticalWindow \in Nat /\ MaxAlertFaults \in Nat

VARIABLES
    history,            \* samples of the critical window, oldest first, with their age
    traffic,            \* AlertEngine: its level is the stabilizer's status
    guards,             \* BillingBudgetEngine.levels
    alertPc,            \* "sample", or which events are being written
    outbox,             \* events of the step under way
    toldLevel,          \* per source, the level of its last event
    wrong,              \* observer: sources with an event that does not follow the last one
    amiss,              \* observer: sources that lost an event or forgot a level
    alertFaults

alertVars == <<history, traffic, guards, alertPc, outbox, toldLevel, wrong, amiss, alertFaults>>

TrafficWindow == INSTANCE StatusStabilizer
    WITH Rank <- [none |-> 0, warning |-> 1, critical |-> 2], WorsenAfter <- 2, RecoverAfter <- 2

AlertSources == {"mihomo"} \cup Policies
Severity == TrafficWindow!Status

EventType(previous, level) ==
    CASE level = "none" -> "recovered"
      [] previous = "critical" /\ level = "warning" -> "deescalated"
      [] OTHER -> "alert"

EventOfChange(source, previous, level) ==
    [source |-> source, type |-> EventType(previous, level), level |-> level]

\* mutant: a recovery is no event
Worsening(source, previous, level) ==
    IF previous = level \/ level = "none" THEN <<>> ELSE <<EventOfChange(source, previous, level)>>

Change(source, previous, level) ==
    IF previous = level THEN <<>> ELSE <<EventOfChange(source, previous, level)>>

----------------------------------------------------------------------------
\* totals_for_window: deltas that caught up after a pause are no live traffic.
Total(samples, window, field) ==
    FoldLeft(LAMBDA sum, s : sum + s.interval[field], 0,
             SelectSeq(samples, LAMBDA s : s.age <= window /\ s.interval.realtime))

TrafficLevel(samples) ==
    IF Total(samples, CriticalWindow, "up") + Total(samples, CriticalWindow, "down") > CriticalBytes
    THEN "critical"
    ELSE IF Max({Total(samples, WarningWindow, "up"), Total(samples, WarningWindow, "down")}) > WarningBytes
    THEN "warning" ELSE "none"

\* Samples that are too old leave on the left, up to the first one that is not.
Recent(samples) ==
    LET fresh == {i \in DOMAIN samples : samples[i].age <= CriticalWindow}
    IN  SubSeq(samples, Min(fresh \cup {Len(samples) + 1}), Len(samples))

\* Every sample ages the window; one that the controller did not answer adds nothing to it.
Window(interval, samples) ==
    LET aged == [i \in DOMAIN samples |-> [samples[i] EXCEPT !.age = @ + 1]]
    IN  Recent(IF interval.available THEN Append(aged, [age |-> 0, interval |-> interval]) ELSE aged)

EvaluateTraffic(interval) ==
    /\ alertPc = "sample"
    /\ history' = Window(interval, history)
    /\ traffic' = IF interval.available
                  THEN TrafficWindow!Observe(traffic, TrafficLevel(history'), FALSE) ELSE traffic
    /\ outbox' = Change("mihomo", traffic.status, traffic'.status)
    /\ alertPc' = "traffic"
    /\ UNCHANGED <<guards, toldLevel, wrong, amiss, alertFaults>>

\* usage: bytes of today, per policy whose server is known to the fleet and enabled; the
\* others keep their level.
GuardLevel(p, usage) ==
    IF p \notin DOMAIN usage THEN guards[p]
    ELSE IF usage[p] >= GuardCritical THEN "critical"
    ELSE IF usage[p] >= GuardWarning THEN "warning" ELSE "none"

EvaluateGuards(usage) ==
    /\ alertPc = "traffic" /\ outbox = <<>>
    /\ guards' = [p \in Policies |-> GuardLevel(p, usage)]
    /\ LET changed == SetToSeq({p \in Policies : guards'[p] # guards[p]})
       IN  outbox' = [i \in DOMAIN changed |->
                         EventOfChange(changed[i], guards[changed[i]], guards'[changed[i]])]
    /\ alertPc' = "guards"
    /\ UNCHANGED <<history, traffic, toldLevel, wrong, amiss, alertFaults>>

\* append_jsonl, event by event.
WriteEvent ==
    LET e == Head(outbox)
        last == toldLevel[e.source]
    IN  /\ outbox # <<>>
        /\ toldLevel' = [toldLevel EXCEPT ![e.source] = e.level]
        /\ wrong' = IF e.level # last /\ e.type = EventType(last, e.level)
                    THEN wrong ELSE wrong \cup {e.source}
        /\ outbox' = Tail(outbox)
        /\ UNCHANGED <<history, traffic, guards, alertPc, amiss, alertFaults>>

Unwritten == {outbox[i].source : i \in DOMAIN outbox}

\* The disk is full: the sample ends, and with it the events not yet written; the levels
\* have moved.
WriteEventFails ==
    /\ outbox # <<>> /\ alertFaults < MaxAlertFaults
    /\ outbox' = <<>> /\ alertPc' = "sample"
    /\ amiss' = amiss \cup Unwritten
    /\ alertFaults' = alertFaults + 1
    /\ UNCHANGED <<history, traffic, guards, toldLevel, wrong>>

EndSample ==
    /\ alertPc = "guards" /\ outbox = <<>>
    /\ alertPc' = "sample"
    /\ UNCHANGED <<history, traffic, guards, outbox, toldLevel, wrong, amiss, alertFaults>>

\* A new process reads the window that the last flush saved; it knows no level.
RestartAlerts ==
    /\ alertFaults < MaxAlertFaults
    /\ \E k \in 0 .. Len(history) : history' = SubSeq(history, 1, k)
    /\ traffic' = TrafficWindow!Confirmed("none") /\ guards' = [p \in Policies |-> "none"]
    /\ alertPc' = "sample" /\ outbox' = <<>>
    /\ amiss' = amiss \cup Unwritten \cup {s \in AlertSources : toldLevel[s] # "none"}
    /\ alertFaults' = alertFaults + 1
    /\ UNCHANGED <<toldLevel, wrong>>

AlertInit ==
    /\ history = <<>>
    /\ traffic = TrafficWindow!Confirmed("none") /\ guards = [p \in Policies |-> "none"]
    /\ alertPc = "sample" /\ outbox = <<>>
    /\ toldLevel = [s \in AlertSources |-> "none"]
    /\ wrong = {} /\ amiss = {} /\ alertFaults = 0

AlertNext ==
    \/ \E interval \in Intervals : EvaluateTraffic(interval)
    \/ \E enabled \in SUBSET Policies : \E usage \in [enabled -> Usages] : EvaluateGuards(usage)
    \/ WriteEvent \/ WriteEventFails \/ EndSample \/ RestartAlerts

AlertSpec == AlertInit /\ [][AlertNext]_alertVars

----------------------------------------------------------------------------
\* The values of the two engines' state; no event waits between samples.
AlertTypeOK ==
    /\ traffic \in TrafficWindow!Stabilizer /\ guards \in [Policies -> Severity]
    /\ \A i \in DOMAIN history : history[i].age <= CriticalWindow /\ history[i].interval \in Intervals
    /\ alertPc \in {"sample", "traffic", "guards"} /\ toldLevel \in [AlertSources -> Severity]
    /\ alertPc = "sample" => outbox = <<>>
    /\ wrong \cup amiss \subseteq AlertSources /\ alertFaults \in 0 .. MaxAlertFaults

CurrentLevel(s) == IF s = "mihomo" THEN traffic.status ELSE guards[s]

\* The events of a source tell its level: each is a change from the last one, of the type
\* that the two levels call for, and between samples the last one is the level shown -- unless
\* a failed write took an event, or a restart forgot a level that was told (agent.py:269,
\* billing_policy.py:78).
EventsTellTheLevels ==
    \A s \in AlertSources \ amiss :
        s \notin wrong /\ (alertPc = "sample" => toldLevel[s] = CurrentLevel(s))
==================================================================================
