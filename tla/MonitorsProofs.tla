----------------------------- MODULE MonitorsProofs -----------------------------
(***************************************************************************)
(* For any policies, thresholds, windows, providers, facilities, releases, *)
(* users, processes and number of faults: the events of an alert engine    *)
(* tell the levels it shows, no upstream level is published whose changes  *)
(* were not written before, what is known of a facility is what it         *)
(* answered for the registration read last, the prices in use never go     *)
(* back, the totals of an Xray session hold no byte twice, and neither do  *)
(* the points of the host and its apps.                                    *)
(***************************************************************************)
EXTENDS Monitors, SumTheorems, TLAPS

-------------------------------------------------------------------------------
(* Alerts and guards (app/agent.py, resources/network/billing_policy.py). *)

AlertEvent == [source : AlertSources, type : {"recovered", "deescalated", "alert"}, level : Severity]

\* Of a source whose events were all written, the last one gives the level, except for one
\* event that waits and leads from the one to the other.
Told(s) ==
    /\ s \notin wrong
    /\ s \notin Unwritten => toldLevel[s] = CurrentLevel(s)
    /\ \A i \in DOMAIN outbox : outbox[i].source = s =>
        /\ outbox[i].level = CurrentLevel(s) /\ outbox[i].level # toldLevel[s]
        /\ outbox[i].type = EventType(toldLevel[s], outbox[i].level)

AlertInv ==
    /\ traffic \in TrafficWindow!Stabilizer
    /\ guards \in [Policies -> Severity] /\ toldLevel \in [AlertSources -> Severity]
    /\ outbox \in Seq(AlertEvent)
    /\ alertPc \in {"sample", "traffic", "guards"} /\ (alertPc = "sample" => outbox = <<>>)
    /\ \A i, j \in DOMAIN outbox : outbox[i].source = outbox[j].source => i = j
    /\ \A s \in AlertSources \ amiss : Told(s)

\* The levels of an alert are three.
LEMMA Levels == Severity = {"none", "warning", "critical"}
  BY DEF Severity, TrafficWindow!Status

\* What the window of the traffic alert becomes is a window again.
LEMMA ObservedTraffic ==
  ASSUME NEW s \in TrafficWindow!Stabilizer, NEW level \in Severity
  PROVE  TrafficWindow!Observe(s, level, FALSE) \in TrafficWindow!Stabilizer
<1> DEFINE count == IF s.pending = level THEN s.count + 1 ELSE 1
<1>1. count \in Nat
  BY DEF TrafficWindow!Stabilizer
<1>2. TrafficWindow!Confirmed(level) \in TrafficWindow!Stabilizer
  BY DEF TrafficWindow!Confirmed, TrafficWindow!Stabilizer, Severity
<1>3. [s EXCEPT !.pending = level, !.count = count] \in TrafficWindow!Stabilizer
  BY <1>1 DEF TrafficWindow!Stabilizer, Severity
<1>4. QED
  BY <1>2, <1>3 DEF TrafficWindow!Observe

\* The event of a change has its source, its level and the type of the change.
LEMMA EventIsTyped ==
  ASSUME NEW s \in AlertSources, NEW old, NEW level \in Severity
  PROVE  /\ EventOfChange(s, old, level) \in AlertEvent
         /\ EventOfChange(s, old, level).source = s
         /\ EventOfChange(s, old, level).level = level
         /\ EventOfChange(s, old, level).type = EventType(old, level)
  BY DEF EventOfChange, AlertEvent, EventType

\* The invariant holds initially.
LEMMA InitAlertInv == AlertInit => AlertInv
<1> SUFFICES ASSUME AlertInit PROVE AlertInv
  OBVIOUS
<1>1. traffic \in TrafficWindow!Stabilizer /\ traffic.status = "none"
  BY DEF AlertInit, TrafficWindow!Confirmed, TrafficWindow!Stabilizer, TrafficWindow!Status
<1>2. outbox = <<>> /\ DOMAIN outbox = {} /\ outbox \in Seq(AlertEvent)
  BY DEF AlertInit
<1>3. \A s \in AlertSources : Told(s)
  BY <1>1, <1>2, AlertAssumption DEF AlertInit, Told, CurrentLevel, AlertSources
<1>4. QED
  BY <1>1, <1>2, <1>3, Levels DEF AlertInit, AlertInv

\* A sample of the traffic: at most one event, of a source that had none waiting.
LEMMA TrafficKeepsInv ==
  ASSUME AlertInv, NEW interval \in Intervals, EvaluateTraffic(interval) PROVE AlertInv'
<1> DEFINE event == EventOfChange("mihomo", traffic.status, traffic'.status)
<1>1. outbox = <<>> /\ DOMAIN outbox = {}
  BY DEF AlertInv, EvaluateTraffic
<1>2. traffic' \in TrafficWindow!Stabilizer
  <2>1. TrafficLevel(history') \in Severity
    BY Levels DEF TrafficLevel
  <2>2. QED
    BY <2>1, ObservedTraffic DEF AlertInv, EvaluateTraffic
<1>3. traffic.status \in Severity /\ traffic'.status \in Severity
  BY <1>2 DEF AlertInv, TrafficWindow!Stabilizer, Severity
<1>4. /\ event \in AlertEvent /\ event.source = "mihomo" /\ event.level = traffic'.status
      /\ event.type = EventType(traffic.status, traffic'.status)
  BY <1>3, EventIsTyped DEF AlertSources
<1>5. \A s \in AlertSources \ amiss : s \notin wrong /\ toldLevel[s] = CurrentLevel(s)
  BY <1>1 DEF AlertInv, Told, Unwritten
<1>6. \A s \in AlertSources : s # "mihomo" => CurrentLevel(s)' = CurrentLevel(s)
  BY DEF EvaluateTraffic, CurrentLevel
<1>7. CurrentLevel("mihomo") = traffic.status /\ CurrentLevel("mihomo")' = traffic'.status
  BY DEF CurrentLevel
<1>8. CASE traffic.status = traffic'.status
  <2>1. outbox' = <<>> /\ DOMAIN outbox' = {}
    BY <1>8 DEF EvaluateTraffic, Change
  <2>2. \A s \in AlertSources \ amiss' : Told(s)'
    BY <2>1, <1>5, <1>6, <1>7, <1>8 DEF EvaluateTraffic, Told
  <2>3. QED
    BY <2>1, <2>2, <1>2 DEF EvaluateTraffic, AlertInv
<1>9. CASE traffic.status # traffic'.status
  <2> HIDE DEF event
  <2>1. outbox' = <<event>> /\ DOMAIN outbox' = {1} /\ outbox'[1] = event
    <3>1. outbox' = <<event>>
      BY <1>9 DEF EvaluateTraffic, Change, event
    <3>2. QED
      BY <3>1
  <2>2. Unwritten' = {"mihomo"}
    BY <2>1, <1>4 DEF Unwritten
  <2>3. toldLevel' = toldLevel /\ wrong' = wrong /\ amiss' = amiss /\ guards' = guards
        /\ alertPc' = "traffic"
    BY DEF EvaluateTraffic
  <2>4. \A s \in AlertSources \ amiss' : Told(s)'
    <3> SUFFICES ASSUME NEW s \in AlertSources, s \notin amiss' PROVE Told(s)'
      OBVIOUS
    <3>1. s \notin wrong' /\ toldLevel'[s] = CurrentLevel(s)
      BY <1>5, <2>3
    <3>2. CASE s = "mihomo"
      BY <3>1, <3>2, <2>1, <2>2, <1>4, <1>7, <1>9 DEF Told
    <3>3. CASE s # "mihomo"
      BY <3>1, <3>3, <2>1, <2>2, <1>4, <1>6 DEF Told
    <3>4. QED
      BY <3>2, <3>3
  <2>5. outbox' \in Seq(AlertEvent)
    BY <2>1, <1>4
  <2>6. \A i, j \in DOMAIN outbox' : outbox'[i].source = outbox'[j].source => i = j
    BY <2>1
  <2>7. guards \in [Policies -> Severity] /\ toldLevel \in [AlertSources -> Severity]
    BY DEF AlertInv
  <2>8. QED
    BY <2>3, <2>4, <2>5, <2>6, <2>7, <1>2 DEF AlertInv
<1>10. QED
  BY <1>8, <1>9

\* A sample of the guards: one event for each policy whose level changes.
LEMMA GuardsKeepInv ==
  ASSUME AlertInv, NEW enabled \in SUBSET Policies, NEW usage \in [enabled -> Usages],
         EvaluateGuards(usage)
  PROVE  AlertInv'
<1> DEFINE S == {p \in Policies : guards'[p] # guards[p]}
           n == Cardinality(S)
           changed == SetToSeq(S)
<1>1. outbox = <<>> /\ DOMAIN outbox = {}
  BY DEF EvaluateGuards
<1>2. guards' \in [Policies -> Severity]
  BY Levels DEF AlertInv, EvaluateGuards, GuardLevel
<1>3. /\ n \in Nat /\ changed \in [1 .. n -> S]
      /\ \A i, j \in 1 .. n : changed[i] = changed[j] => i = j
      /\ \A x \in S : \E i \in 1 .. n : changed[i] = x
  <2>1. IsFiniteSet(S)
    BY AlertAssumption, FS_Subset
  <2>2. QED
    BY <2>1, EachOnce
<1>4. outbox' = [i \in 1 .. n |-> EventOfChange(changed[i], guards[changed[i]], guards'[changed[i]])]
  BY <1>3 DEF EvaluateGuards
<1>5. \A i \in 1 .. n :
         /\ changed[i] \in Policies /\ guards'[changed[i]] # guards[changed[i]]
         /\ outbox'[i] \in AlertEvent /\ outbox'[i].source = changed[i]
         /\ outbox'[i].level = guards'[changed[i]]
         /\ outbox'[i].type = EventType(guards[changed[i]], guards'[changed[i]])
  <2> TAKE i \in 1 .. n
  <2>1. changed[i] \in Policies /\ guards'[changed[i]] # guards[changed[i]]
    BY <1>3
  <2>2. changed[i] \in AlertSources /\ guards'[changed[i]] \in Severity
    BY <2>1, <1>2 DEF AlertSources
  <2>3. outbox'[i] = EventOfChange(changed[i], guards[changed[i]], guards'[changed[i]])
    BY <1>4
  <2>4. /\ EventOfChange(changed[i], guards[changed[i]], guards'[changed[i]]) \in AlertEvent
        /\ EventOfChange(changed[i], guards[changed[i]], guards'[changed[i]]).source = changed[i]
        /\ EventOfChange(changed[i], guards[changed[i]], guards'[changed[i]]).level = guards'[changed[i]]
        /\ EventOfChange(changed[i], guards[changed[i]], guards'[changed[i]]).type
             = EventType(guards[changed[i]], guards'[changed[i]])
    <3> DEFINE was == guards[changed[i]]
               now == guards'[changed[i]]
    <3>1. changed[i] \in AlertSources /\ now \in Severity
      BY <2>2
    <3> HIDE DEF was, now, changed
    <3>2. /\ EventOfChange(changed[i], was, now) \in AlertEvent
          /\ EventOfChange(changed[i], was, now).source = changed[i]
          /\ EventOfChange(changed[i], was, now).level = now
          /\ EventOfChange(changed[i], was, now).type = EventType(was, now)
      BY <3>1, EventIsTyped
    <3>3. QED
      BY <3>2 DEF was, now
  <2> HIDE DEF changed
  <2>5. QED
    BY <2>1, <2>3, <2>4
<1>6. outbox' \in Seq(AlertEvent) /\ DOMAIN outbox' = 1 .. n
  <2> HIDE DEF n, changed
  <2>1. outbox' \in [1 .. n -> AlertEvent]
    BY <1>4, <1>5
  <2>2. QED
    BY <1>3, <2>1
<1>7. Unwritten' = S
  <2> HIDE DEF n, changed
  <2>1. Unwritten' = {outbox'[i].source : i \in 1 .. n}
    BY <1>6 DEF Unwritten
  <2>2. \A i \in 1 .. n : outbox'[i].source = changed[i] /\ changed[i] \in S
    BY <1>3, <1>5
  <2>3. \A x \in S : \E i \in 1 .. n : outbox'[i].source = x
    BY <1>3, <2>2
  <2> HIDE DEF S
  <2>4. QED
    BY <2>1, <2>2, <2>3
<1>8. \A s \in AlertSources \ amiss' : Told(s)'
  <2> SUFFICES ASSUME NEW s \in AlertSources, s \notin amiss' PROVE Told(s)'
    OBVIOUS
  <2>1. s \notin wrong' /\ toldLevel'[s] = CurrentLevel(s)
    BY <1>1 DEF EvaluateGuards, AlertInv, Told, Unwritten
  <2>2. CASE s = "mihomo"
    <3>1. CurrentLevel(s)' = CurrentLevel(s) /\ s \notin Unwritten'
      BY <2>2, <1>7, AlertAssumption DEF EvaluateGuards, CurrentLevel
    <3>2. \A i \in DOMAIN outbox' : outbox'[i].source # s
      BY <2>2, <1>5, <1>6, AlertAssumption
    <3>3. QED
      BY <2>1, <3>1, <3>2 DEF Told
  <2>3. CASE s # "mihomo"
    <3>1. CurrentLevel(s) = guards[s] /\ CurrentLevel(s)' = guards'[s] /\ s \in Policies
      BY <2>3 DEF CurrentLevel, AlertSources
    <3>2. s \notin Unwritten' => guards'[s] = guards[s]
      BY <3>1, <1>7
    <3>3. QED
      BY <2>1, <3>1, <3>2, <1>5, <1>6 DEF Told
  <2>4. QED
    BY <2>2, <2>3
<1>9. \A i, j \in DOMAIN outbox' : outbox'[i].source = outbox'[j].source => i = j
  BY <1>3, <1>5, <1>6
<1>10. /\ traffic' = traffic /\ toldLevel' = toldLevel /\ alertPc' = "guards"
       /\ traffic \in TrafficWindow!Stabilizer /\ toldLevel \in [AlertSources -> Severity]
  BY DEF EvaluateGuards, AlertInv
<1>11. QED
  BY <1>2, <1>6, <1>8, <1>9, <1>10 DEF AlertInv

\* One event is written: it follows the last one of its source and gives its level.
LEMMA WriteKeepsInv == ASSUME AlertInv, WriteEvent PROVE AlertInv'
<1> DEFINE e == Head(outbox)
           n == Len(outbox)
<1>1. /\ outbox \in Seq(AlertEvent) /\ n \in Nat \ {0} /\ DOMAIN outbox = 1 .. n
      /\ e = outbox[1] /\ e \in AlertEvent
  BY DEF AlertInv, WriteEvent
<1>2. /\ outbox' \in Seq(AlertEvent) /\ DOMAIN outbox' = 1 .. (n - 1)
      /\ \A i \in 1 .. (n - 1) : outbox'[i] = outbox[i + 1]
  BY <1>1 DEF WriteEvent
<1>3. e.source \in AlertSources /\ e.level \in Severity
  BY <1>1 DEF AlertEvent
<1>4. \A i \in 1 .. n : outbox[i].source = e.source => i = 1
  BY <1>1 DEF AlertInv
<1>5. \A i \in DOMAIN outbox' : outbox'[i].source # e.source
  BY <1>1, <1>2, <1>4
<1>6. Unwritten' = Unwritten \ {e.source}
  <2>1. Unwritten = {outbox[i].source : i \in 1 .. n}
    BY <1>1 DEF Unwritten
  <2>2. Unwritten' = {outbox[i + 1].source : i \in 1 .. (n - 1)}
    BY <1>2 DEF Unwritten
  <2>3. \A i \in 1 .. n : i = 1 \/ (i - 1 \in 1 .. (n - 1) /\ (i - 1) + 1 = i)
    BY <1>1
  <2>4. \A i \in 1 .. (n - 1) : i + 1 \in 1 .. n /\ outbox[i + 1].source # e.source
    BY <1>1, <1>4
  <2>5. \A x \in Unwritten' : x \in Unwritten /\ x # e.source
    BY <2>1, <2>2, <2>4
  <2>6. \A x \in Unwritten : x # e.source => x \in Unwritten'
    <3> SUFFICES ASSUME NEW i \in 1 .. n, outbox[i].source # e.source
                 PROVE  outbox[i].source \in Unwritten'
      BY <2>1
    <3>1. i # 1
      BY <1>1
    <3>2. QED
      BY <3>1, <2>2, <2>3
  <2>7. QED
    BY <2>5, <2>6
<1>7. toldLevel' \in [AlertSources -> Severity]
  BY <1>3 DEF AlertInv, WriteEvent
<1>8. \A s : CurrentLevel(s)' = CurrentLevel(s)
  BY DEF WriteEvent, CurrentLevel
<1>9. \A s \in AlertSources \ amiss' : Told(s)'
  <2> SUFFICES ASSUME NEW s \in AlertSources, s \notin amiss' PROVE Told(s)'
    OBVIOUS
  <2>1. Told(s)
    BY DEF AlertInv, WriteEvent
  <2>2. CASE s = e.source
    <3>1. /\ e.level = CurrentLevel(s) /\ e.level # toldLevel[s]
          /\ e.type = EventType(toldLevel[s], e.level)
      BY <2>1, <2>2, <1>1 DEF Told
    <3>2. toldLevel'[s] = e.level /\ wrong' = wrong
      BY <3>1, <2>2 DEF WriteEvent, AlertInv
    <3>3. QED
      BY <2>1, <2>2, <3>1, <3>2, <1>5, <1>8 DEF Told
  <2>3. CASE s # e.source
    <3>1. toldLevel'[s] = toldLevel[s] /\ s \notin wrong'
      BY <2>1, <2>3 DEF WriteEvent, AlertInv, Told
    <3>2. s \notin Unwritten' => toldLevel'[s] = CurrentLevel(s)'
      BY <2>1, <2>3, <3>1, <1>6, <1>8 DEF Told
    <3>3. \A i \in DOMAIN outbox' : i + 1 \in DOMAIN outbox /\ outbox'[i] = outbox[i + 1]
      BY <1>1, <1>2
    <3>4. QED
      BY <2>1, <3>1, <3>2, <3>3, <1>8 DEF Told
  <2>4. QED
    BY <2>2, <2>3
<1>10. \A i, j \in DOMAIN outbox' : outbox'[i].source = outbox'[j].source => i = j
  <2>1. \A i \in DOMAIN outbox' : i + 1 \in DOMAIN outbox /\ outbox'[i] = outbox[i + 1] /\ i \in Int
    BY <1>1, <1>2
  <2>2. \A i, j \in DOMAIN outbox : outbox[i].source = outbox[j].source => i = j
    BY DEF AlertInv
  <2>3. \A i, j \in DOMAIN outbox' : outbox'[i].source = outbox'[j].source => i + 1 = j + 1
    BY <2>1, <2>2
  <2>4. \A i, j \in DOMAIN outbox' : i + 1 = j + 1 => i = j
    BY <2>1
  <2>5. QED
    BY <2>3, <2>4
<1>11. alertPc' # "sample"
  BY DEF AlertInv, WriteEvent
<1>12. QED
  BY <1>2, <1>7, <1>9, <1>10, <1>11 DEF AlertInv, WriteEvent

\* A failed write, the end of a sample and a restart: what is not told is amiss.
LEMMA RestKeepsInv ==
  ASSUME AlertInv, WriteEventFails \/ EndSample \/ RestartAlerts PROVE AlertInv'
<1>1. CASE WriteEventFails
  <2>1. outbox' = <<>> /\ DOMAIN outbox' = {} /\ outbox' \in Seq(AlertEvent)
    BY <1>1 DEF WriteEventFails
  <2>2. \A s \in AlertSources \ amiss' : s \notin wrong /\ toldLevel[s] = CurrentLevel(s)
    BY <1>1 DEF WriteEventFails, AlertInv, Told
  <2>3. \A s \in AlertSources \ amiss' : Told(s)'
    BY <1>1, <2>1, <2>2 DEF WriteEventFails, Told, CurrentLevel
  <2>4. QED
    BY <1>1, <2>1, <2>3 DEF WriteEventFails, AlertInv
<1>2. CASE EndSample
  BY <1>2 DEF EndSample, AlertInv, Told, CurrentLevel, Unwritten
<1>3. CASE RestartAlerts
  <2>1. outbox' = <<>> /\ DOMAIN outbox' = {} /\ outbox' \in Seq(AlertEvent)
    BY <1>3 DEF RestartAlerts
  <2>2. traffic' \in TrafficWindow!Stabilizer /\ traffic'.status = "none"
    BY <1>3 DEF RestartAlerts, TrafficWindow!Confirmed, TrafficWindow!Stabilizer, TrafficWindow!Status
  <2>3. guards' \in [Policies -> Severity] /\ \A p \in Policies : guards'[p] = "none"
    BY <1>3, Levels DEF RestartAlerts
  <2>4. \A s \in AlertSources \ amiss' : s \notin wrong' /\ toldLevel'[s] = "none"
    BY <1>3 DEF RestartAlerts, AlertInv, Told
  <2>5. \A s \in AlertSources \ amiss' : Told(s)'
    BY <2>1, <2>2, <2>3, <2>4 DEF Told, CurrentLevel, AlertSources
  <2>6. QED
    BY <1>3, <2>1, <2>2, <2>3, <2>5 DEF RestartAlerts, AlertInv
<1>4. QED
  BY <1>1, <1>2, <1>3

\* Every step keeps it: one case per action.
LEMMA NextAlertInv == AlertInv /\ [AlertNext]_alertVars => AlertInv'
<1> SUFFICES ASSUME AlertInv, [AlertNext]_alertVars PROVE AlertInv'
  OBVIOUS
<1>1. CASE AlertNext
  BY <1>1, TrafficKeepsInv, GuardsKeepInv, WriteKeepsInv, RestKeepsInv DEF AlertNext
<1>2. CASE UNCHANGED alertVars
  BY <1>2 DEF alertVars, AlertInv, Told, CurrentLevel, Unwritten
<1>3. QED
  BY <1>1, <1>2

\* The inductive invariant of the two engines.
THEOREM AlertInvariance == AlertSpec => []AlertInv
<1>1. QED
  BY InitAlertInv, NextAlertInv, PTL DEF AlertSpec

\* Events tell the levels (agent.py:269, billing_policy.py:78).
THEOREM EventsAreTold == AlertSpec => []EventsTellTheLevels
<1>1. AlertInv => EventsTellTheLevels
  <2> SUFFICES ASSUME AlertInv, NEW s \in AlertSources \ amiss
               PROVE  s \notin wrong /\ (alertPc = "sample" => toldLevel[s] = CurrentLevel(s))
    BY DEF EventsTellTheLevels
  <2>1. alertPc = "sample" => Unwritten = {}
    BY DEF AlertInv, Unwritten
  <2>2. QED
    BY <2>1 DEF AlertInv, Told
<1>2. QED
  BY <1>1, AlertInvariance, PTL
-------------------------------------------------------------------------------
(* The window of the traffic alert. *)

Aged == [age : Nat, interval : Intervals]

\* No sample of the window is older than it, and the oldest ones come first.
Ordered(samples) == \A i, j \in DOMAIN samples : i < j => samples[j].age <= samples[i].age

AlertTypesInv ==
    /\ history \in Seq(Aged) /\ Ordered(history)
    /\ \A i \in DOMAIN history : history[i].age <= CriticalWindow
    /\ wrong \subseteq AlertSources /\ amiss \subseteq AlertSources /\ alertFaults \in 0 .. MaxAlertFaults

\* What leaves on the left is all that is too old.
LEMMA RecentKeeps ==
  ASSUME NEW samples \in Seq(Aged), Ordered(samples)
  PROVE  /\ Recent(samples) \in Seq(Aged) /\ Ordered(Recent(samples))
         /\ \A i \in DOMAIN Recent(samples) : Recent(samples)[i].age <= CriticalWindow
<1> DEFINE n == Len(samples)
           fresh == {i \in DOMAIN samples : samples[i].age <= CriticalWindow}
           m == Min(fresh \cup {n + 1})
<1>1. n \in Nat /\ DOMAIN samples = 1 .. n /\ \A i \in 1 .. n : samples[i] \in Aged
  OBVIOUS
<1>2. m \in fresh \cup {n + 1} /\ \A i \in fresh \cup {n + 1} : m <= i
  <2>1. fresh \cup {n + 1} \in SUBSET Nat /\ fresh \cup {n + 1} # {}
    BY <1>1
  <2>2. \E x \in fresh \cup {n + 1} : \A y \in fresh \cup {n + 1} : x <= y
    BY <2>1, LeastElement
  <2>3. QED
    BY <2>2 DEF Min
<1>3. m \in 1 .. n + 1
  BY <1>1, <1>2
<1> HIDE DEF m
<1>4. Recent(samples) = SubSeq(samples, m, n)
  BY DEF Recent, m
<1>5. /\ Recent(samples) \in Seq(Aged) /\ DOMAIN Recent(samples) = 1 .. n - m + 1
      /\ \A i \in 1 .. n - m + 1 : Recent(samples)[i] = samples[i + m - 1] /\ i + m - 1 \in 1 .. n
  BY <1>1, <1>3, <1>4
<1>6. Ordered(Recent(samples))
  <2> DEFINE recent == Recent(samples)
  <2>1. \A i, j \in 1 .. n - m + 1 : i < j => i + m - 1 < j + m - 1
    BY <1>1, <1>3
  <2>2. ASSUME NEW i \in 1 .. n - m + 1, NEW j \in 1 .. n - m + 1, i < j
        PROVE  recent[j].age <= recent[i].age
    <3>1. samples[j + m - 1].age <= samples[i + m - 1].age
      BY <1>1, <1>5, <2>1, <2>2 DEF Ordered
    <3>2. QED
      BY <1>5, <2>2, <3>1
  <2> HIDE DEF recent
  <2>3. QED
    BY <1>5, <2>2 DEF Ordered, recent
<1>7. ASSUME NEW i \in DOMAIN Recent(samples) PROVE Recent(samples)[i].age <= CriticalWindow
  <2>1. m \in fresh
    BY <1>1, <1>2, <1>3, <1>5, <1>7
  <2>2. samples[m].age <= CriticalWindow /\ samples[m].age \in Nat
    BY <1>1, <2>1 DEF Aged
  <2>3. i + m - 1 \in 1 .. n /\ Recent(samples)[i] = samples[i + m - 1] /\ i \in Nat /\ i >= 1
    BY <1>5, <1>7
  <2>4. samples[i + m - 1].age <= samples[m].age /\ samples[i + m - 1].age \in Nat
    <3>1. i + m - 1 = m \/ m < i + m - 1
      BY <1>1, <1>3, <2>3
    <3>2. m \in 1 .. n
      BY <1>1, <2>1
    <3>3. samples[i + m - 1].age <= samples[m].age
      BY <1>1, <2>2, <2>3, <3>1, <3>2 DEF Ordered
    <3>4. QED
      BY <1>1, <2>3, <3>3 DEF Aged
  <2>5. QED
    BY <2>2, <2>3, <2>4, AlertAssumption
<1>8. QED
  BY <1>5, <1>6, <1>7

\* The popped window holds ordered samples, none older than the longest window.
LEMMA WindowKeeps ==
  ASSUME NEW samples \in Seq(Aged), Ordered(samples), NEW interval \in Intervals
  PROVE  /\ Window(interval, samples) \in Seq(Aged) /\ Ordered(Window(interval, samples))
         /\ \A i \in DOMAIN Window(interval, samples) : Window(interval, samples)[i].age <= CriticalWindow
<1> DEFINE n == Len(samples)
           aged == [i \in DOMAIN samples |-> [samples[i] EXCEPT !.age = @ + 1]]
           new == [age |-> 0, interval |-> interval]
           more == Append(aged, new)
<1>1. n \in Nat /\ DOMAIN samples = 1 .. n /\ \A i \in 1 .. n : samples[i] \in Aged
  OBVIOUS
<1>2. \A i \in 1 .. n : /\ aged[i] \in Aged /\ aged[i].age = samples[i].age + 1 /\ samples[i].age \in Nat
  BY <1>1 DEF Aged
<1>3. aged \in Seq(Aged) /\ Len(aged) = n /\ DOMAIN aged = 1 .. n
  <2>1. aged \in [1 .. n -> Aged]
    BY <1>1, <1>2
  <2> HIDE DEF aged
  <2>2. QED
    BY <1>1, <2>1
<1>4. Ordered(aged)
  <2>1. SUFFICES ASSUME NEW i \in 1 .. n, NEW j \in 1 .. n, i < j
                 PROVE  aged[j].age <= aged[i].age
    BY <1>3 DEF Ordered
  <2>2. samples[j].age <= samples[i].age
    BY <1>1, <2>1 DEF Ordered
  <2> HIDE DEF aged
  <2>3. QED
    BY <1>2, <2>2
<1>5. new \in Aged /\ new.age = 0
  BY DEF Aged
<1> HIDE DEF aged, new
<1>6. more \in Seq(Aged) /\ Ordered(more)
  <2>1. /\ more \in Seq(Aged) /\ DOMAIN more = 1 .. n + 1
        /\ \A i \in 1 .. n : more[i] = aged[i]
        /\ more[n + 1] = new
    BY <1>1, <1>3, <1>5
  <2>2. \A i, j \in 1 .. n + 1 : i < j => i \in 1 .. n /\ (j \in 1 .. n \/ j = n + 1)
    BY <1>1
  <2>3. \A i \in 1 .. n : aged[i].age \in Nat
    BY <1>2
  <2> HIDE DEF more
  <2>4. QED
    BY <1>3, <1>4, <1>5, <2>1, <2>2, <2>3 DEF Ordered
<1>7. Window(interval, samples) = Recent(IF interval.available THEN more ELSE aged)
  BY DEF Window, aged, new
<1>8. QED
  BY <1>3, <1>4, <1>6, <1>7, RecentKeeps

\* Every step keeps the types: one case per action.
LEMMA AlertTypesStep ==
  ASSUME AlertInv, AlertTypesInv, [AlertNext]_alertVars
  PROVE  AlertTypesInv'
<1> USE AlertAssumption DEF AlertTypesInv
<1>1. ASSUME NEW interval \in Intervals, EvaluateTraffic(interval) PROVE AlertTypesInv'
  BY <1>1, WindowKeeps DEF EvaluateTraffic
<1>2. ASSUME NEW usage, EvaluateGuards(usage) PROVE AlertTypesInv'
  BY <1>2 DEF EvaluateGuards
<1>3. CASE WriteEvent
  <2>1. Head(outbox) \in AlertEvent
    BY <1>3 DEF WriteEvent, AlertInv
  <2>2. Head(outbox).source \in AlertSources
    BY <2>1 DEF AlertEvent
  <2>3. QED
    BY <1>3, <2>2 DEF WriteEvent
<1>4. Unwritten \subseteq AlertSources
  <2>1. \A i \in DOMAIN outbox : outbox[i] \in AlertEvent
    BY DEF AlertInv
  <2>2. QED
    BY <2>1 DEF Unwritten, AlertEvent
<1>5. CASE WriteEventFails
  BY <1>4, <1>5 DEF WriteEventFails
<1>6. CASE EndSample
  BY <1>6 DEF EndSample
<1>7. CASE RestartAlerts
  <2>1. PICK k \in 0 .. Len(history) : history' = SubSeq(history, 1, k)
    BY <1>7 DEF RestartAlerts
  <2>2. /\ Len(history) \in Nat /\ DOMAIN history = 1 .. Len(history)
        /\ history' \in Seq(Aged) /\ DOMAIN history' = 1 .. k
        /\ \A i \in 1 .. k : i \in 1 .. Len(history) /\ history'[i] = history[i]
    BY <2>1
  <2>3. Ordered(history') /\ \A i \in DOMAIN history' : history'[i].age <= CriticalWindow
    BY <2>2 DEF Ordered
  <2>4. QED
    BY <1>4, <1>7, <2>2, <2>3 DEF RestartAlerts
<1>8. CASE UNCHANGED alertVars
  BY <1>8 DEF alertVars
<1>9. QED
  BY <1>1, <1>2, <1>3, <1>5, <1>6, <1>7, <1>8 DEF AlertNext

\* The types of the two alert engines: no sample is older than the window that alerts are
\* raised over, and no event waits between samples (agent.py:812, :814).
THEOREM AlertTypes == AlertSpec => []AlertTypeOK
<1>1. AlertInit => AlertTypesInv
  BY AlertAssumption DEF AlertInit, AlertTypesInv, Ordered
<1>2. AlertInv /\ AlertTypesInv => AlertTypeOK
  <2> SUFFICES ASSUME AlertInv, AlertTypesInv PROVE AlertTypeOK
    OBVIOUS
  <2>1. \A i \in DOMAIN history : history[i].age <= CriticalWindow /\ history[i].interval \in Intervals
    <3>1. \A i \in DOMAIN history : history[i] \in Aged
      BY DEF AlertTypesInv
    <3>2. QED
      BY <3>1 DEF AlertTypesInv, Aged
  <2>2. QED
    BY <2>1 DEF AlertInv, AlertTypesInv, AlertTypeOK
<1>3. AlertInv /\ AlertTypesInv /\ [AlertNext]_alertVars => AlertTypesInv'
  BY AlertTypesStep
<1>4. QED
  BY <1>1, <1>2, <1>3, AlertInvariance, PTL DEF AlertSpec

-------------------------------------------------------------------------------
(* Status pages (resources/upstream/status.py). *)

\* A worst level of healthy leaves no other level beside it.
LEMMA WorstIsHealthy ==
  ASSUME NEW L \in SUBSET Trackable, Worst(L) = "healthy"
  PROVE  \A l \in L : l = "healthy"
<1> DEFINE Top(l) == l \in L /\ \A k \in L : StatusRank[k] <= StatusRank[l]
<1>1. CASE L = {}
  BY <1>1
<1>2. CASE L # {}
  <2>1. \E l : Top(l)
    <3>1. CASE "critical" \in L
      BY <3>1 DEF Trackable, StatusRank
    <3>2. CASE "critical" \notin L /\ "warning" \in L
      BY <3>2 DEF Trackable, StatusRank
    <3>3. CASE "critical" \notin L /\ "warning" \notin L
      BY <1>2, <3>3 DEF Trackable, StatusRank
    <3>4. QED
      BY <3>1, <3>2, <3>3
  <2>2. Worst(L) = CHOOSE l : Top(l)
    BY <1>2 DEF Worst
  <2>3. Top("healthy")
    BY <2>1, <2>2
  <2>4. QED
    BY <2>3 DEF Trackable, StatusRank
<1>3. QED
  BY <1>1, <1>2

\* A page is healthy only if all its matching components are, and no incident concerns them.
LEMMA HealthyPage ==
  ASSUME NEW page, Level(page) = "healthy"
  PROVE  /\ page.format # "failed"
         /\ \A c \in Components(Summary(page)) : c.status = "operational"
         /\ \A i \in Concerning(Summary(page)) : i.impact = "none"
<1> DEFINE summary == Summary(page)
           levels == ComponentLevels(summary) \cup {ImpactLevel(i.impact) : i \in Concerning(summary)}
           tracked == levels \cap Trackable
<1>1. /\ page.format # "failed" /\ Worst(tracked) = "healthy"
      /\ "unknown" \notin ComponentLevels(summary)
  BY DEF Level
<1>2. \A l \in tracked : l = "healthy"
  BY <1>1, WorstIsHealthy
<1>3. \A c \in Components(summary) : c.status = "operational"
  <2> SUFFICES ASSUME NEW c \in Components(summary) PROVE c.status = "operational"
    OBVIOUS
  <2>1. ComponentLevel(c.status) \in ComponentLevels(summary)
    BY DEF ComponentLevels
  <2>2. ComponentLevel(c.status) \in {"healthy", "warning", "critical", "unknown"}
    BY DEF ComponentLevel
  <2>3. ComponentLevel(c.status) = "healthy"
    BY <2>1, <2>2, <1>1, <1>2 DEF Trackable
  <2>4. QED
    BY <2>3 DEF ComponentLevel
<1>4. \A i \in Concerning(summary) : i.impact = "none"
  <2> SUFFICES ASSUME NEW i \in Concerning(summary) PROVE i.impact = "none"
    OBVIOUS
  <2>1. ImpactLevel(i.impact) \in levels /\ ImpactLevel(i.impact) \in Trackable
    BY DEF ImpactLevel, Trackable
  <2>2. ImpactLevel(i.impact) = "healthy"
    BY <2>1, <1>2
  <2>3. QED
    BY <2>2 DEF ImpactLevel
<1>5. QED
  BY <1>1, <1>3, <1>4

\* A page that is judged healthy named no fault.
LEMMA HealthyIsClean ==
  ASSUME NEW page, page.format \in {"statuspage", "flashduty", "failed"}, Level(page) = "healthy"
  PROVE  NothingWrong(page)
<1>1. CASE page.format = "statuspage"
  <2>1. Summary(page) = page
    BY <1>1 DEF Summary
  <2>2. \A c \in page.components : c.matches => c.status = "operational"
    BY <2>1, HealthyPage DEF Components
  <2>3. ASSUME NEW i \in page.incidents, i.impact # "none", NEW c \in page.components, c.matches
        PROVE  c.id \notin i.affects
    <3>1. i \notin Concerning(page)
      BY <2>1, <2>3, HealthyPage
    <3>2. c.id \in {d.id : d \in Components(page)}
      BY <2>3 DEF Components
    <3>3. QED
      BY <3>1, <3>2 DEF Concerning
  <2>4. QED
    BY <1>1, <2>2, <2>3 DEF NothingWrong
<1>2. CASE page.format = "flashduty"
  <2> DEFINE summary == Summary(page)
             Affects(i) == {page.changes[i][j].id : j \in DOMAIN page.changes[i]}
             Impact(i) == IF ChangeLevel(page.changes[i]) = "critical" THEN "critical" ELSE "minor"
  <2>1. summary = Decode(page)
    BY <1>2 DEF Summary
  <2>2. ASSUME NEW i \in DOMAIN page.changes, NEW j \in DOMAIN page.changes[i],
               [id |-> page.changes[i][j].id, hidden |-> FALSE] \in page.components
        PROVE  FALSE
    <3> DEFINE shown == [id |-> page.changes[i][j].id, hidden |-> FALSE]
               incident == [affects |-> Affects(i), impact |-> Impact(i)]
               component == [id |-> shown.id, matches |-> TRUE,
                             status |-> LastStatus(shown.id, page.changes)]
    <3>1. component \in summary.components
      <4>1. shown \in {d \in page.components : ~d.hidden}
        BY <2>2
      <4>2. summary.components =
              {[id |-> c.id, matches |-> TRUE, status |-> LastStatus(c.id, page.changes)] :
                  c \in {d \in page.components : ~d.hidden}}
        BY <2>1 DEF Decode
      <4>3. QED
        BY <4>1, <4>2
    <3>2. incident \in summary.incidents
      <4>1. summary.incidents = {[affects |-> Affects(k), impact |-> Impact(k)] : k \in DOMAIN page.changes}
        BY <2>1 DEF Decode
      <4>2. QED
        BY <2>2, <4>1
    <3>3. shown.id \in {c.id : c \in Components(summary)}
      <4>1. component \in Components(summary) /\ component.id = shown.id
        BY <3>1 DEF Components
      <4>2. QED
        BY <4>1
    <3>4. shown.id \in Affects(i)
      BY <2>2
    <3>5. incident.affects = Affects(i) /\ incident.impact = Impact(i)
      OBVIOUS
    <3>6. incident \in Concerning(summary)
      BY <3>2, <3>3, <3>4, <3>5 DEF Concerning
    <3>7. incident.impact = "none"
      BY <3>6, HealthyPage
    <3>8. QED
      BY <3>5, <3>7
  <2>3. QED
    BY <1>2, <2>2 DEF NothingWrong
<1>3. CASE page.format = "failed"
  BY <1>3, HealthyPage
<1>4. QED
  BY <1>1, <1>2, <1>3

TransitionOf ==
    [provider : Providers, previous : Trackable \cup {"none"}, level : Trackable,
     type : {"recovered", "deescalated", "alert"}, change : Nat]

\* An event that tells change n of p, or a later one, waits in q.
Waits(p, n, q) == \E i \in DOMAIN q : q[i].provider = p /\ n <= q[i].change

\* The changes of a provider wait in their order and have not been told.
InOrder(q) ==
    /\ \A i, j \in DOMAIN q : i < j /\ q[i].provider = q[j].provider => q[i].change < q[j].change
    /\ \A i \in DOMAIN q : toldChange[q[i].provider] < q[i].change
                           /\ q[i].change <= changes[q[i].provider]

Queues ==
    /\ transitions \in Seq(TransitionOf) /\ draining \in Seq(TransitionOf)
    /\ InOrder(transitions) /\ InOrder(draining)
    /\ \A i \in DOMAIN draining, j \in DOMAIN transitions :
        draining[i].provider = transitions[j].provider => draining[i].change < transitions[j].change

\* Of a provider that lost no event, every change is told or waits, those that the sampler's
\* snapshot rests on in the queue it is about to drain or has drained.
Covered(p) ==
    /\ changes[p] <= toldChange[p] \/ Waits(p, changes[p], draining) \/ Waits(p, changes[p], transitions)
    /\ samplerPc = "drain" =>
        taken[p].changes <= toldChange[p] \/ Waits(p, taken[p].changes, transitions)
    /\ samplerPc = "write" =>
        taken[p].changes <= toldChange[p] \/ Waits(p, taken[p].changes, draining)
    /\ published[p].changes <= toldChange[p]

Clean(shot) ==
    /\ DOMAIN shot = Providers
    /\ \A p \in Providers :
        shot[p].changes \in Nat /\ (shot[p].level = "healthy" => shot[p].clean)

UpstreamInv ==
    /\ known \in [Providers -> Trackable \cup {"none"}]
    /\ changes \in [Providers -> Nat] /\ toldChange \in [Providers -> Nat]
    /\ samplerPc \in {"idle", "drain", "write"} /\ (samplerPc # "write" => draining = <<>>)
    /\ Clean(current) /\ Clean(taken) /\ Clean(published)
    /\ \A p \in Providers : current[p].changes <= changes[p] /\ toldChange[p] <= changes[p]
    /\ Queues
    /\ \A p \in Providers \ untold : Covered(p)

\* A provider nobody has polled shows no level.
LEMMA WaitingIsClean == Clean(Waiting) /\ \A p \in Providers : Waiting[p].changes = 0
  BY DEF Clean, Waiting

\* The invariant holds initially.
LEMMA InitUpstreamInv == UpstreamInit => UpstreamInv
<1> SUFFICES ASSUME UpstreamInit PROVE UpstreamInv
  OBVIOUS
<1>1. /\ transitions = <<>> /\ draining = <<>> /\ DOMAIN transitions = {} /\ DOMAIN draining = {}
      /\ <<>> \in Seq(TransitionOf)
  BY DEF UpstreamInit
<1>2. Queues
  BY <1>1 DEF Queues, InOrder
<1>3. \A p \in Providers : Covered(p)
  BY <1>1, WaitingIsClean DEF UpstreamInit, Covered
<1>4. QED
  BY <1>1, <1>2, <1>3, WaitingIsClean DEF UpstreamInit, UpstreamInv
\* Each event that waits is of a later change than those told, and of no later one than there are.
LEMMA WaitingEvents ==
  ASSUME UpstreamInv
  PROVE  /\ \A q \in {transitions, draining} : \A i \in DOMAIN q :
              /\ q[i] \in TransitionOf /\ q[i].provider \in Providers /\ q[i].change \in Nat
              /\ toldChange[q[i].provider] < q[i].change /\ q[i].change <= changes[q[i].provider]
         /\ \A q \in {transitions, draining} : \A i, j \in DOMAIN q :
              i < j /\ q[i].provider = q[j].provider => q[i].change < q[j].change
         /\ \A i \in DOMAIN draining, j \in DOMAIN transitions :
              draining[i].provider = transitions[j].provider => draining[i].change < transitions[j].change
<1>1. ASSUME NEW q \in {transitions, draining}, NEW i \in DOMAIN q
      PROVE  /\ q[i] \in TransitionOf /\ q[i].provider \in Providers /\ q[i].change \in Nat
             /\ toldChange[q[i].provider] < q[i].change /\ q[i].change <= changes[q[i].provider]
  <2>1. q \in Seq(TransitionOf) /\ InOrder(q)
    BY DEF UpstreamInv, Queues
  <2>2. q[i] \in TransitionOf
    BY <2>1
  <2>3. QED
    BY <2>1, <2>2 DEF TransitionOf, InOrder
<1>2. \A q \in {transitions, draining} : \A i, j \in DOMAIN q :
         i < j /\ q[i].provider = q[j].provider => q[i].change < q[j].change
  BY DEF UpstreamInv, Queues, InOrder
<1>3. QED
  BY <1>1, <1>2 DEF UpstreamInv, Queues

\* A poll appends one event per changed level, each with the next number of its provider.
LEMMA PollKeepsInv ==
  ASSUME UpstreamInv,
         NEW page \in [Providers -> UNION {Pages[p] : p \in Providers}],
         \A p \in Providers : page[p] \in Pages[p], PollProviders(page)
  PROVE  UpstreamInv'
<1> DEFINE level == [p \in Providers |-> Level(page[p])]
           S == {p \in Providers : level[p] \in Trackable /\ known[p] \notin {"none", level[p]}}
           n == Cardinality(S)
           order == SetToSeq(S)
           t == Len(transitions)
           new == [i \in 1 .. n |->
                     [provider |-> order[i], previous |-> known[order[i]], level |-> level[order[i]],
                      type |-> TransitionType(known[order[i]], level[order[i]]),
                      change |-> changes'[order[i]]]]
<1>1. /\ n \in Nat /\ order \in [1 .. n -> S]
      /\ \A i, j \in 1 .. n : order[i] = order[j] => i = j
      /\ \A x \in S : \E i \in 1 .. n : order[i] = x
  <2>1. IsFiniteSet(S)
    BY UpstreamAssumption, FS_Subset
  <2>2. QED
    BY <2>1, EachOnce
<1>2. S = {p \in {q \in Providers : level[q] \in Trackable} : known[p] \notin {"none", level[p]}}
  OBVIOUS
<1>3. /\ known' = [p \in Providers |-> IF p \in {q \in Providers : level[q] \in Trackable}
                                       THEN level[p] ELSE known[p]]
      /\ changes' = [p \in Providers |-> changes[p] + IF p \in S THEN 1 ELSE 0]
      /\ current' = [p \in Providers |-> [level |-> level[p], clean |-> NothingWrong(page[p]),
                                          changes |-> changes'[p]]]
      /\ UNCHANGED <<samplerPc, taken, draining, published, toldChange, untold>>
  BY <1>2 DEF PollProviders
<1>4. transitions' = transitions \o new
  BY <1>1, <1>2 DEF PollProviders
<1> HIDE DEF S, n, order, level
<1>5. changes' \in [Providers -> Nat] /\ known' \in [Providers -> Trackable \cup {"none"}]
  <2>1. changes \in [Providers -> Nat] /\ known \in [Providers -> Trackable \cup {"none"}]
    BY DEF UpstreamInv
  <2>2. changes' \in [Providers -> Nat]
    BY <2>1, <1>3
  <2>3. ASSUME NEW p \in Providers PROVE known'[p] \in Trackable \cup {"none"}
    BY <2>1, <1>3
  <2>4. DOMAIN known' = Providers /\ known' = [p \in Providers |-> known'[p]]
    BY <1>3
  <2>5. QED
    BY <2>2, <2>3, <2>4
<1>6. /\ S \subseteq Providers
      /\ \A p \in S : level[p] \in Trackable /\ known[p] \in Trackable \cup {"none"}
                      /\ changes'[p] = changes[p] + 1
      /\ \A p \in Providers : p \in S \/ changes'[p] = changes[p]
      /\ \A p \in Providers : changes[p] \in Nat /\ toldChange[p] \in Nat /\ changes[p] <= changes'[p]
  <2>1. /\ changes \in [Providers -> Nat] /\ toldChange \in [Providers -> Nat]
        /\ known \in [Providers -> Trackable \cup {"none"}]
    BY DEF UpstreamInv
  <2>2. S \subseteq Providers /\ \A p \in S : level[p] \in Trackable
    BY DEF S
  <2>3. \A p \in Providers : changes'[p] = changes[p] + IF p \in S THEN 1 ELSE 0
    BY <1>3
  <2>4. QED
    BY <2>1, <2>2, <2>3
<1>7. \A i \in 1 .. n : /\ new[i] \in TransitionOf /\ new[i].provider = order[i] /\ order[i] \in S
                        /\ new[i].change = changes[order[i]] + 1
  <2> TAKE i \in 1 .. n
  <2>1. order[i] \in S /\ order[i] \in Providers
    BY <1>1, <1>6
  <2>2. TransitionType(known[order[i]], level[order[i]]) \in {"recovered", "deescalated", "alert"}
    BY DEF TransitionType
  <2>3. changes'[order[i]] \in Nat /\ changes'[order[i]] = changes[order[i]] + 1
    BY <2>1, <1>5, <1>6
  <2>4. QED
    BY <2>1, <2>2, <2>3, <1>6 DEF TransitionOf
<1> HIDE DEF new
<1>8. new \in Seq(TransitionOf) /\ Len(new) = n /\ DOMAIN new = 1 .. n
  <2>1. new \in [1 .. n -> TransitionOf]
    BY <1>7 DEF new
  <2>2. QED
    BY <2>1, <1>1
<1>9. /\ transitions \in Seq(TransitionOf) /\ t \in Nat /\ DOMAIN transitions = 1 .. t
      /\ transitions' \in Seq(TransitionOf) /\ DOMAIN transitions' = 1 .. (t + n)
      /\ \A i \in 1 .. t : transitions'[i] = transitions[i]
      /\ \A i \in (t + 1) .. (t + n) : i - t \in 1 .. n /\ transitions'[i] = new[i - t]
  <2>1. transitions \in Seq(TransitionOf)
    BY DEF UpstreamInv, Queues
  <2> HIDE DEF n
  <2>2. t \in Nat /\ DOMAIN transitions = 1 .. t
    BY <2>1
  <2>3. /\ transitions' \in Seq(TransitionOf) /\ DOMAIN transitions' = 1 .. (t + n)
        /\ \A i \in 1 .. (t + n) :
            transitions'[i] = IF i <= t THEN transitions[i] ELSE new[i - t]
    BY <2>1, <1>4, <1>8
  <2>4. \A i \in 1 .. t : i \in 1 .. (t + n) /\ i <= t
    BY <1>1, <2>2
  <2>5. \A i \in (t + 1) .. (t + n) : i \in 1 .. (t + n) /\ ~(i <= t) /\ i - t \in 1 .. n
    BY <1>1, <2>2
  <2>6. QED
    BY <2>1, <2>2, <2>3, <2>4, <2>5
<1>10. draining \in Seq(TransitionOf) /\ draining' = draining
  BY <1>3 DEF UpstreamInv, Queues
\* Events that waited already are older than the new ones.
<1>11. \A q \in {transitions, draining} : \A i \in DOMAIN q :
          /\ q[i].provider \in Providers /\ q[i].change \in Nat
          /\ toldChange[q[i].provider] < q[i].change /\ q[i].change <= changes[q[i].provider]
  BY WaitingEvents
<1>12. toldChange' = toldChange
  BY <1>3
<1>13. \A i \in 1 .. (t + n) :
          \/ i \in 1 .. t /\ transitions'[i] = transitions[i]
          \/ i \in (t + 1) .. (t + n) /\ i - t \in 1 .. n /\ transitions'[i] = new[i - t]
  BY <1>1, <1>9
<1>14. \A p \in Providers : toldChange[p] <= changes[p]
  BY DEF UpstreamInv
<1>15. Queues'
  <2>1. \A i, j \in DOMAIN transitions' :
          i < j /\ transitions'[i].provider = transitions'[j].provider =>
            transitions'[i].change < transitions'[j].change
    <3> SUFFICES ASSUME NEW i \in 1 .. (t + n), NEW j \in 1 .. (t + n), i < j,
                        transitions'[i].provider = transitions'[j].provider
                 PROVE  transitions'[i].change < transitions'[j].change
      BY <1>9
    <3>1. CASE i \in 1 .. t /\ j \in 1 .. t
      BY <3>1, <1>9 DEF UpstreamInv, Queues, InOrder
    <3>2. CASE i \in 1 .. t /\ j \in (t + 1) .. (t + n)
      <4>1. transitions'[i].change <= changes[transitions'[i].provider]
            /\ transitions'[i].change \in Nat
        BY <3>2, <1>9, <1>11
      <4>2. /\ transitions'[j].provider \in S
            /\ transitions'[j].change = changes[transitions'[j].provider] + 1
        BY <3>2, <1>7, <1>9
      <4>3. changes[transitions'[j].provider] \in Nat
        BY <4>2, <1>6
      <4>4. QED
        BY <4>1, <4>2, <4>3
    <3>3. CASE i \in (t + 1) .. (t + n) /\ j \in (t + 1) .. (t + n)
      <4>1. order[i - t] = order[j - t] /\ i - t \in 1 .. n /\ j - t \in 1 .. n
        BY <3>3, <1>7, <1>9
      <4>2. i - t = j - t
        BY <4>1, <1>1
      <4>3. QED
        BY <4>2, <1>9
    <3>4. QED
      BY <3>1, <3>2, <3>3, <1>1, <1>9, <1>13
  <2>2. \A i \in DOMAIN transitions' :
          /\ toldChange[transitions'[i].provider] < transitions'[i].change
          /\ transitions'[i].change <= changes'[transitions'[i].provider]
    <3> SUFFICES ASSUME NEW i \in 1 .. (t + n)
                 PROVE  /\ toldChange[transitions'[i].provider] < transitions'[i].change
                        /\ transitions'[i].change <= changes'[transitions'[i].provider]
      BY <1>9
    <3>1. CASE i \in 1 .. t
      <4>1. /\ transitions'[i].provider \in Providers /\ transitions'[i].change \in Nat
            /\ toldChange[transitions'[i].provider] < transitions'[i].change
            /\ transitions'[i].change <= changes[transitions'[i].provider]
        BY <3>1, <1>9, <1>11
      <4>2. /\ changes[transitions'[i].provider] <= changes'[transitions'[i].provider]
            /\ changes[transitions'[i].provider] \in Nat /\ changes'[transitions'[i].provider] \in Nat
        BY <4>1, <1>5, <1>6
      <4>3. QED
        BY <4>1, <4>2
    <3>2. CASE i \in (t + 1) .. (t + n)
      <4>1. /\ transitions'[i].provider \in S
            /\ transitions'[i].change = changes[transitions'[i].provider] + 1
        BY <3>2, <1>7, <1>9
      <4>2. QED
        BY <4>1, <1>6, <1>14
    <3>3. QED
      BY <3>1, <3>2, <1>13
  <2>3. InOrder(transitions)'
    BY <2>1, <2>2, <1>12 DEF InOrder
  <2>4. InOrder(draining)'
    <3>1. \A i, j \in DOMAIN draining :
            i < j /\ draining[i].provider = draining[j].provider => draining[i].change < draining[j].change
      BY DEF UpstreamInv, Queues, InOrder
    <3>2. \A i \in DOMAIN draining :
            /\ toldChange[draining[i].provider] < draining[i].change
            /\ draining[i].change <= changes'[draining[i].provider]
      <4> TAKE i \in DOMAIN draining
      <4>1. /\ draining[i].provider \in Providers /\ draining[i].change \in Nat
            /\ toldChange[draining[i].provider] < draining[i].change
            /\ draining[i].change <= changes[draining[i].provider]
        BY <1>11
      <4>2. /\ changes[draining[i].provider] <= changes'[draining[i].provider]
            /\ changes[draining[i].provider] \in Nat /\ changes'[draining[i].provider] \in Nat
        BY <4>1, <1>5, <1>6
      <4>3. QED
        BY <4>1, <4>2
    <3>3. QED
      BY <3>1, <3>2, <1>10, <1>12 DEF InOrder
  <2>5. \A i \in DOMAIN draining', j \in DOMAIN transitions' :
          draining'[i].provider = transitions'[j].provider => draining'[i].change < transitions'[j].change
    <3> SUFFICES ASSUME NEW i \in DOMAIN draining, NEW j \in 1 .. (t + n),
                        draining[i].provider = transitions'[j].provider
                 PROVE  draining[i].change < transitions'[j].change
      BY <1>9, <1>10
    <3>1. CASE j \in 1 .. t
      BY <3>1, <1>9 DEF UpstreamInv, Queues
    <3>2. CASE j \in (t + 1) .. (t + n)
      <4>1. draining[i].change <= changes[draining[i].provider] /\ draining[i].change \in Nat
        BY <1>11
      <4>2. /\ transitions'[j].provider \in S
            /\ transitions'[j].change = changes[transitions'[j].provider] + 1
        BY <3>2, <1>7, <1>9
      <4>3. changes[transitions'[j].provider] \in Nat
        BY <4>2, <1>6
      <4>4. QED
        BY <4>1, <4>2, <4>3
    <3>3. QED
      BY <3>1, <3>2, <1>13
  <2>6. QED
    BY <2>3, <2>4, <2>5, <1>9, <1>10 DEF Queues
<1>16. \A p \in Providers \ untold' : Covered(p)'
  <2> SUFFICES ASSUME NEW p \in Providers, p \notin untold' PROVE Covered(p)'
    OBVIOUS
  <2>1. Covered(p)
    BY <1>3 DEF UpstreamInv
  <2>2. \A k : Waits(p, k, transitions) => Waits(p, k, transitions)'
    <3> SUFFICES ASSUME NEW k, NEW i \in 1 .. t, transitions[i].provider = p, k <= transitions[i].change
                 PROVE  \E j \in DOMAIN transitions' :
                            transitions'[j].provider = p /\ k <= transitions'[j].change
      BY <1>9 DEF Waits
    <3>1. i \in DOMAIN transitions' /\ transitions'[i] = transitions[i]
      BY <1>1, <1>9
    <3>2. QED
      BY <3>1
  <2>3. p \in S => Waits(p, changes[p], transitions)'
    <3> SUFFICES ASSUME p \in S
                 PROVE  \E j \in DOMAIN transitions' :
                            transitions'[j].provider = p /\ changes'[p] <= transitions'[j].change
      BY DEF Waits
    <3>1. PICK i \in 1 .. n : order[i] = p
      BY <1>1
    <3>2. t + i \in (t + 1) .. (t + n) /\ (t + i) - t = i /\ t + i \in DOMAIN transitions'
      BY <3>1, <1>1, <1>9
    <3>3. transitions'[t + i] = new[i]
      BY <3>2, <1>9
    <3>4. new[i].provider = p /\ new[i].change = changes'[p] /\ changes'[p] \in Nat
      BY <3>1, <1>5, <1>6, <1>7
    <3>5. QED
      BY <3>2, <3>3, <3>4
  <2>4. p \notin S => changes'[p] = changes[p]
    BY <1>6
  <2>5. \/ changes'[p] <= toldChange'[p] \/ Waits(p, changes[p], draining)'
        \/ Waits(p, changes[p], transitions)'
    BY <2>1, <2>2, <2>3, <2>4, <1>3 DEF Covered, Waits
  <2>6. QED
    BY <2>1, <2>2, <2>5, <1>3 DEF Covered, Waits
<1>17. Clean(current)' /\ \A p \in Providers : current'[p].changes <= changes'[p]
  <2>1. ASSUME NEW p \in Providers
        PROVE  current'[p].changes \in Nat /\ current'[p].changes <= changes'[p]
               /\ (current'[p].level = "healthy" => current'[p].clean)
    <3>1. current'[p] = [level |-> level[p], clean |-> NothingWrong(page[p]), changes |-> changes'[p]]
      BY <2>1, <1>3
    <3>2. level[p] = Level(page[p])
      BY <2>1 DEF level
    <3>3. level[p] = "healthy" => NothingWrong(page[p])
      <4>1. page[p].format \in {"statuspage", "flashduty", "failed"}
        BY <2>1, UpstreamAssumption
      <4>2. \A x : x.format \in {"statuspage", "flashduty", "failed"} /\ Level(x) = "healthy" =>
                    NothingWrong(x)
        BY HealthyIsClean
      <4>3. QED
        BY <3>2, <4>1, <4>2
    <3>4. changes'[p] \in Nat
      BY <2>1, <1>5
    <3>5. QED
      BY <3>1, <3>3, <3>4
  <2>2. DOMAIN current' = Providers
    BY <1>3
  <2>3. QED
    BY <2>1, <2>2 DEF Clean
<1>18. QED
  <2>1. \A p \in Providers : toldChange'[p] <= changes'[p]
    BY <1>5, <1>6, <1>12, <1>14
  <2>2. QED
    BY <2>1, <1>3, <1>5, <1>15, <1>16, <1>17 DEF UpstreamInv, Clean

\* The sampler's steps: the snapshot is taken before the queue is drained.
LEMMA SamplerKeepsInv ==
  ASSUME UpstreamInv, TakeSnapshot \/ DrainTransitions \/ PublishUpstream PROVE UpstreamInv'
<1>1. CASE TakeSnapshot
  <2>1. /\ taken' = current /\ samplerPc = "idle" /\ samplerPc' = "drain" /\ draining = <<>>
        /\ UNCHANGED <<known, transitions, current, changes, draining, published, toldChange, untold>>
    BY <1>1 DEF TakeSnapshot, UpstreamInv
  <2>2. \A p \in Providers \ untold' : Covered(p)'
    <3> SUFFICES ASSUME NEW p \in Providers, p \notin untold PROVE Covered(p)'
      BY <2>1
    <3>1. Covered(p) /\ ~Waits(p, changes[p], draining)
      BY <2>1 DEF UpstreamInv, Waits
    <3>2. /\ current[p].changes \in Nat /\ changes[p] \in Nat /\ toldChange[p] \in Nat
          /\ current[p].changes <= changes[p]
      BY DEF UpstreamInv, Clean
    <3>3. Waits(p, changes[p], transitions) => Waits(p, current[p].changes, transitions)
      <4>1. \A i \in DOMAIN transitions : transitions[i].change \in Nat
        BY WaitingEvents
      <4>2. QED
        BY <3>2, <4>1 DEF Waits
    <3>4. current[p].changes <= toldChange[p] \/ Waits(p, current[p].changes, transitions)
      BY <3>1, <3>2, <3>3 DEF Covered
    <3>5. QED
      BY <2>1, <3>1, <3>4 DEF Covered, Waits
  <2>3. Queues'
    BY <2>1 DEF UpstreamInv, Queues, InOrder
  <2>4. Clean(current)' /\ Clean(taken)' /\ Clean(published)'
    BY <2>1 DEF UpstreamInv, Clean
  <2>5. QED
    BY <2>1, <2>2, <2>3, <2>4 DEF UpstreamInv
<1>2. CASE DrainTransitions
  <2>1. /\ draining' = transitions /\ transitions' = <<>> /\ DOMAIN transitions' = {}
        /\ samplerPc = "drain" /\ samplerPc' = "write" /\ draining = <<>>
        /\ UNCHANGED <<known, current, changes, taken, published, toldChange, untold>>
    BY <1>2 DEF DrainTransitions, UpstreamInv
  <2>2. \A p \in Providers \ untold' : Covered(p)'
    <3> SUFFICES ASSUME NEW p \in Providers, p \notin untold PROVE Covered(p)'
      BY <2>1
    <3>1. Covered(p) /\ ~Waits(p, changes[p], draining)
      BY <2>1 DEF UpstreamInv, Waits
    <3>2. QED
      BY <2>1, <3>1 DEF Covered, Waits
  <2>3. Queues'
    BY <2>1 DEF UpstreamInv, Queues, InOrder
  <2>4. Clean(current)' /\ Clean(taken)' /\ Clean(published)'
    BY <2>1 DEF UpstreamInv, Clean
  <2>5. QED
    BY <2>1, <2>2, <2>3, <2>4 DEF UpstreamInv
<1>3. CASE PublishUpstream
  <2>1. /\ published' = taken /\ draining = <<>> /\ samplerPc = "write" /\ samplerPc' = "idle"
        /\ UNCHANGED <<known, transitions, current, changes, taken, draining, toldChange, untold>>
    BY <1>3 DEF PublishUpstream
  <2>2. \A p \in Providers \ untold' : Covered(p)'
    <3> SUFFICES ASSUME NEW p \in Providers, p \notin untold PROVE Covered(p)'
      BY <2>1
    <3>1. Covered(p) /\ ~Waits(p, taken[p].changes, draining)
      BY <2>1 DEF UpstreamInv, Waits
    <3>2. QED
      BY <2>1, <3>1 DEF Covered, Waits
  <2>3. Queues'
    BY <2>1 DEF UpstreamInv, Queues, InOrder
  <2>4. Clean(current)' /\ Clean(taken)' /\ Clean(published)'
    BY <2>1 DEF UpstreamInv, Clean
  <2>5. QED
    BY <2>1, <2>2, <2>3, <2>4 DEF UpstreamInv
<1>4. QED
  BY <1>1, <1>2, <1>3

\* One event is written.
LEMMA WriteTransitionKeepsInv == ASSUME UpstreamInv, WriteTransition PROVE UpstreamInv'
<1> DEFINE e == Head(draining)
           n == Len(draining)
<1>1. /\ draining \in Seq(TransitionOf) /\ n \in Nat \ {0} /\ DOMAIN draining = 1 .. n
      /\ e = draining[1] /\ e \in TransitionOf
  BY DEF UpstreamInv, Queues, WriteTransition
<1>2. /\ draining' \in Seq(TransitionOf) /\ DOMAIN draining' = 1 .. (n - 1)
      /\ \A i \in 1 .. (n - 1) : i + 1 \in 1 .. n /\ draining'[i] = draining[i + 1]
  BY <1>1 DEF WriteTransition
<1>3. e.provider \in Providers /\ e.change \in Nat
  BY <1>1 DEF TransitionOf
<1>4. /\ toldChange' = [toldChange EXCEPT ![e.provider] = e.change]
      /\ samplerPc = "write"
      /\ UNCHANGED <<known, transitions, current, changes, samplerPc, taken, published, untold>>
  BY DEF WriteTransition
<1>5. /\ toldChange[e.provider] < e.change /\ e.change <= changes[e.provider]
      /\ \A i \in 1 .. n : draining[i].provider = e.provider /\ i # 1 => e.change < draining[i].change
  <2>1. 1 \in DOMAIN draining
    BY <1>1
  <2>2. \A i \in 1 .. n : i # 1 => 1 < i
    BY <1>1
  <2>3. QED
    BY <1>1, <2>1, <2>2, WaitingEvents
<1>6. /\ toldChange' \in [Providers -> Nat] /\ toldChange'[e.provider] = e.change
      /\ \A p \in Providers : p # e.provider => toldChange'[p] = toldChange[p]
      /\ \A p \in Providers : toldChange[p] \in Nat /\ toldChange'[p] \in Nat
                              /\ toldChange[p] <= toldChange'[p] /\ toldChange'[p] <= changes'[p]
  BY <1>3, <1>4, <1>5 DEF UpstreamInv
<1>7. \A j \in DOMAIN transitions : transitions[j].provider = e.provider => e.change < transitions[j].change
  <2>1. 1 \in DOMAIN draining
    BY <1>1
  <2>2. QED
    BY <1>1, <2>1, WaitingEvents
<1>8. Queues'
  <2>1. InOrder(draining)'
    <3>1. \A i, j \in 1 .. (n - 1) :
            i < j /\ draining'[i].provider = draining'[j].provider => draining'[i].change < draining'[j].change
      <4> SUFFICES ASSUME NEW i \in 1 .. (n - 1), NEW j \in 1 .. (n - 1), i < j,
                          draining'[i].provider = draining'[j].provider
                   PROVE  draining'[i].change < draining'[j].change
        OBVIOUS
      <4>1. i + 1 < j + 1 /\ i + 1 \in 1 .. n /\ j + 1 \in 1 .. n
        BY <1>2
      <4>2. draining[i + 1].change < draining[j + 1].change
        BY <4>1, <1>1, <1>2, WaitingEvents
      <4>3. QED
        BY <4>2, <1>2
    <3>2. \A i \in 1 .. (n - 1) : toldChange'[draining'[i].provider] < draining'[i].change
                                  /\ draining'[i].change <= changes'[draining'[i].provider]
      <4> TAKE i \in 1 .. (n - 1)
      <4>1. i + 1 \in 1 .. n /\ i + 1 # 1 /\ draining'[i] = draining[i + 1]
        BY <1>2
      <4>2. /\ draining[i + 1] \in TransitionOf
            /\ toldChange[draining[i + 1].provider] < draining[i + 1].change
            /\ draining[i + 1].change <= changes[draining[i + 1].provider]
        BY <4>1, <1>1, WaitingEvents
      <4>3. QED
        BY <4>1, <4>2, <1>4, <1>5, <1>6 DEF TransitionOf
    <3>3. QED
      BY <3>1, <3>2, <1>2 DEF InOrder
  <2>2. InOrder(transitions)'
    <3>1. \A i, j \in DOMAIN transitions :
            i < j /\ transitions[i].provider = transitions[j].provider =>
                transitions[i].change < transitions[j].change
      BY DEF UpstreamInv, Queues, InOrder
    <3>2. \A i \in DOMAIN transitions :
            /\ toldChange'[transitions[i].provider] < transitions[i].change
            /\ transitions[i].change <= changes[transitions[i].provider]
      <4> TAKE i \in DOMAIN transitions
      <4>1. /\ transitions[i] \in TransitionOf
            /\ toldChange[transitions[i].provider] < transitions[i].change
            /\ transitions[i].change <= changes[transitions[i].provider]
        BY WaitingEvents
      <4>2. QED
        BY <4>1, <1>6, <1>7 DEF TransitionOf
    <3>3. QED
      BY <3>1, <3>2, <1>4 DEF InOrder
  <2>3. \A i \in DOMAIN draining', j \in DOMAIN transitions' :
          draining'[i].provider = transitions'[j].provider => draining'[i].change < transitions'[j].change
    <3> SUFFICES ASSUME NEW i \in 1 .. (n - 1), NEW j \in DOMAIN transitions,
                        draining'[i].provider = transitions[j].provider
                 PROVE  draining'[i].change < transitions[j].change
      BY <1>2, <1>4
    <3>1. i + 1 \in DOMAIN draining /\ draining'[i] = draining[i + 1]
      BY <1>1, <1>2
    <3>2. QED
      BY <3>1, WaitingEvents
  <2>4. QED
    BY <2>1, <2>2, <2>3, <1>2, <1>4 DEF Queues, UpstreamInv
<1>9. \A p \in Providers \ untold' : Covered(p)'
  <2> SUFFICES ASSUME NEW p \in Providers, p \notin untold PROVE Covered(p)'
    BY <1>4
  <2>1. Covered(p) /\ changes[p] \in Nat /\ taken[p].changes \in Nat /\ published[p].changes \in Nat
    BY DEF UpstreamInv, Clean
  <2>2. ASSUME NEW k \in Nat, Waits(p, k, draining)
        PROVE  k <= toldChange'[p] \/ Waits(p, k, draining')
    <3>1. PICK i \in 1 .. n : draining[i].provider = p /\ k <= draining[i].change
      BY <2>2, <1>1 DEF Waits
    <3>2. CASE i = 1
      BY <3>1, <3>2, <1>1, <1>6
    <3>3. CASE i # 1
      <4>1. i - 1 \in 1 .. (n - 1) /\ (i - 1) + 1 = i
        BY <3>3, <1>1
      <4>2. draining'[i - 1] = draining[i]
        BY <4>1, <1>2
      <4>3. \E j \in DOMAIN draining' : draining'[j].provider = p /\ k <= draining'[j].change
        BY <3>1, <4>1, <4>2, <1>2
      <4>4. QED
        BY <4>3 DEF Waits
    <3>4. QED
      BY <3>2, <3>3
  <2>3. \A k \in Nat : k <= toldChange[p] => k <= toldChange'[p]
    BY <1>6
  <2>4. /\ changes'[p] = changes[p] /\ taken' = taken /\ published' = published
        /\ transitions' = transitions /\ samplerPc = "write" /\ samplerPc' = "write"
    BY <1>4
  <2>5. changes[p] <= toldChange'[p] \/ Waits(p, changes[p], draining') \/ Waits(p, changes[p], transitions)
    <3>1. changes[p] <= toldChange[p] \/ Waits(p, changes[p], draining) \/ Waits(p, changes[p], transitions)
      BY <2>1 DEF Covered
    <3>2. QED
      BY <3>1, <2>1, <2>2, <2>3
  <2>6. taken[p].changes <= toldChange'[p] \/ Waits(p, taken[p].changes, draining')
    <3>1. taken[p].changes <= toldChange[p] \/ Waits(p, taken[p].changes, draining)
      BY <2>1, <2>4 DEF Covered
    <3>2. QED
      BY <3>1, <2>1, <2>2, <2>3
  <2>7. published[p].changes <= toldChange'[p]
    BY <2>1, <2>3 DEF Covered
  <2>8. QED
    BY <2>4, <2>5, <2>6, <2>7 DEF Covered, Waits
<1>10. Clean(current)' /\ Clean(taken)' /\ Clean(published)'
  BY <1>4 DEF UpstreamInv, Clean
<1>11. QED
  BY <1>4, <1>6, <1>8, <1>9, <1>10 DEF UpstreamInv

\* A failed write and a restart: what was waiting is lost, and its providers are named.
LEMMA LossKeepsInv ==
  ASSUME UpstreamInv, WriteTransitionFails \/ RestartUpstream PROVE UpstreamInv'
<1>1. CASE WriteTransitionFails
  <2>1. /\ draining' = <<>> /\ DOMAIN draining' = {} /\ draining' \in Seq(TransitionOf)
        /\ untold' = untold \cup LostBy(draining) /\ samplerPc' = "idle"
        /\ UNCHANGED <<known, transitions, current, changes, taken, published, toldChange>>
    BY <1>1 DEF WriteTransitionFails
  <2>2. \A p \in Providers \ untold' : Covered(p)'
    <3> SUFFICES ASSUME NEW p \in Providers, p \notin untold' PROVE Covered(p)'
      OBVIOUS
    <3>1. Covered(p) /\ ~Waits(p, changes[p], draining)
      BY <2>1 DEF UpstreamInv, Waits, LostBy
    <3>2. QED
      BY <2>1, <3>1 DEF Covered, Waits
  <2>3. Queues'
    BY <2>1 DEF UpstreamInv, Queues, InOrder
  <2>4. Clean(current)' /\ Clean(taken)' /\ Clean(published)'
    BY <2>1 DEF UpstreamInv, Clean
  <2>5. QED
    BY <2>1, <2>2, <2>3, <2>4 DEF UpstreamInv
<1>2. CASE RestartUpstream
  <2>1. /\ draining' = <<>> /\ DOMAIN draining' = {} /\ draining' \in Seq(TransitionOf)
        /\ transitions' = <<>> /\ current' = Waiting /\ taken' = Waiting
        /\ untold' = untold \cup LostBy(transitions) \cup LostBy(draining) /\ samplerPc' = "idle"
        /\ known' = [p \in Providers |-> "none"] /\ UNCHANGED <<changes, published, toldChange>>
    BY <1>2 DEF RestartUpstream
  <2>2. \A p \in Providers \ untold' : Covered(p)'
    <3> SUFFICES ASSUME NEW p \in Providers, p \notin untold' PROVE Covered(p)'
      OBVIOUS
    <3>1. Covered(p) /\ ~Waits(p, changes[p], draining) /\ ~Waits(p, changes[p], transitions)
      BY <2>1 DEF UpstreamInv, Waits, LostBy
    <3>2. QED
      BY <2>1, <3>1 DEF Covered, Waits
  <2>3. Queues'
    BY <2>1 DEF Queues, InOrder
  <2>4. /\ Clean(current)' /\ Clean(taken)' /\ Clean(published)'
        /\ \A p \in Providers : current'[p].changes <= changes'[p]
    BY <2>1, WaitingIsClean DEF UpstreamInv, Clean
  <2>5. QED
    BY <2>1, <2>2, <2>3, <2>4 DEF UpstreamInv
<1>3. QED
  BY <1>1, <1>2

\* Every step keeps it: one case per action.
LEMMA NextUpstreamInv == UpstreamInv /\ [UpstreamNext]_upstreamVars => UpstreamInv'
<1> SUFFICES ASSUME UpstreamInv, [UpstreamNext]_upstreamVars PROVE UpstreamInv'
  OBVIOUS
<1>1. CASE UpstreamNext
  <2>1. ASSUME NEW page \in {f \in [Providers -> UNION {Pages[p] : p \in Providers}] :
                                 \A p \in Providers : f[p] \in Pages[p]},
               PollProviders(page)
        PROVE  UpstreamInv'
    BY <2>1, PollKeepsInv
  <2>2. QED
    BY <1>1, <2>1, SamplerKeepsInv, WriteTransitionKeepsInv, LossKeepsInv DEF UpstreamNext
<1>2. CASE UNCHANGED upstreamVars
  BY <1>2 DEF upstreamVars, UpstreamInv, Queues, InOrder, Covered, Waits, Clean
<1>3. QED
  BY <1>1, <1>2

\* The inductive invariant of the poll thread, the queue and the sampler.
THEOREM UpstreamInvariance == UpstreamSpec => []UpstreamInv
<1>1. QED
  BY InitUpstreamInv, NextUpstreamInv, PTL DEF UpstreamSpec

\* Levels shown are told, and healthy pages are clean (status.py:471, :493, :263).
THEOREM ShownIsTold == UpstreamSpec => []ShownLevelsAreTold
<1>1. UpstreamInv => ShownLevelsAreTold
  BY DEF UpstreamInv, Covered, Clean, ShownLevelsAreTold
<1>2. QED
  BY <1>1, UpstreamInvariance, PTL

-------------------------------------------------------------------------------
(* The levels of the status pages. *)

\* The worst of some levels is one of them.
LEMMA WorstIsOne ==
  ASSUME NEW levels \in SUBSET Trackable, levels # {}
  PROVE  Worst(levels) \in levels
<1>1. \E l \in levels : \A k \in levels : StatusRank[k] <= StatusRank[l]
  <2>1. CASE "critical" \in levels
    BY <2>1 DEF Trackable, StatusRank
  <2>2. CASE "critical" \notin levels /\ "warning" \in levels
    BY <2>2 DEF Trackable, StatusRank
  <2>3. CASE "critical" \notin levels /\ "warning" \notin levels
    <3>1. \A k \in levels : k = "healthy"
      BY <2>3 DEF Trackable
    <3>2. StatusRank["healthy"] <= StatusRank["healthy"]
      BY DEF StatusRank
    <3>3. QED
      BY <3>1, <3>2
  <2>4. QED
    BY <2>1, <2>2, <2>3
<1>2. QED
  BY <1>1 DEF Worst

\* A decoded page has a level that can be tracked, or none is known.
LEMMA LevelIsTracked == \A page : Level(page) \in Trackable \cup {"unknown"}
<1> TAKE page
<1> DEFINE levels == ComponentLevels(Summary(page)) \cup {ImpactLevel(i.impact) : i \in Concerning(Summary(page))}
           tracked == levels \cap Trackable
<1>1. tracked # {} => Worst(tracked) \in Trackable
  BY WorstIsOne
<1>2. Level(page) = "unknown" \/ (tracked # {} /\ Level(page) = Worst(tracked))
  BY DEF Level
<1>3. QED
  BY <1>1, <1>2

UpstreamTypesInv ==
    /\ \A p \in Providers : current[p].level \in Trackable \cup {"unknown"}
    /\ polls \in 0 .. MaxPolls /\ upstreamFaults \in 0 .. MaxUpstreamFaults

\* The types of the upstream monitor; no change is told before it happened.
THEOREM UpstreamTypes == UpstreamSpec => []UpstreamTypeOK
<1> USE UpstreamAssumption DEF UpstreamTypesInv
<1>1. UpstreamInit => UpstreamTypesInv
  BY DEF UpstreamInit, Waiting
<1>2. UpstreamInv /\ UpstreamTypesInv => UpstreamTypeOK
  BY DEF UpstreamInv, UpstreamTypeOK
<1>3. UpstreamTypesInv /\ [UpstreamNext]_upstreamVars => UpstreamTypesInv'
  <2> SUFFICES ASSUME UpstreamTypesInv, [UpstreamNext]_upstreamVars PROVE UpstreamTypesInv'
    OBVIOUS
  <2>1. ASSUME NEW page, PollProviders(page) PROVE UpstreamTypesInv'
    <3>1. \A p \in Providers : current'[p].level = Level(page[p])
      BY <2>1 DEF PollProviders
    <3>2. polls' \in 0 .. MaxPolls /\ upstreamFaults' = upstreamFaults
      <4>1. polls < MaxPolls /\ polls' = polls + 1 /\ upstreamFaults' = upstreamFaults
        BY <2>1 DEF PollProviders
      <4>2. polls \in 0 .. MaxPolls
        OBVIOUS
      <4>3. QED
        BY <4>1, <4>2
    <3>3. QED
      BY <3>1, <3>2, LevelIsTracked
  <2>2. CASE TakeSnapshot \/ DrainTransitions \/ WriteTransition \/ PublishUpstream
    BY <2>2 DEF TakeSnapshot, DrainTransitions, WriteTransition, PublishUpstream
  <2>3. CASE WriteTransitionFails
    BY <2>3 DEF WriteTransitionFails
  <2>4. CASE RestartUpstream
    BY <2>4 DEF RestartUpstream, Waiting
  <2>5. CASE UNCHANGED upstreamVars
    BY <2>5 DEF upstreamVars
  <2>6. QED
    BY <2>1, <2>2, <2>3, <2>4, <2>5 DEF UpstreamNext
<1>4. QED
  BY <1>1, <1>2, <1>3, UpstreamInvariance, PTL DEF UpstreamSpec

-------------------------------------------------------------------------------
(* Facilities (resources/facilities/). *)

NoneTwice(rows) ==
    \A i, j \in DOMAIN rows : rows[i].origin = rows[j].origin /\ rows[i].id = rows[j].id => i = j

\* What an answer shows was answered for the registration.
AnsweredFor(o, registration) ==
    /\ o = [facility |-> o.facility, generation |-> o.generation, endpoint |-> o.endpoint,
            sequence |-> o.sequence, state |-> o.state, content |-> o.content]
    /\ o.sequence \in Nat /\ o.state \in FacilityWindow!Status
    /\ o.generation = registration.generation /\ o.endpoint = Select(registration).endpoint
    /\ o.content.headline \subseteq o.content.metrics
    /\ o.content.metrics \subseteq Contract[Select(registration).protocol].metrics
    /\ NoneTwice(o.content.usage)

IsRecord(r) ==
    /\ r = [registration |-> r.registration, observation |-> r.observation, stability |-> r.stability]
    /\ r.registration \in Manifests /\ r.stability \in FacilityWindow!Stabilizer
    /\ r.observation = Unseen \/ AnsweredFor(r.observation, r.registration)

Seen(r) == r.observation # Unseen

\* The record that replaces another: what it shows of the same generation is no older.
Succeeds(new, old) ==
    Seen(old) =>
        /\ SameSelection(old.registration, new.registration) => Seen(new)
        /\ SameProtocolGeneration(old.registration, new.registration) /\ Seen(new)
               => new.observation.sequence >= old.observation.sequence

RefreshInv ==
    /\ facilityPc = "idle" => candidates = <<>>
    /\ DOMAIN candidates \subseteq Facilities /\ \A f \in DOMAIN candidates : candidates[f] \in Manifests
    /\ DOMAIN updated \subseteq DOMAIN candidates
    /\ \A f \in DOMAIN updated :
        /\ IsRecord(updated[f])
        /\ f \in DOMAIN records => Succeeds(updated[f], records[f])
    /\ reply # NoReply =>
        /\ reply.facility \in DOMAIN candidates \ DOMAIN updated
        /\ AnsweredFor(reply, candidates[reply.facility])

\* The sequence shown of a generation that was not lost sight of is the highest one.
ToldInv ==
    /\ told \in [Facilities -> [Generations -> Nat]]
    /\ \A f \in DOMAIN records :
        Seen(records[f]) /\ <<f, records[f].registration.generation>> \notin forgotten =>
            records[f].observation.sequence = told[f][records[f].registration.generation]
    /\ \A f \in Facilities, g \in Generations :
        <<f, g>> \notin forgotten /\ told[f][g] # 0 =>
            f \in DOMAIN records /\ Seen(records[f]) /\ records[f].registration.generation = g

FacilityInv ==
    /\ manifest \in [Facilities -> Manifests \cup {Missing}]
    /\ facilityPc \in {"idle", "refresh"} /\ discovery \in DiscoveryWindow!Stabilizer
    /\ DOMAIN records \subseteq Facilities /\ \A f \in DOMAIN records : IsRecord(records[f])
    /\ RefreshInv /\ ToldInv

\* What a facility's window becomes is a window again.
LEMMA ObservedFacility ==
  ASSUME NEW s \in FacilityWindow!Stabilizer, NEW state \in FacilityWindow!Status, NEW immediate
  PROVE  FacilityWindow!Observe(s, state, immediate) \in FacilityWindow!Stabilizer
<1> DEFINE count == IF s.pending = state THEN s.count + 1 ELSE 1
<1>1. count \in Nat
  BY DEF FacilityWindow!Stabilizer
<1>2. FacilityWindow!Confirmed(state) \in FacilityWindow!Stabilizer
  BY DEF FacilityWindow!Confirmed, FacilityWindow!Stabilizer
<1>3. [s EXCEPT !.pending = state, !.count = count] \in FacilityWindow!Stabilizer
  BY <1>1 DEF FacilityWindow!Stabilizer
<1> HIDE DEF count
<1>4. QED
  BY <1>2, <1>3 DEF FacilityWindow!Observe, count

\* What the window of the discovery becomes is a window again.
LEMMA ObservedDiscovery ==
  ASSUME NEW s \in DiscoveryWindow!Stabilizer, NEW state \in {"healthy", "error"}
  PROVE  DiscoveryWindow!Observe(s, state, FALSE) \in DiscoveryWindow!Stabilizer
<1> DEFINE count == IF s.pending = state THEN s.count + 1 ELSE 1
<1>1. count \in Nat
  BY DEF DiscoveryWindow!Stabilizer
<1>2. state \in DiscoveryWindow!Status
  BY DEF DiscoveryWindow!Status
<1>3. DiscoveryWindow!Confirmed(state) \in DiscoveryWindow!Stabilizer
  BY <1>2 DEF DiscoveryWindow!Confirmed, DiscoveryWindow!Stabilizer
<1>4. [s EXCEPT !.pending = state, !.count = count] \in DiscoveryWindow!Stabilizer
  BY <1>1, <1>2 DEF DiscoveryWindow!Stabilizer
<1> HIDE DEF count
<1>5. QED
  BY <1>3, <1>4 DEF DiscoveryWindow!Observe, count

\* The states that a facility's window distinguishes.
LEMMA States ==
  /\ FacilityWindow!Status = {"starting", "stopping", "healthy", "degraded", "unavailable", "unreachable"}
  /\ FacilityWindow!Confirmed("starting") \in FacilityWindow!Stabilizer
  BY DEF FacilityWindow!Status, FacilityWindow!Confirmed, FacilityWindow!Stabilizer

\* An answer is not the placeholder of one, and stands for every registration of its selection.
LEMMA AnswersAreSeen ==
  ASSUME NEW o, NEW r, AnsweredFor(o, r)
  PROVE  o # Unseen
<1>1. "generation" \in DOMAIN o
  BY DEF AnsweredFor
<1>2. "generation" \notin DOMAIN Unseen
  BY DEF Unseen
<1>3. QED
  BY <1>1, <1>2

\* An answer for one registration is one for every registration of the same provider.
LEMMA SelectionsShareAnswers ==
  ASSUME NEW o, NEW r, NEW q, AnsweredFor(o, r), SameSelection(r, q)
  PROVE  AnsweredFor(o, q)
  BY DEF AnsweredFor, SameSelection

\* The record that a visit starts from.
LEMMA PriorTells ==
  ASSUME FacilityInv, NEW f \in Facilities, NEW registration \in Manifests
  PROVE  LET prior == Prior(f, registration)
         IN  /\ prior = [registration |-> prior.registration, observation |-> prior.observation,
                         stability |-> prior.stability]
             /\ prior.stability \in FacilityWindow!Stabilizer
             /\ prior.observation = Unseen \/ AnsweredFor(prior.observation, registration)
             /\ f \in DOMAIN records =>
                    IF SameSelection(records[f].registration, registration)
                    THEN prior.observation = records[f].observation
                    ELSE prior.observation = Unseen
<1> DEFINE old == records[f]
<1>1. CASE f \in DOMAIN records /\ SameSelection(old.registration, registration)
  <2>1. IsRecord(old)
    BY <1>1 DEF FacilityInv
  <2>2. Prior(f, registration) = old
    BY <1>1 DEF Prior
  <2>3. old.observation = Unseen \/ AnsweredFor(old.observation, registration)
    BY <1>1, <2>1, SelectionsShareAnswers DEF IsRecord
  <2>4. QED
    BY <1>1, <2>1, <2>2, <2>3 DEF IsRecord
<1>2. CASE ~(f \in DOMAIN records /\ SameSelection(old.registration, registration))
  <2>1. Prior(f, registration) =
            [registration |-> registration, observation |-> Unseen,
             stability |-> FacilityWindow!Confirmed("starting")]
    BY <1>2 DEF Prior
  <2>2. QED
    BY <1>2, <2>1, States
<1>3. QED
  BY <1>1, <1>2

\* A record of a registration that still shows what the prior one showed.
LEMMA KeptObservation ==
  ASSUME FacilityInv, NEW f \in Facilities, NEW registration \in Manifests, NEW new,
         new.registration = registration, new.observation = Prior(f, registration).observation,
         f \in DOMAIN records
  PROVE  Succeeds(new, records[f])
<1>1. IsRecord(records[f])
  BY DEF FacilityInv
<1>2. IF SameSelection(records[f].registration, registration)
      THEN new.observation = records[f].observation ELSE new.observation = Unseen
  BY PriorTells
<1>3. Seen(records[f]) => records[f].observation.sequence \in Nat
  BY <1>1 DEF IsRecord, AnsweredFor, Seen
<1>4. QED
  BY <1>2, <1>3 DEF Succeeds, Seen

\* The record of a failed exchange is a record, and a successor of the one before.
LEMMA FailedVisit ==
  ASSUME FacilityInv, NEW f \in Facilities, NEW registration \in Manifests, NEW transient
  PROVE  LET new == FailedRecord(f, registration, transient)
         IN  IsRecord(new) /\ (f \in DOMAIN records => Succeeds(new, records[f]))
<1> DEFINE prior == Prior(f, registration)
           new == FailedRecord(f, registration, transient)
           next == FacilityWindow!Observe(prior.stability, "unreachable", ~transient)
<1>1. /\ prior = [registration |-> prior.registration, observation |-> prior.observation,
                  stability |-> prior.stability]
      /\ prior.stability \in FacilityWindow!Stabilizer
      /\ prior.observation = Unseen \/ AnsweredFor(prior.observation, registration)
  BY PriorTells
<1>2. next \in FacilityWindow!Stabilizer
  BY <1>1, ObservedFacility, States
<1>3. new = [prior EXCEPT !.registration = registration, !.stability = next]
  BY DEF FailedRecord
<1> HIDE DEF prior, next
<1>4. new = [registration |-> registration, observation |-> prior.observation, stability |-> next]
  BY <1>1, <1>3
<1> USE DEF prior
<1> HIDE DEF new
<1>5. IsRecord(new)
  BY <1>1, <1>2, <1>4 DEF IsRecord
<1>6. new.registration = registration /\ new.observation = Prior(f, registration).observation
  BY <1>4
<1>7. f \in DOMAIN records => Succeeds(new, records[f])
  BY <1>6, KeptObservation
<1>8. QED
  BY <1>5, <1>7 DEF new

\* So is the record of a confirmed answer that did not regress.
LEMMA ConfirmedVisit ==
  ASSUME FacilityInv, NEW f \in Facilities, NEW registration \in Manifests, NEW answer,
         AnsweredFor(answer, registration), ~Regressed(f, registration, answer)
  PROVE  LET new == ConfirmedRecord(f, registration, answer)
         IN  IsRecord(new) /\ (f \in DOMAIN records => Succeeds(new, records[f]))
<1> DEFINE prior == Prior(f, registration)
           first == prior.observation = Unseen
           immediate == first /\ answer.state \in {"healthy", "starting", "stopping"}
           next == FacilityWindow!Observe(prior.stability, answer.state, immediate)
           shown == IF next.status = answer.state \/ first THEN answer
                    ELSE [prior.observation EXCEPT !.sequence = answer.sequence, !.state = next.status]
           new == ConfirmedRecord(f, registration, answer)
<1>1. /\ prior.stability \in FacilityWindow!Stabilizer
      /\ first \/ AnsweredFor(prior.observation, registration)
  BY PriorTells
<1>2. next \in FacilityWindow!Stabilizer
  <2>1. answer.state \in FacilityWindow!Status
    BY DEF AnsweredFor
  <2> HIDE DEF prior, immediate
  <2>2. QED
    BY <1>1, <2>1, ObservedFacility
<1>3. new = [registration |-> registration, stability |-> next, observation |-> shown]
  BY DEF ConfirmedRecord
<1> HIDE DEF next, prior
<1>4. AnsweredFor(shown, registration) /\ shown.sequence = answer.sequence
  <2>1. CASE next.status = answer.state \/ first
    BY <2>1
  <2>2. CASE ~(next.status = answer.state \/ first)
    <3> DEFINE old == prior.observation
    <3>1. AnsweredFor(old, registration)
      BY <1>1, <2>2
    <3>2. shown = [old EXCEPT !.sequence = answer.sequence, !.state = next.status]
      BY <2>2
    <3>3. answer.sequence \in Nat /\ next.status \in FacilityWindow!Status
      BY <1>2 DEF AnsweredFor, FacilityWindow!Stabilizer
    <3> HIDE DEF old
    <3>4. shown = [facility |-> old.facility, generation |-> old.generation,
                   endpoint |-> old.endpoint, sequence |-> answer.sequence,
                   state |-> next.status, content |-> old.content]
      <4>1. old = [facility |-> old.facility, generation |-> old.generation, endpoint |-> old.endpoint,
                   sequence |-> old.sequence, state |-> old.state, content |-> old.content]
        BY <3>1 DEF AnsweredFor
      <4>2. QED
        BY <3>2, <4>1
    <3> HIDE DEF shown
    <3>5. QED
      BY <3>1, <3>3, <3>4 DEF AnsweredFor
  <2>3. QED
    BY <2>1, <2>2
<1> HIDE DEF shown, new
<1>5. IsRecord(new)
  BY <1>2, <1>3, <1>4 DEF IsRecord
<1>6. ASSUME f \in DOMAIN records
      PROVE  Succeeds(new, records[f])
  <2>1. Seen(new) /\ new.registration = registration /\ new.observation.sequence = answer.sequence
    BY <1>3, <1>4, AnswersAreSeen DEF Seen
  <2>2. Seen(records[f]) => records[f].observation.sequence \in Nat
    BY <1>6 DEF FacilityInv, IsRecord, AnsweredFor, Seen
  <2>3. answer.sequence \in Nat
    BY DEF AnsweredFor
  <2>4. Seen(records[f]) /\ SameProtocolGeneration(records[f].registration, registration) =>
            ~(answer.sequence <= records[f].observation.sequence)
    BY <1>6 DEF Regressed, Seen
  <2>5. QED
    BY <2>1, <2>2, <2>3, <2>4 DEF Succeeds
<1>7. QED
  BY <1>5, <1>6 DEF new


\* A visit adds one record to the refresh under way.
LEMMA VisitKeepsInv ==
  ASSUME FacilityInv, NEW f \in DOMAIN candidates, NEW record, Put(f, record),
         IsRecord(record), f \in DOMAIN records => Succeeds(record, records[f]),
         reply' = NoReply,
         UNCHANGED <<manifest, records, candidates, facilityPc, discovery, told, forgotten, rewrites>>
  PROVE  FacilityInv'
<1>1. DOMAIN updated' = DOMAIN updated \cup {f}
      /\ \A g \in DOMAIN updated' : updated'[g] = IF g = f THEN record ELSE updated[g]
  BY DEF Put
<1>2. RefreshInv'
  <2>1. DOMAIN updated' \subseteq DOMAIN candidates'
    BY <1>1 DEF FacilityInv, RefreshInv
  <2>2. ASSUME NEW g \in DOMAIN updated'
        PROVE  /\ IsRecord(updated'[g])
               /\ g \in DOMAIN records => Succeeds(updated'[g], records[g])
    BY <1>1 DEF FacilityInv, RefreshInv
  <2>3. QED
    BY <2>1, <2>2 DEF FacilityInv, RefreshInv
<1>3. ToldInv'
  BY DEF FacilityInv, ToldInv
<1>4. QED
  BY <1>2, <1>3 DEF FacilityInv

\* What a listener says, normalized, was answered for the registration that was asked.
LEMMA NormalizedAnswer ==
  ASSUME NEW raw \in Replies, NEW registration, raw.generation = registration.generation, NEW f,
         NEW contract, contract = Contract[Select(registration).protocol]
  PROVE  AnsweredFor([facility |-> f, generation |-> raw.generation,
                      endpoint |-> Select(registration).endpoint, sequence |-> raw.sequence,
                      state |-> raw.state, content |-> Normalize(raw.body, contract)], registration)
<1> DEFINE body == raw.body
           content == Normalize(body, contract)
           rows == body.usage
           named == {i \in DOMAIN rows : rows[i].form # "unknown" /\ rows[i].origin \in {"codex", "other"}}
<1>1. content.headline \subseteq content.metrics
  BY DEF Normalize
<1>2. content.metrics \subseteq contract.metrics
  BY DEF Normalize, Displayed
<1>3. NoneTwice(content.usage)
  <2>1. content.usage = UsageRows(rows)
    BY DEF Normalize
  <2>2. CASE UsageRows(rows) = <<>>
    BY <2>1, <2>2 DEF NoneTwice
  <2>3. CASE UsageRows(rows) # <<>>
    <3>1. /\ UsageRows(rows) = [i \in named |-> rows[i]]
          /\ \A i, j \in named : ~(i # j /\ rows[i].origin = rows[j].origin /\ rows[i].id = rows[j].id)
      BY <2>3 DEF UsageRows
    <3> HIDE DEF named
    <3>2. QED
      BY <2>1, <3>1 DEF NoneTwice
  <2>4. QED
    BY <2>2, <2>3
<1>4. raw.sequence \in Nat /\ raw.state \in FacilityWindow!Status
  BY FacilityAssumption, States
<1> HIDE DEF content
<1>5. QED
  BY <1>1, <1>2, <1>3, <1>4 DEF AnsweredFor, content

\* Exchanges keep the invariant, whether they answer or fail.
LEMMA PollsKeepInv ==
  ASSUME FacilityInv, NEW f \in Facilities,
         \/ KeepRecord(f)
         \/ \E transient \in BOOLEAN : ExchangeFails(f, transient)
         \/ \E raw \in Replies : Exchange(f, raw)
  PROVE  FacilityInv'
<1>1. f \in DOMAIN candidates /\ candidates[f] \in Manifests
      /\ reply = NoReply /\ f \notin DOMAIN updated
  BY DEF KeepRecord, ExchangeFails, Exchange, ToVisit, FacilityInv, RefreshInv
<1>2. CASE KeepRecord(f)
  <2> DEFINE new == [records[f] EXCEPT !.registration = candidates[f]]
  <2>1. f \in DOMAIN records /\ SameSelection(records[f].registration, candidates[f])
    BY <1>2 DEF KeepRecord
  <2>2. IsRecord(records[f])
    BY <2>1 DEF FacilityInv
  <2>3. new = [registration |-> candidates[f], observation |-> records[f].observation,
               stability |-> records[f].stability]
    BY <2>2 DEF IsRecord
  <2>4. records[f].observation = Unseen \/ AnsweredFor(records[f].observation, candidates[f])
    BY <2>1, <2>2, SelectionsShareAnswers DEF IsRecord
  <2>5. IsRecord(new)
    BY <1>1, <2>2, <2>3, <2>4 DEF IsRecord
  <2>6. Prior(f, candidates[f]) = records[f]
    BY <2>1 DEF Prior
  <2>7. Succeeds(new, records[f])
    BY <1>1, <2>1, <2>3, <2>6, KeptObservation
  <2>8. Put(f, new) /\ reply' = NoReply
        /\ UNCHANGED <<manifest, records, candidates, facilityPc, discovery, told, forgotten, rewrites>>
    BY <1>1, <1>2 DEF KeepRecord
  <2> HIDE DEF new
  <2>9. QED
    BY <1>1, <2>5, <2>7, <2>8, VisitKeepsInv
<1>3. ASSUME NEW transient \in BOOLEAN, ExchangeFails(f, transient)
      PROVE  FacilityInv'
  <2> DEFINE new == FailedRecord(f, candidates[f], transient)
  <2>1. IsRecord(new) /\ (f \in DOMAIN records => Succeeds(new, records[f]))
    BY <1>1, FailedVisit
  <2>2. Put(f, new) /\ reply' = NoReply
        /\ UNCHANGED <<manifest, records, candidates, facilityPc, discovery, told, forgotten, rewrites>>
    BY <1>1, <1>3 DEF ExchangeFails
  <2> HIDE DEF new
  <2>3. QED
    BY <1>1, <2>1, <2>2, VisitKeepsInv
<1>4. ASSUME NEW raw \in Replies, Exchange(f, raw)
      PROVE  FacilityInv'
  <2> DEFINE offer == Select(candidates[f])
             contract == Contract[offer.protocol]
             answer == [facility |-> f, generation |-> raw.generation, endpoint |-> offer.endpoint,
                        sequence |-> raw.sequence, state |-> raw.state,
                        content |-> Normalize(raw.body, contract)]
  <2>1. CASE Violates(raw.body, contract) \/ raw.generation # candidates[f].generation
    <3> DEFINE new == FailedRecord(f, candidates[f], FALSE)
    <3>1. IsRecord(new) /\ (f \in DOMAIN records => Succeeds(new, records[f]))
      BY <1>1, FailedVisit
    <3>2. Put(f, new) /\ reply' = NoReply
          /\ UNCHANGED <<manifest, records, candidates, facilityPc, discovery, told, forgotten, rewrites>>
      BY <1>1, <1>4, <2>1 DEF Exchange
    <3> HIDE DEF new
    <3>3. QED
      BY <1>1, <3>1, <3>2, VisitKeepsInv
  <2>2. CASE ~(Violates(raw.body, contract) \/ raw.generation # candidates[f].generation)
    <3>1. reply' = answer /\ updated' = updated
          /\ UNCHANGED <<manifest, records, candidates, facilityPc, discovery, told, forgotten>>
      BY <1>4, <2>2 DEF Exchange
    <3>2. AnsweredFor(answer, candidates[f])
      BY <2>2, NormalizedAnswer
    <3>3. answer.facility = f
      OBVIOUS
    <3> HIDE DEF answer
    <3>4. RefreshInv'
      BY <1>1, <3>1, <3>2, <3>3 DEF FacilityInv, RefreshInv
    <3>5. ToldInv'
      BY <3>1 DEF FacilityInv, ToldInv
    <3>6. QED
      BY <3>1, <3>4, <3>5 DEF FacilityInv
  <2>3. QED
    BY <2>1, <2>2
<1>5. QED
  BY <1>2, <1>3, <1>4

\* So does reading the registration again.
LEMMA ConfirmKeepsInv == ASSUME FacilityInv, Confirm PROVE FacilityInv'
<1> DEFINE f == reply.facility
           asked == candidates[f]
           now == manifest[f]
           answering == Speakers(now) # {} /\ SameSelection(now, asked)
           new == IF ~answering THEN FailedRecord(f, asked, FALSE)
                  ELSE IF Regressed(f, now, reply) THEN FailedRecord(f, now, FALSE)
                  ELSE ConfirmedRecord(f, now, reply)
<1>1. f \in DOMAIN candidates /\ f \in Facilities /\ asked \in Manifests /\ AnsweredFor(reply, asked)
  BY DEF Confirm, FacilityInv, RefreshInv
<1>2. Put(f, new) /\ reply' = NoReply
      /\ UNCHANGED <<manifest, records, candidates, facilityPc, discovery, told, forgotten, rewrites>>
  BY DEF Confirm
<1>3. IsRecord(new) /\ (f \in DOMAIN records => Succeeds(new, records[f]))
  <2>1. CASE ~answering
    <3>1. new = FailedRecord(f, asked, FALSE)
      BY <2>1
    <3> HIDE DEF new, answering, asked, f
    <3>2. QED
      BY <1>1, <3>1, FailedVisit
  <2>2. CASE answering
    <3>1. now \in Manifests
      <4>1. now \in Manifests \cup {Missing}
        BY <1>1 DEF FacilityInv
      <4>2. Speakers(Missing) = {}
        BY DEF Speakers, CompatibleOffers, Missing
      <4>3. QED
        BY <2>2, <4>1, <4>2
    <3>2. AnsweredFor(reply, now)
      BY <1>1, <2>2, SelectionsShareAnswers DEF SameSelection
    <3>3. CASE Regressed(f, now, reply)
      <4>1. new = FailedRecord(f, now, FALSE)
        BY <2>2, <3>3
      <4> HIDE DEF new, now, f
      <4>2. QED
        BY <1>1, <3>1, <4>1, FailedVisit
    <3>4. CASE ~Regressed(f, now, reply)
      <4>1. new = ConfirmedRecord(f, now, reply)
        BY <2>2, <3>4
      <4> HIDE DEF new, now, f
      <4>2. QED
        BY <1>1, <3>1, <3>2, <3>4, <4>1, ConfirmedVisit
    <3>5. QED
      BY <3>3, <3>4
  <2>3. QED
    BY <2>1, <2>2
<1> HIDE DEF new, f
<1>4. QED
  BY <1>1, <1>2, <1>3, VisitKeepsInv

\* The records are published; a generation that the new ones do not continue is forgotten.
LEMMA PublishKeepsInv == ASSUME FacilityInv, PublishRecords PROVE FacilityInv'
<1> DEFINE seq(f) == updated[f].observation.sequence
           gen(f) == updated[f].registration.generation
<1>1. /\ records' = updated /\ candidates' = <<>> /\ updated' = <<>> /\ facilityPc' = "idle"
      /\ UNCHANGED <<manifest, reply, discovery>>
      /\ forgotten' = forgotten \cup UNION {Lost(f) : f \in DOMAIN records}
      /\ told' = [f \in Facilities |->
                    IF f \notin DOMAIN updated \/ updated[f].observation = Unseen THEN told[f]
                    ELSE [told[f] EXCEPT ![updated[f].observation.generation] =
                              Max({@, updated[f].observation.sequence})]]
  BY DEF PublishRecords
<1>2. /\ DOMAIN updated \subseteq Facilities
      /\ \A f \in DOMAIN updated : IsRecord(updated[f])
      /\ \A f \in DOMAIN updated : f \in DOMAIN records => Succeeds(updated[f], records[f])
      /\ \A f \in DOMAIN records : f \in Facilities /\ IsRecord(records[f])
      /\ told \in [Facilities -> [Generations -> Nat]]
  BY DEF FacilityInv, RefreshInv, ToldInv
<1>3. ASSUME NEW f \in DOMAIN updated
      PROVE  /\ gen(f) \in Generations
             /\ Seen(updated[f]) => updated[f].observation.generation = gen(f) /\ seq(f) \in Nat
  BY <1>2 DEF IsRecord, Generations, Seen, AnsweredFor
<1>4. \A a, b \in Nat : Max({a, b}) = IF a >= b THEN a ELSE b
  BY DEF Max
<1>5. ASSUME NEW f \in Facilities
      PROVE  told'[f] = IF f \notin DOMAIN updated \/ ~Seen(updated[f]) THEN told[f]
                        ELSE [told[f] EXCEPT ![gen(f)] =
                                 IF told[f][gen(f)] >= seq(f) THEN told[f][gen(f)] ELSE seq(f)]
  <2>1. CASE f \notin DOMAIN updated \/ ~Seen(updated[f])
    BY <1>1, <2>1 DEF Seen
  <2>2. CASE ~(f \notin DOMAIN updated \/ ~Seen(updated[f]))
    <3>1. told'[f] = [told[f] EXCEPT ![gen(f)] = Max({told[f][gen(f)], seq(f)})]
      BY <1>1, <1>3, <2>2 DEF Seen
    <3>2. Max({told[f][gen(f)], seq(f)}) = IF told[f][gen(f)] >= seq(f) THEN told[f][gen(f)] ELSE seq(f)
      BY <1>2, <1>3, <1>4, <2>2
    <3> HIDE DEF seq, gen
    <3>3. QED
      BY <2>2, <3>1, <3>2
  <2>3. QED
    BY <2>1, <2>2
<1> HIDE DEF seq, gen
<1>6. ASSUME NEW f \in Facilities, NEW g \in Generations, <<f, g>> \notin forgotten', told[f][g] # 0
      PROVE  /\ f \in DOMAIN updated /\ Seen(updated[f]) /\ gen(f) = g
             /\ seq(f) >= told[f][g]
  <2>1. /\ f \in DOMAIN records /\ Seen(records[f]) /\ records[f].registration.generation = g
        /\ records[f].observation.sequence = told[f][g]
    BY <1>1, <1>6 DEF FacilityInv, ToldInv
  <2>2. <<f, g>> \notin Lost(f)
    BY <1>1, <1>6, <2>1
  <2>3. /\ f \in DOMAIN updated
        /\ \/ SameSelection(records[f].registration, updated[f].registration)
           \/ /\ SameProtocolGeneration(records[f].registration, updated[f].registration)
              /\ updated[f].observation # Unseen
    BY <2>1, <2>2 DEF Lost
  <2>4. Seen(updated[f]) /\ SameProtocolGeneration(records[f].registration, updated[f].registration)
    BY <1>2, <2>1, <2>3 DEF Succeeds, SameSelection, SameProtocolGeneration, Seen
  <2>5. updated[f].observation.sequence >= records[f].observation.sequence
    BY <1>2, <2>1, <2>3, <2>4 DEF Succeeds
  <2>6. QED
    BY <2>1, <2>3, <2>4, <2>5 DEF SameProtocolGeneration, seq, gen
<1>7. ToldInv'
  <2>1. told' \in [Facilities -> [Generations -> Nat]]
    <3>1. told' = [f \in Facilities |-> told'[f]]
      BY <1>1
    <3>2. ASSUME NEW f \in Facilities
          PROVE  told'[f] \in [Generations -> Nat]
      <4>1. told[f] \in [Generations -> Nat]
        BY <1>2
      <4>2. f \in DOMAIN updated /\ Seen(updated[f]) => gen(f) \in Generations /\ seq(f) \in Nat
        BY <1>3
      <4>3. QED
        BY <1>5, <4>1, <4>2
    <3>3. QED
      BY <3>1, <3>2
  <2>2. ASSUME NEW f \in DOMAIN updated, Seen(updated[f]), <<f, gen(f)>> \notin forgotten'
        PROVE  seq(f) = told'[f][gen(f)]
    <3>1. told'[f][gen(f)] = IF told[f][gen(f)] >= seq(f) THEN told[f][gen(f)] ELSE seq(f)
      <4>1. f \in Facilities /\ told[f] \in [Generations -> Nat] /\ gen(f) \in Generations
        BY <1>2, <1>3
      <4>2. told'[f] = [told[f] EXCEPT ![gen(f)] =
                            IF told[f][gen(f)] >= seq(f) THEN told[f][gen(f)] ELSE seq(f)]
        BY <1>5, <2>2, <4>1
      <4>3. QED
        BY <4>1, <4>2
    <3>2. told[f][gen(f)] # 0 => seq(f) >= told[f][gen(f)]
      BY <1>2, <1>3, <1>6, <2>2
    <3>3. told[f][gen(f)] \in Nat /\ seq(f) \in Nat
      BY <1>2, <1>3, <2>2
    <3>4. QED
      BY <3>1, <3>2, <3>3
  <2>3. ASSUME NEW f \in Facilities, NEW g \in Generations, <<f, g>> \notin forgotten', told'[f][g] # 0
        PROVE  f \in DOMAIN updated /\ Seen(updated[f]) /\ gen(f) = g
    <3>1. CASE f \in DOMAIN updated /\ Seen(updated[f]) /\ gen(f) = g
      BY <3>1
    <3>2. CASE ~(f \in DOMAIN updated /\ Seen(updated[f]) /\ gen(f) = g)
      <4>1. told'[f][g] = told[f][g]
        <5>1. told[f] \in [Generations -> Nat]
          BY <1>2
        <5>2. CASE f \in DOMAIN updated /\ Seen(updated[f])
          <6>1. told'[f] = [told[f] EXCEPT ![gen(f)] =
                                IF told[f][gen(f)] >= seq(f) THEN told[f][gen(f)] ELSE seq(f)]
            BY <1>5, <5>2
          <6>2. gen(f) # g
            BY <3>2, <5>2
          <6>3. QED
            BY <5>1, <6>1, <6>2
        <5>3. CASE ~(f \in DOMAIN updated /\ Seen(updated[f]))
          BY <1>5, <5>3
        <5>4. QED
          BY <5>2, <5>3
      <4>2. QED
        BY <1>6, <2>3, <4>1
    <3>3. QED
      BY <3>1, <3>2
  <2>4. QED
    BY <1>1, <2>1, <2>2, <2>3 DEF ToldInv, seq, gen
<1>8. RefreshInv'
  <2>1. reply = NoReply
    BY DEF PublishRecords, FacilityInv, RefreshInv
  <2>2. QED
    BY <1>1, <2>1 DEF RefreshInv
<1>9. QED
  BY <1>1, <1>2, <1>7, <1>8 DEF FacilityInv


\* So does the listing of the registrations, and what others write there.
LEMMA ScansKeepInv ==
  ASSUME FacilityInv,
         \/ BeginRefresh \/ RefreshFails
         \/ \E f \in Facilities : \E m \in Manifests \cup {Missing} : RewriteManifest(f, m)
  PROVE  FacilityInv'
<1>1. CASE BeginRefresh
  <2>1. /\ candidates' = [f \in {g \in Facilities : Speakers(manifest[g]) # {}} |-> manifest[f]]
        /\ updated' = <<>> /\ facilityPc' = "refresh"
        /\ discovery' = DiscoveryWindow!Observe(discovery, "healthy", FALSE)
        /\ UNCHANGED <<manifest, records, reply, told, forgotten>>
    BY <1>1 DEF BeginRefresh
  <2>2. Speakers(Missing) = {}
    BY DEF Speakers, CompatibleOffers, Missing
  <2>3. DOMAIN candidates' \subseteq Facilities /\ \A f \in DOMAIN candidates' : candidates'[f] \in Manifests
    BY <2>1, <2>2 DEF FacilityInv
  <2>4. reply = NoReply
    BY <1>1 DEF BeginRefresh, FacilityInv, RefreshInv
  <2>5. RefreshInv'
    <3>1. DOMAIN updated' = {} /\ facilityPc' # "idle" /\ reply' = NoReply
      BY <2>1, <2>4
    <3>2. QED
      BY <2>3, <3>1 DEF RefreshInv
  <2>6. discovery' \in DiscoveryWindow!Stabilizer
    BY <2>1, ObservedDiscovery DEF FacilityInv
  <2>7. ToldInv'
    BY <2>1 DEF FacilityInv, ToldInv
  <2>8. QED
    BY <2>1, <2>5, <2>6, <2>7 DEF FacilityInv
<1>2. CASE RefreshFails
  <2>1. /\ discovery' = DiscoveryWindow!Observe(discovery, "error", FALSE)
        /\ UNCHANGED <<manifest, records, candidates, updated, reply, facilityPc, told, forgotten>>
    BY <1>2 DEF RefreshFails
  <2>2. discovery' \in DiscoveryWindow!Stabilizer
    BY <2>1, ObservedDiscovery DEF FacilityInv
  <2>3. QED
    BY <2>1, <2>2 DEF FacilityInv, RefreshInv, ToldInv
<1>3. CASE \E f \in Facilities : \E m \in Manifests \cup {Missing} : RewriteManifest(f, m)
  <2>1. /\ manifest' \in [Facilities -> Manifests \cup {Missing}]
        /\ UNCHANGED <<records, candidates, updated, reply, facilityPc, discovery, told, forgotten>>
    BY <1>3 DEF RewriteManifest, FacilityInv
  <2>2. QED
    BY <2>1 DEF FacilityInv, RefreshInv, ToldInv
<1>4. QED
  BY <1>1, <1>2, <1>3

\* The invariant holds initially.
LEMMA InitFacilityInv == FacilityInit => FacilityInv
<1> SUFFICES ASSUME FacilityInit PROVE FacilityInv
  OBVIOUS
<1>1. /\ manifest = [f \in Facilities |-> Missing]
      /\ records = <<>> /\ candidates = <<>> /\ updated = <<>>
      /\ reply = NoReply /\ facilityPc = "idle"
      /\ discovery = DiscoveryWindow!Confirmed("healthy")
      /\ told = [f \in Facilities |-> [g \in Generations |-> 0]]
  BY DEF FacilityInit
<1>2. discovery \in DiscoveryWindow!Stabilizer
  BY <1>1 DEF DiscoveryWindow!Confirmed, DiscoveryWindow!Stabilizer, DiscoveryWindow!Status
<1>3. RefreshInv /\ ToldInv
  BY <1>1 DEF RefreshInv, ToldInv
<1>4. QED
  BY <1>1, <1>2, <1>3 DEF FacilityInv

\* Every step keeps it: one case per action.
LEMMA NextFacilityInv == FacilityInv /\ [FacilityNext]_facilityVars => FacilityInv'
<1> SUFFICES ASSUME FacilityInv, [FacilityNext]_facilityVars PROVE FacilityInv'
  OBVIOUS
<1>1. CASE FacilityNext
  BY <1>1, ScansKeepInv, PollsKeepInv, ConfirmKeepsInv, PublishKeepsInv DEF FacilityNext
<1>2. CASE UNCHANGED facilityVars
  BY <1>2 DEF facilityVars, FacilityInv, RefreshInv, ToldInv
<1>3. QED
  BY <1>1, <1>2

\* The inductive invariant of the scan, the polls and the published records.
THEOREM FacilityInvariance == FacilitySpec => []FacilityInv
<1>1. QED
  BY InitFacilityInv, NextFacilityInv, PTL DEF FacilitySpec

\* The invariant implies the types.
LEMMA FacilityInvTypes == FacilityInv => FacilityTypeOK
  BY DEF FacilityInv, RefreshInv, IsRecord, FacilityTypeOK

\* A published snapshot was answered by the generation and at the endpoint that its record
\* names, and none is older than one shown before of its generation (observer.py:182, :320).
THEOREM FacilitiesStayCurrent == FacilitySpec => []FacilitiesAreCurrent
<1>1. FacilityInv => FacilitiesAreCurrent
  <2> SUFFICES ASSUME FacilityInv PROVE FacilitiesAreCurrent
    OBVIOUS
  <2>1. ASSUME NEW f \in DOMAIN records, records[f].observation # Unseen
        PROVE  AnsweredFor(records[f].observation, records[f].registration)
    BY <2>1 DEF FacilityInv, IsRecord
  <2>2. ShownAsAnswered
    <3> SUFFICES ASSUME NEW f \in DOMAIN records, records[f].observation # Unseen
                 PROVE  LET o == records[f].observation
                            r == records[f].registration
                        IN  /\ o.generation = r.generation /\ o.endpoint = Select(r).endpoint
                            /\ o.content.headline \subseteq o.content.metrics
                            /\ o.content.metrics \subseteq Contract[Select(r).protocol].metrics
                            /\ \A i, j \in DOMAIN o.content.usage :
                                <<o.content.usage[i].origin, o.content.usage[i].id>>
                                    = <<o.content.usage[j].origin, o.content.usage[j].id>> => i = j
      BY DEF ShownAsAnswered
    <3>1. QED
      BY <2>1 DEF AnsweredFor, NoneTwice
  <2>3. SequencesAdvance
    BY <2>1 DEF FacilityInv, ToldInv, SequencesAdvance, Seen, AnsweredFor
  <2>4. QED
    BY <2>2, <2>3 DEF FacilitiesAreCurrent
<1>2. QED
  BY <1>1, FacilityInvariance, PTL

-------------------------------------------------------------------------------
(* Prices (resources/ai/pricing_catalog.py). *)

\* The steps of a refresh between taking and leaving _refresh_lock.
Holding == {"manifest", "catalog", "keep", "install", "activate", "note", "failed"}
RefreshSteps == Holding \cup {"idle", "begin", "leave"}
Release == Releases \cup {Bundled, Damaged}

\* A release that was verified against what was in use.
Installed(c) == c \in Releases /\ Valid(c) /\ c.version > Bundled.version

PriceFields ==
    /\ PriceTypeOK
    /\ refresher \in [Refreshers -> [pc : RefreshSteps, manifest : Release, base : Release, fetched : Release]]
    /\ highest \in Nat /\ damaged \in BOOLEAN

\* The lock is held by the one refresh that is between its steps.
OneRefresh == \A w \in Refreshers : refreshLock = w <=> refresher[w].pc \in Holding

\* A refresh compares with what is in use, which nobody else can change.
ComparedWith(w) ==
    /\ At(w, "catalog") =>
        /\ refresher[w].manifest \in Releases /\ refresher[w].base = active
        /\ refresher[w].manifest.version # active.version
    /\ (At(w, "keep") \/ At(w, "install") \/ At(w, "activate")) =>
        Installed(refresher[w].fetched) /\ refresher[w].fetched.version > active.version
    /\ At(w, "activate") /\ ~damaged => catalogFile = refresher[w].fetched

\* What is in use and what is on disk was verified.
FilesAreSound ==
    /\ active = Bundled \/ Installed(active)
    /\ \A c \in {catalogFile, previousFile} : c = Damaged \/ Installed(c)

\* While no file was damaged, the files are in step with what is in use.
PricesInStep ==
    ~damaged =>
        /\ active.version = highest
        /\ active # Bundled => catalogFile.version >= active.version
        /\ (\A w \in Refreshers : ~At(w, "activate")) => catalogFile.version <= active.version
        /\ previousFile.version <= catalogFile.version

PriceInv ==
    /\ PriceFields /\ OneRefresh /\ FilesAreSound /\ PricesInStep
    /\ \A w \in Refreshers : ComparedWith(w)

--------------------------------------------------------------------------------
\* A version is a number, also that of no release.
LEMMA VersionsAreNumbers == \A r \in Release : r.version \in Nat
  BY PriceCatalogAssumption DEF Release, Damaged

\* The best of three candidates is one of them, and none is newer.
LEMMA BestIsNewest ==
  ASSUME NEW a, NEW b, NEW c, a.version \in Nat, b.version \in Nat, c.version \in Nat
  PROVE  /\ Best(<<a, b, c>>) \in {a, b, c}
         /\ \A d \in {a, b, c} : d.version <= Best(<<a, b, c>>).version
<1> DEFINE s == <<a, b, c>>
           Is(i) == \A j \in DOMAIN s : \/ s[j].version < s[i].version
                                        \/ s[j].version = s[i].version /\ i <= j
<1>1. DOMAIN s = {1, 2, 3} /\ s[1] = a /\ s[2] = b /\ s[3] = c
  OBVIOUS
<1>2. \E i \in DOMAIN s : Is(i)
  <2>1. CASE a.version >= b.version /\ a.version >= c.version
    BY <1>1, <2>1
  <2>2. CASE b.version > a.version /\ b.version >= c.version
    BY <1>1, <2>2
  <2>3. CASE c.version > a.version /\ c.version > b.version
    BY <1>1, <2>3
  <2>4. QED
    BY <2>1, <2>2, <2>3
<1>3. PICK i \in DOMAIN s : i = (CHOOSE k \in DOMAIN s : Is(k)) /\ Is(i)
  BY <1>2
<1>4. Best(s) = s[i]
  BY <1>3 DEF Best
<1>5. QED
  BY <1>1, <1>3, <1>4

\* At the start nothing is installed.
LEMMA InitPriceInv == PriceInit => PriceInv
<1> SUFFICES ASSUME PriceInit PROVE PriceInv
  OBVIOUS
<1> USE DEF PriceInit, Resting, Damaged, Refreshers, Nobody
<1>1. \A w \in Refreshers : refresher[w].pc = "idle"
  OBVIOUS
<1>2. PriceFields
  <2>1. Resting \in [pc : RefreshSteps, manifest : Release, base : Release, fetched : Release]
    BY DEF RefreshSteps, Release
  <2>2. refresher \in [Refreshers -> [pc : RefreshSteps, manifest : Release, base : Release, fetched : Release]]
    BY <2>1
  <2>3. highest \in Nat
    BY PriceCatalogAssumption
  <2>4. damaged \in BOOLEAN
    OBVIOUS
  <2>5. PriceTypeOK
    <3>1. age \in 0 .. 2
      OBVIOUS
    <3>2. refresher["thread"].pc = "idle" /\ refreshing \in BOOLEAN
      BY <1>1
    <3>3. QED
      BY <3>1, <3>2 DEF PriceTypeOK
  <2>6. QED
    BY <2>2, <2>3, <2>4, <2>5 DEF PriceFields
<1>3. OneRefresh /\ \A w \in Refreshers : ComparedWith(w)
  BY <1>1 DEF OneRefresh, ComparedWith, At, Holding
<1>4. FilesAreSound /\ PricesInStep
  BY PriceCatalogAssumption DEF FilesAreSound, PricesInStep
<1>5. QED
  BY <1>2, <1>3, <1>4 DEF PriceInv

\* A step of one refresh.
LEMMA RefreshKeepsInv ==
  ASSUME PriceInv, NEW w \in Refreshers,
         \/ BeginPriceRefresh(w) \/ FetchManifest(w) \/ FetchFails(w) \/ FetchCatalog(w)
         \/ KeepPrevious(w) \/ InstallCatalog(w) \/ Activate(w)
         \/ NoteCheck(w) \/ PriceWriteFails(w) \/ LeaveRefresh(w)
  PROVE  PriceInv'
<1> USE PriceCatalogAssumption, VersionsAreNumbers
    DEF PriceInv, PriceFields, PriceTypeOK, OneRefresh, ComparedWith, FilesAreSound, PricesInStep, Installed, At, Move,
        Refreshers, Nobody, Damaged, Holding, RefreshSteps, Release, outside, onDisk, Fault
<1>1. CASE BeginPriceRefresh(w)
  BY <1>1 DEF BeginPriceRefresh
<1>2. CASE FetchManifest(w)
  BY <1>2 DEF FetchManifest, Digest
<1>3. CASE FetchFails(w)
  BY <1>3 DEF FetchFails
<1>4. CASE FetchCatalog(w)
  <2> DEFINE sound == Verified(latest, refresher[w].manifest, refresher[w].base)
  <2>1. /\ At(w, "catalog") /\ UNCHANGED <<outside, active, onDisk, age, refreshLock, refreshing, highest, priceFaults, damaged>>
        /\ refresher' = [refresher EXCEPT ![w].fetched = latest, ![w].pc = IF sound THEN "keep" ELSE "failed"]
    BY <1>4 DEF FetchCatalog
  <2>2. sound => Installed(latest) /\ latest.version > active.version
    BY <2>1 DEF Verified, Digest
  <2> HIDE DEF sound
  <2>3. PriceFields'
    BY <2>1
  <2>4. OneRefresh' /\ FilesAreSound' /\ PricesInStep'
    BY <2>1
  <2>5. \A v \in Refreshers : ComparedWith(v)'
    BY <2>1, <2>2
  <2>6. QED
    BY <2>3, <2>4, <2>5
<1>5. CASE KeepPrevious(w)
  BY <1>5 DEF KeepPrevious
<1>6. CASE InstallCatalog(w)
  BY <1>6 DEF InstallCatalog
<1>7. CASE Activate(w)
  <2> DEFINE new == refresher[w].fetched
  <2>1. /\ At(w, "activate") /\ Move(w, "note") /\ active' = new
        /\ highest' = IF new.version > highest THEN new.version ELSE highest
        /\ UNCHANGED <<outside, onDisk, age, refreshLock, refreshing, priceFaults, damaged>>
    BY <1>7 DEF Activate
  <2>2. /\ Installed(new) /\ new.version > active.version /\ new.version \in Nat
        /\ ~damaged => catalogFile = new
    BY <2>1
  <2>3. PriceFields'
    BY <2>1, <2>2
  <2>4. OneRefresh' /\ FilesAreSound'
    BY <2>1, <2>2
  <2>5. PricesInStep'
    BY <2>1, <2>2
  <2>6. \A v \in Refreshers : ComparedWith(v)'
    BY <2>1, <2>2
  <2>7. QED
    BY <2>3, <2>4, <2>5, <2>6
<1>8. CASE NoteCheck(w)
  BY <1>8 DEF NoteCheck
<1>9. CASE PriceWriteFails(w)
  BY <1>9 DEF PriceWriteFails
<1>10. CASE LeaveRefresh(w)
  <2>1. /\ At(w, "leave") /\ refresher' = [refresher EXCEPT ![w] = Resting]
        /\ refreshing' = IF w = "thread" THEN FALSE ELSE refreshing
        /\ UNCHANGED <<outside, active, onDisk, age, refreshLock, highest, priceFaults, damaged>>
    BY <1>10 DEF LeaveRefresh
  <2>2. /\ Resting \in [pc : RefreshSteps, manifest : Release, base : Release, fetched : Release]
        /\ Resting.pc = "idle"
    BY DEF Resting
  <2> HIDE DEF Release, Installed
  <2>3. PriceFields'
    <3>1. /\ PriceTypeOK /\ highest \in Nat /\ damaged \in BOOLEAN
          /\ refresher \in [Refreshers -> [pc : RefreshSteps, manifest : Release, base : Release, fetched : Release]]
      OBVIOUS
    <3> HIDE DEF PriceInv, ComparedWith, FilesAreSound, PricesInStep, RefreshSteps, OneRefresh
    <3>2. refresher' \in [Refreshers -> [pc : RefreshSteps, manifest : Release, base : Release, fetched : Release]]
      BY <2>1, <2>2, <3>1
    <3>3. PriceTypeOK'
      BY <2>1, <2>2, <3>1
    <3>4. QED
      BY <2>1, <3>1, <3>2, <3>3
  <2>4. OneRefresh' /\ FilesAreSound' /\ PricesInStep'
    BY <2>1, <2>2 DEF Installed
  <2>5. \A v \in Refreshers : ComparedWith(v)'
    BY <2>1, <2>2 DEF Installed
  <2>6. QED
    BY <2>3, <2>4, <2>5
<1>11. QED
  BY <1>1, <1>2, <1>3, <1>4, <1>5, <1>6, <1>7, <1>8, <1>9, <1>10

\* The server, the clock and the disk.
LEMMA SurroundingsKeepInv ==
  ASSUME PriceInv, ForceRefresh \/ PublishRelease \/ TimePasses \/ DamageFile
  PROVE  PriceInv'
<1> USE PriceCatalogAssumption, VersionsAreNumbers
    DEF PriceInv, PriceFields, PriceTypeOK, OneRefresh, ComparedWith, FilesAreSound, PricesInStep, Installed, At, Move,
        Refreshers, Nobody, Damaged, Holding, RefreshSteps, Release, outside, onDisk, Fault
<1>1. CASE ForceRefresh
  BY <1>1 DEF ForceRefresh
<1>2. CASE PublishRelease
  BY <1>2 DEF PublishRelease
<1>3. CASE TimePasses
  BY <1>3 DEF TimePasses
<1>4. CASE DamageFile
  BY <1>4 DEF DamageFile
<1>5. QED
  BY <1>1, <1>2, <1>3, <1>4

\* A restart reads the best of the three, which is what was in use or newer.
LEMMA RestartKeepsInv == PriceInv /\ RestartPrices => PriceInv'
<1> SUFFICES ASSUME PriceInv, RestartPrices PROVE PriceInv'
  OBVIOUS
<1> USE DEF PriceInv, PriceFields, PriceTypeOK, outside, onDisk, Fault
<1>1. {Bundled, catalogFile, previousFile} \subseteq Release
  BY DEF Release
<1>2. /\ active' \in {Bundled, catalogFile, previousFile}
      /\ \A d \in {Bundled, catalogFile, previousFile} : d.version <= active'.version
  <2>1. Bundled.version \in Nat /\ catalogFile.version \in Nat /\ previousFile.version \in Nat
    BY <1>1, VersionsAreNumbers
  <2>2. LET best == Best(<<Bundled, catalogFile, previousFile>>)
        IN  /\ best \in {Bundled, catalogFile, previousFile}
            /\ \A d \in {Bundled, catalogFile, previousFile} : d.version <= best.version
    BY <2>1, BestIsNewest
  <2>3. active' = Best(<<Bundled, catalogFile, previousFile>>)
    BY DEF RestartPrices
  <2>4. QED
    BY <2>2, <2>3
<1>3. active'.version \in Nat /\ (active' = Bundled \/ Installed(active'))
  <2>1. active' # Damaged \/ active' = Bundled
    BY <1>2, PriceCatalogAssumption DEF Damaged, FilesAreSound, Installed
  <2>2. QED
    BY <1>1, <1>2, <2>1, VersionsAreNumbers DEF FilesAreSound
<1>4. \A w \in Refreshers : refresher'[w] = Resting
  BY DEF RestartPrices
<1>5. PriceFields'
  BY <1>3, <1>4 DEF RestartPrices, Resting, Refreshers, Nobody, Damaged, RefreshSteps, Release, Installed
<1>6. OneRefresh' /\ \A w \in Refreshers : ComparedWith(w)'
  BY <1>4 DEF RestartPrices, OneRefresh, ComparedWith, At, Resting, Holding, Refreshers, Nobody
<1>7. FilesAreSound'
  BY <1>3 DEF RestartPrices, FilesAreSound, Installed
<1>8. PricesInStep'
  <2>1. SUFFICES ASSUME ~damaged PROVE PricesInStep'
    BY DEF RestartPrices, PricesInStep
  <2>2. catalogFile.version \in Nat /\ previousFile.version \in Nat /\ active.version \in Nat
    BY <1>1, VersionsAreNumbers, PriceCatalogAssumption DEF Release
  <2>3. highest <= active'.version
    <3>1. CASE active = Bundled
      BY <2>1, <1>2, <3>1 DEF PricesInStep
    <3>2. CASE active # Bundled
      BY <2>1, <2>2, <1>2, <1>3, <3>2 DEF PricesInStep
    <3>3. QED
      BY <3>1, <3>2
  <2>4. active' # Bundled => catalogFile.version >= active'.version
    BY <2>1, <2>2, <1>2, <1>3 DEF PricesInStep
  <2>5. QED
    BY <2>1, <2>2, <2>3, <2>4, <1>2, <1>3 DEF RestartPrices, PricesInStep
<1>9. QED
  BY <1>5, <1>6, <1>7, <1>8

\* Every step keeps it: one case per action.
LEMMA NextPriceInv == PriceInv /\ [PriceNext]_priceVars => PriceInv'
<1> SUFFICES ASSUME PriceInv, [PriceNext]_priceVars PROVE PriceInv'
  OBVIOUS
<1>1. CASE \E interval \in {1, 2} : ScheduleRefresh(interval)
  BY <1>1, PriceCatalogAssumption, VersionsAreNumbers
  DEF ScheduleRefresh, PriceInv, PriceFields, PriceTypeOK, OneRefresh, ComparedWith, FilesAreSound, PricesInStep, Installed,
      At, Move, Refreshers, Nobody, Damaged, Holding, RefreshSteps, Release, outside, onDisk
<1>2. CASE ForceRefresh \/ PublishRelease \/ TimePasses \/ DamageFile
  BY <1>2, SurroundingsKeepInv
<1>3. CASE RestartPrices
  BY <1>3, RestartKeepsInv
<1>4. CASE \E w \in Refreshers :
              \/ BeginPriceRefresh(w) \/ FetchManifest(w) \/ FetchFails(w) \/ FetchCatalog(w)
              \/ KeepPrevious(w) \/ InstallCatalog(w) \/ Activate(w)
              \/ NoteCheck(w) \/ PriceWriteFails(w) \/ LeaveRefresh(w)
  BY <1>4, RefreshKeepsInv
<1>5. CASE UNCHANGED priceVars
  BY <1>5 DEF priceVars, onDisk, outside, PriceInv, PriceFields, PriceTypeOK, OneRefresh, ComparedWith, FilesAreSound,
              PricesInStep, Installed, At
<1>6. QED
  BY <1>1, <1>2, <1>3, <1>4, <1>5 DEF PriceNext

\* The inductive invariant of the manager.
THEOREM PriceInvariance == PriceSpec => []PriceInv
<1>1. QED
  BY InitPriceInv, NextPriceInv, PTL DEF PriceSpec

\* Type correctness of the manager (pricing_catalog.py).
THEOREM PriceTypes == PriceSpec => []PriceTypeOK
<1>1. PriceInv => PriceTypeOK
  BY DEF PriceInv, PriceFields
<1>2. QED
  BY <1>1, PriceInvariance, PTL

\* Prices never go back, and what is read was verified (pricing_catalog.py:304, :348).
THEOREM PricesStand == PriceSpec => []PricesNeverGoBack
<1>1. PriceInv => PricesNeverGoBack
  BY DEF PriceInv, PriceFields, FilesAreSound, PricesInStep, Installed, PricesNeverGoBack
<1>2. QED
  BY <1>1, PriceInvariance, PTL

-------------------------------------------------------------------------------
(* The Xray statistics. *)

\* A poll is between its reading and its record.
PollPending == {"saveTracker", "append", "record"}
\* The reading that the session has been told of.
SettledReading == IF xrayPc \in PollPending THEN sample.since ELSE tracker.epoch
UserReadings == UNION {[listed -> Nat] : listed \in SUBSET XrayUsers}
UserBytes == [XrayUsers -> Nat]

XTypes ==
    /\ XrayTypeOK
    /\ movedAt \in [0 .. MaxEpoch -> UserBytes]
    /\ {tracker, trackerFile} \subseteq [users : UserReadings, epoch : Nat]
    /\ {session, sessionFile} \subseteq [start : Nat, coverage : Nat, totals : UserBytes]
    /\ sample \in [users : UserBytes, since : Nat, first : BOOLEAN]
    /\ xrayShown \in [start : Nat, totals : UserBytes] /\ xrayShown.start <= epoch
    /\ disturbed \in BOOLEAN /\ xrayFaults \in Nat

\* Traffic only grows, and the server shows no more than there was.
GrowingTotals ==
    /\ \A e, f \in 0 .. epoch : e <= f => \A u \in XrayUsers : movedAt[e][u] <= movedAt[f][u]
    /\ \A e \in 0 .. epoch : \A u \in XrayUsers : movedAt[e][u] <= moved[u]
    /\ movedAt[0] = NoBytes
    /\ \A u \in XrayUsers : counter[u] <= moved[u]

\* The file of the baseline is not newer than the baseline, and equal from its save on.
PollsOrdered ==
    /\ trackerFile.epoch <= tracker.epoch
    /\ xrayPc \in PollPending => sample.since <= tracker.epoch
    /\ xrayPc \in {"append", "record"} => trackerFile = tracker
    /\ xrayPc = "resetSession" =>
        /\ meterStart # Unread /\ session.start < meterStart
        /\ sessionFile.start < meterStart /\ xrayShown.start < meterStart

\* The counters grew no more since a baseline than the traffic did.
Baselines ==
    \A t \in {tracker, trackerFile} : \A u \in DOMAIN t.users :
        counter[u] + movedAt[t.epoch][u] <= t.users[u] + moved[u]

\* So a sample holds no more than moved between its two readings,
MeasuredBytes ==
    xrayPc \in PollPending => \A u \in XrayUsers :
        sample.users[u] + movedAt[sample.since][u] <= movedAt[tracker.epoch][u]

\* and a session no more than moved between its start and the reading it was told of.
BytesBounded(s, e) ==
    IF s.start <= e THEN \A u \in XrayUsers : s.totals[u] + movedAt[s.start][u] <= movedAt[e][u]
    ELSE \A u \in XrayUsers : s.totals[u] = 0

CoverageFits(s, e) ==
    IF s.coverage = Unread THEN \A u \in XrayUsers : s.totals[u] = 0
    ELSE s.start # Unread /\ s.start <= s.coverage /\ s.coverage <= e

\* Undisturbed, all of these are exact, and a session that would survive a restart is saved.
UndisturbedExact ==
    ~disturbed =>
        /\ counter = moved
        /\ xrayPc # "saveTracker" => trackerFile = tracker
        /\ \A u \in XrayUsers :
            /\ u \in DOMAIN tracker.users <=> movedAt[tracker.epoch][u] > 0
            /\ u \in DOMAIN tracker.users => tracker.users[u] = movedAt[tracker.epoch][u]
        /\ xrayPc \in PollPending => \A u \in XrayUsers : movedAt[sample.since][u] > 0 =>
            sample.users[u] + movedAt[sample.since][u] = movedAt[tracker.epoch][u]
        /\ session.coverage # Unread => \A u \in XrayUsers : movedAt[session.coverage][u] > 0 =>
            session.totals[u] + movedAt[session.coverage][u] = movedAt[SettledReading][u]
        /\ meterStart = Unread \/ sessionFile.start = meterStart => sessionFile = session

ShownIsCurrent == xrayShown.start = session.start => xrayShown.totals = session.totals

XrayInv ==
    /\ XTypes /\ GrowingTotals /\ PollsOrdered /\ Baselines /\ MeasuredBytes
    /\ BytesBounded(session, SettledReading) /\ BytesBounded(sessionFile, trackerFile.epoch)
    /\ CoverageFits(session, SettledReading) /\ CoverageFits(sessionFile, trackerFile.epoch)
    /\ UndisturbedExact /\ ShownIsCurrent

--------------------------------------------------------------------------------
\* The traffic is known at every epoch that was given out.
LEMMA EpochTypes ==
  ASSUME XTypes
  PROVE  /\ epoch \in Nat /\ epoch <= MaxEpoch
         /\ \A e \in 0 .. epoch : movedAt[e] \in UserBytes /\ \A u \in XrayUsers : movedAt[e][u] \in Nat
<1>1. epoch \in Nat /\ epoch <= MaxEpoch
  BY XrayAssumption DEF XTypes, XrayTypeOK
<1>2. ASSUME NEW e \in 0 .. epoch PROVE movedAt[e] \in UserBytes
  <2>1. e \in 0 .. MaxEpoch
    BY <1>1, XrayAssumption
  <2>2. QED
    BY <2>1 DEF XTypes
<1>3. QED
  BY <1>1, <1>2 DEF UserBytes

\* A baseline holds numbers of users, at a reading that was taken.
LEMMA BaselineTypes ==
  ASSUME XTypes, NEW t \in {tracker, trackerFile}
  PROVE  /\ t.epoch \in 0 .. epoch /\ t.epoch \in 0 .. MaxEpoch
         /\ movedAt[t.epoch] \in UserBytes
         /\ DOMAIN t.users \subseteq XrayUsers
         /\ \A u \in DOMAIN t.users : t.users[u] \in Nat /\ movedAt[t.epoch][u] \in Nat
<1>1. t.epoch \in 0 .. epoch /\ t.epoch \in 0 .. MaxEpoch /\ DOMAIN t.users \subseteq XrayUsers
  BY XrayAssumption DEF XTypes, XrayTypeOK
<1>2. t.users \in UserReadings
  BY DEF XTypes
<1>3. \A u \in DOMAIN t.users : t.users[u] \in Nat
  BY <1>2 DEF UserReadings
<1>4. movedAt[t.epoch] \in UserBytes
  BY <1>1 DEF XTypes
<1>5. QED
  BY <1>1, <1>3, <1>4 DEF UserBytes

\* At the start nothing has been read.
LEMMA InitXrayInv == XrayInit => XrayInv
<1> SUFFICES ASSUME XrayInit PROVE XrayInv
  OBVIOUS
<1> USE XrayAssumption DEF XrayInit, NewTracker, NewSession, NoSample, NoBytes, Unread, PublicState
<1>1. XTypes
  <2>1. <<>> \in UserReadings
    BY DEF UserReadings
  <2>2. xrayHealth \in XrayWindow!Stabilizer
    BY DEF XrayWindow!Confirmed, XrayWindow!Stabilizer, XrayWindow!Status
  <2>3. XrayTypeOK
    BY <2>2 DEF XrayTypeOK
  <2>4. QED
    BY <2>1, <2>3 DEF XTypes, UserBytes
<1>2. GrowingTotals /\ PollsOrdered /\ Baselines /\ MeasuredBytes
  BY DEF GrowingTotals, PollsOrdered, Baselines, MeasuredBytes, PollPending
<1>3. /\ BytesBounded(session, SettledReading) /\ BytesBounded(sessionFile, trackerFile.epoch)
      /\ CoverageFits(session, SettledReading) /\ CoverageFits(sessionFile, trackerFile.epoch)
  BY DEF BytesBounded, CoverageFits, SettledReading, PollPending
<1>4. UndisturbedExact /\ ShownIsCurrent
  BY DEF UndisturbedExact, ShownIsCurrent, PollPending
<1>5. QED
  BY <1>1, <1>2, <1>3, <1>4 DEF XrayInv

\* Traffic keeps the invariant.
LEMMA MoveKeeps == ASSUME XrayInv, NEW u \in XrayUsers, MoveBytes(u) PROVE XrayInv'
<1> USE XrayAssumption DEF XrayInv, MoveBytes, filesOfXray, Unread
<1>0. /\ moved \in [XrayUsers -> 0 .. MaxBytes] /\ counter \in [XrayUsers -> 0 .. MaxBytes]
      /\ counter[u] <= moved[u]
  BY DEF XTypes, XrayTypeOK, GrowingTotals
<1>1. /\ moved' \in [XrayUsers -> 0 .. MaxBytes] /\ counter' \in [XrayUsers -> 0 .. MaxBytes]
      /\ \A v \in XrayUsers : \/ moved'[v] = moved[v] /\ counter'[v] = counter[v]
                              \/ moved'[v] = moved[v] + 1 /\ counter'[v] = counter[v] + 1
  BY <1>0
<1>2. XTypes'
  BY <1>1 DEF XTypes, XrayTypeOK
<1>3. GrowingTotals'
  <2>1. \A e \in 0 .. epoch : \A v \in XrayUsers : movedAt[e][v] \in Nat
    BY EpochTypes
  <2>2. QED
    BY <1>0, <1>1, <2>1 DEF GrowingTotals
<1>4. PollsOrdered' /\ MeasuredBytes' /\ ShownIsCurrent'
  BY DEF PollsOrdered, MeasuredBytes, ShownIsCurrent, PollPending
<1>5. Baselines'
  <2>1. ASSUME NEW t \in {tracker, trackerFile}, NEW v \in DOMAIN t.users
        PROVE  v \in XrayUsers /\ t.users[v] \in Nat /\ movedAt[t.epoch][v] \in Nat
    BY BaselineTypes DEF XTypes, XrayTypeOK
  <2>2. QED
    BY <1>0, <1>1, <2>1 DEF Baselines
<1>6. /\ BytesBounded(session, SettledReading)' /\ BytesBounded(sessionFile, trackerFile.epoch)'
      /\ CoverageFits(session, SettledReading)' /\ CoverageFits(sessionFile, trackerFile.epoch)'
  BY DEF BytesBounded, CoverageFits, SettledReading
<1>7. UndisturbedExact'
  BY DEF UndisturbedExact, PollPending, SettledReading
<1>8. QED
  BY <1>2, <1>3, <1>4, <1>5, <1>6, <1>7

\* So does a restart of the server, which resets its counters.
LEMMA RestartServerKeeps == XrayInv /\ RestartServer => XrayInv'
<1> SUFFICES ASSUME XrayInv, RestartServer PROVE XrayInv'
  OBVIOUS
<1> USE XrayAssumption DEF XrayInv, RestartServer, Disturb, filesOfXray, Unread, NoBytes
<1>1. XTypes'
  BY DEF XTypes, XrayTypeOK
<1>2. GrowingTotals'
  BY DEF XTypes, XrayTypeOK, GrowingTotals
<1>3. PollsOrdered' /\ MeasuredBytes' /\ ShownIsCurrent' /\ UndisturbedExact'
  BY DEF PollsOrdered, MeasuredBytes, ShownIsCurrent, PollPending, UndisturbedExact
<1>4. Baselines'
  <2>1. ASSUME NEW t \in {tracker, trackerFile}, NEW v \in DOMAIN t.users
        PROVE  /\ v \in XrayUsers /\ t.users[v] \in Nat /\ movedAt[t.epoch][v] \in Nat
               /\ moved[v] \in Nat /\ movedAt[t.epoch][v] <= moved[v]
    <3>1. v \in XrayUsers /\ t.users[v] \in Nat /\ t.epoch \in 0 .. epoch
      BY BaselineTypes
    <3>2. moved[v] \in Nat
      BY <3>1, XrayAssumption DEF XTypes, XrayTypeOK
    <3>3. QED
      BY <3>1, <3>2, EpochTypes DEF GrowingTotals
  <2>2. QED
    BY <2>1 DEF Baselines
<1>5. /\ BytesBounded(session, SettledReading)' /\ BytesBounded(sessionFile, trackerFile.epoch)'
      /\ CoverageFits(session, SettledReading)' /\ CoverageFits(sessionFile, trackerFile.epoch)'
  BY DEF BytesBounded, CoverageFits, SettledReading
<1>6. QED
  BY <1>1, <1>2, <1>3, <1>4, <1>5

\* The stabilizer stays of its type.
LEMMA HealthType ==
  ASSUME xrayHealth \in XrayWindow!Stabilizer, NEW immediate \in BOOLEAN,
         NEW candidate \in {"waiting", "baseline", "ok", "error"}
  PROVE  XrayWindow!Observe(xrayHealth, candidate, immediate) \in XrayWindow!Stabilizer
<1> DEFINE count == IF xrayHealth.pending = candidate THEN xrayHealth.count + 1 ELSE 1
<1>1. candidate \in XrayWindow!Status
  BY DEF XrayWindow!Status
<1>2. count \in Nat
  BY DEF XrayWindow!Stabilizer
<1>3. XrayWindow!Confirmed(candidate) \in XrayWindow!Stabilizer
  BY <1>1 DEF XrayWindow!Confirmed, XrayWindow!Stabilizer
<1>4. [xrayHealth EXCEPT !.pending = candidate, !.count = count] \in XrayWindow!Stabilizer
  BY <1>1, <1>2 DEF XrayWindow!Stabilizer
<1>5. XrayWindow!Observe(xrayHealth, candidate, immediate) \in
          {XrayWindow!Confirmed(candidate), [xrayHealth EXCEPT !.pending = candidate, !.count = count]}
  BY DEF XrayWindow!Observe
<1>6. QED
  BY <1>3, <1>4, <1>5

\* The clock of a reading or a reset.
LEMMA EpochKeeps ==
  ASSUME XrayInv, TakeEpoch, UNCHANGED serverVars
  PROVE  /\ epoch' \in 1 .. MaxEpoch /\ epoch < epoch'
         /\ movedAt' \in [0 .. MaxEpoch -> UserBytes]
         /\ movedAt'[epoch'] = moved
         /\ \A e \in 0 .. epoch : movedAt'[e] = movedAt[e]
         /\ GrowingTotals'
<1> USE XrayAssumption DEF XrayInv, TakeEpoch, serverVars
<1>1. /\ epoch \in Nat /\ epoch' = epoch + 1 /\ epoch' \in 1 .. MaxEpoch
      /\ moved \in UserBytes /\ \A u \in XrayUsers : moved[u] \in Nat
  <2>1. epoch \in Nat /\ epoch' = epoch + 1 /\ epoch' \in 1 .. MaxEpoch
    BY EpochTypes
  <2>2. moved \in [XrayUsers -> 0 .. MaxBytes]
    BY DEF XTypes, XrayTypeOK
  <2>3. QED
    BY <2>1, <2>2 DEF UserBytes
<1>2. movedAt' \in [0 .. MaxEpoch -> UserBytes]
  BY <1>1 DEF XTypes
<1>3. movedAt'[epoch'] = moved /\ \A e \in 0 .. epoch : movedAt'[e] = movedAt[e]
  BY <1>1 DEF XTypes
<1>4. GrowingTotals'
  <2>1. ASSUME NEW e \in 0 .. epoch', NEW f \in 0 .. epoch', e <= f, NEW u \in XrayUsers
        PROVE  movedAt'[e][u] <= movedAt'[f][u]
    <3>1. CASE f = epoch' /\ e = epoch'
      BY <1>1, <1>3, <3>1
    <3>2. CASE f = epoch' /\ e \in 0 .. epoch
      BY <1>3, <3>2 DEF GrowingTotals
    <3>3. CASE f \in 0 .. epoch /\ e \in 0 .. epoch
      BY <1>3, <2>1, <3>3 DEF GrowingTotals
    <3>4. QED
      BY <1>1, <2>1, <3>1, <3>2, <3>3
  <2>2. ASSUME NEW e \in 0 .. epoch', NEW u \in XrayUsers PROVE movedAt'[e][u] <= moved'[u]
    BY <1>1, <1>3 DEF GrowingTotals
  <2>3. movedAt'[0] = NoBytes /\ \A u \in XrayUsers : counter'[u] <= moved'[u]
    BY <1>1, <1>3 DEF GrowingTotals
  <2>4. QED
    BY <2>1, <2>2, <2>3 DEF GrowingTotals
<1>5. QED
  BY <1>1, <1>2, <1>3, <1>4

\* A reading: the new baseline stands at what has moved by now.
LEMMA ReadKeeps == XrayInv /\ ReadCounters => XrayInv'
<1> SUFFICES ASSUME XrayInv, ReadCounters PROVE XrayInv'
  OBVIOUS
<1>0. /\ xrayPc \in {"idle", "resetPoll"} /\ TakeEpoch /\ Apply(epoch + 1)
      /\ xrayPc' = "saveTracker" /\ epoch' = epoch + 1
      /\ UNCHANGED <<serverVars, meterStart, session, filesOfXray, xrayHealth, xrayShown, disturbed, xrayFaults>>
  BY DEF ReadCounters, TakeEpoch
<1>1. /\ epoch' \in 1 .. MaxEpoch /\ epoch < epoch'
      /\ movedAt' \in [0 .. MaxEpoch -> UserBytes]
      /\ movedAt'[epoch'] = moved
      /\ \A e \in 0 .. epoch : movedAt'[e] = movedAt[e]
      /\ GrowingTotals'
  BY <1>0, EpochKeeps
<1>2. XTypes /\ epoch \in Nat
  BY EpochTypes DEF XrayInv
<1>3. /\ counter \in [XrayUsers -> Nat] /\ moved \in [XrayUsers -> Nat]
      /\ \A u \in XrayUsers : counter[u] \in Nat /\ moved[u] \in Nat
  BY <1>2, XrayAssumption DEF XTypes, XrayTypeOK
<1>4. /\ tracker.epoch \in 0 .. epoch /\ DOMAIN tracker.users \subseteq XrayUsers
      /\ \A u \in DOMAIN tracker.users : tracker.users[u] \in Nat
      /\ \A u \in XrayUsers : movedAt[tracker.epoch][u] \in Nat
  BY <1>2, BaselineTypes, EpochTypes
<1>5. /\ sample'.since = tracker.epoch /\ sample'.first \in BOOLEAN
      /\ sample'.users = [u \in XrayUsers |-> Difference(u)]
      /\ tracker'.epoch = epoch'
      /\ tracker'.users = [u \in Listed \cup DOMAIN tracker.users |->
                              IF u \in Listed THEN counter[u] ELSE tracker.users[u]]
      /\ sample' = [users |-> sample'.users, since |-> sample'.since, first |-> sample'.first]
      /\ tracker' = [users |-> tracker'.users, epoch |-> tracker'.epoch]
  BY <1>0 DEF Apply
<1>6. \A u \in XrayUsers : Difference(u) \in Nat
  BY <1>3, <1>4 DEF Difference
<1>7. UserReadings' = UserReadings /\ tracker'.users \in UserReadings /\ DOMAIN tracker'.users \subseteq XrayUsers
  <2>1. Listed \cup DOMAIN tracker.users \in SUBSET XrayUsers
    BY <1>4 DEF Listed
  <2>2. tracker'.users \in [Listed \cup DOMAIN tracker.users -> Nat]
    BY <1>3, <1>4, <1>5 DEF Listed
  <2>3. QED
    BY <1>5, <2>1, <2>2 DEF UserReadings
<1>8. XTypes'
  <2>1. sample' \in [users : UserBytes, since : Nat, first : BOOLEAN]
    BY <1>4, <1>5, <1>6 DEF UserBytes
  <2>2. tracker' \in [users : UserReadings, epoch : Nat]
    BY <1>1, <1>5, <1>7
  <2>3. XrayTypeOK'
    <3>1. /\ UNCHANGED <<counter, moved, meterStart, trackerFile, session, sessionFile, xrayHealth>>
          /\ xrayPc' = "saveTracker"
      BY <1>0 DEF serverVars, filesOfXray
    <3>2. /\ epoch' \in 0 .. MaxEpoch /\ meterStart \in 0 .. epoch'
          /\ \A s \in {session, sessionFile} :
                 s.start \in 0 .. epoch' /\ s.coverage \in 0 .. epoch' /\ s.totals \in [XrayUsers -> Nat]
          /\ trackerFile.epoch \in 0 .. epoch' /\ DOMAIN trackerFile.users \subseteq XrayUsers
      BY <1>1, <1>2 DEF XTypes, XrayTypeOK
    <3>3. tracker'.epoch \in 0 .. epoch' /\ DOMAIN tracker'.users \subseteq XrayUsers
      BY <1>1, <1>5, <1>7
    <3>4. /\ counter \in [XrayUsers -> 0 .. MaxBytes] /\ moved \in [XrayUsers -> 0 .. MaxBytes]
          /\ xrayHealth \in XrayWindow!Stabilizer
      BY <1>2 DEF XTypes, XrayTypeOK
    <3>5. QED
      BY <3>1, <3>2, <3>3, <3>4 DEF XrayTypeOK
  <2>4. QED
    BY <1>0, <1>1, <1>2, <2>1, <2>2, <2>3 DEF XTypes, serverVars, filesOfXray
<1>9. \A u \in XrayUsers : Difference(u) + movedAt[tracker.epoch][u] <= moved[u]
  <2>1. ASSUME NEW u \in XrayUsers PROVE Difference(u) + movedAt[tracker.epoch][u] <= moved[u]
    <3>1. movedAt[tracker.epoch][u] <= moved[u]
      BY <1>4 DEF XrayInv, GrowingTotals
    <3>2. u \in DOMAIN tracker.users => counter[u] + movedAt[tracker.epoch][u] <= tracker.users[u] + moved[u]
      BY DEF XrayInv, Baselines
    <3>3. QED
      BY <1>3, <1>4, <3>1, <3>2 DEF Difference
  <2>2. QED
    BY <2>1
<1>9a. /\ session.start \in 0 .. epoch /\ session.coverage \in 0 .. epoch
       /\ sessionFile.start \in 0 .. epoch /\ sessionFile.coverage \in 0 .. epoch
       /\ trackerFile.epoch \in 0 .. epoch
  BY <1>2 DEF XTypes, XrayTypeOK
<1>10. PollsOrdered'
  BY <1>0, <1>1, <1>2, <1>4, <1>5, <1>9a DEF PollsOrdered, XrayInv, PollPending, filesOfXray
<1>11. MeasuredBytes'
  BY <1>0, <1>1, <1>4, <1>5, <1>9 DEF MeasuredBytes, PollPending
<1>12. Baselines'
  <2>1. ASSUME NEW u \in DOMAIN tracker'.users
        PROVE  counter'[u] + movedAt'[tracker'.epoch][u] <= tracker'.users[u] + moved'[u]
    BY <1>0, <1>1, <1>3, <1>4, <1>5 DEF Listed, serverVars
  <2>2. ASSUME NEW u \in DOMAIN trackerFile'.users
        PROVE  counter'[u] + movedAt'[trackerFile'.epoch][u] <= trackerFile'.users[u] + moved'[u]
    BY <1>0, <1>1, <1>2, BaselineTypes DEF XrayInv, Baselines, serverVars, filesOfXray
  <2>3. QED
    BY <2>1, <2>2 DEF Baselines
<1>13. SettledReading = tracker.epoch /\ SettledReading' = tracker.epoch
  BY <1>0, <1>5 DEF SettledReading, PollPending
<1>15. /\ BytesBounded(session, SettledReading)' /\ BytesBounded(sessionFile, trackerFile.epoch)'
       /\ CoverageFits(session, SettledReading)' /\ CoverageFits(sessionFile, trackerFile.epoch)'
  BY <1>0, <1>1, <1>4, <1>13, <1>9a DEF XrayInv, BytesBounded, CoverageFits, filesOfXray
<1>16. UndisturbedExact'
  <2>1. SUFFICES ASSUME ~disturbed PROVE UndisturbedExact'
    BY <1>0 DEF UndisturbedExact
  <2>2. /\ counter = moved /\ trackerFile = tracker
        /\ \A u \in XrayUsers :
            /\ u \in DOMAIN tracker.users <=> movedAt[tracker.epoch][u] > 0
            /\ u \in DOMAIN tracker.users => tracker.users[u] = movedAt[tracker.epoch][u]
        /\ session.coverage # Unread => \A u \in XrayUsers : movedAt[session.coverage][u] > 0 =>
            session.totals[u] + movedAt[session.coverage][u] = movedAt[SettledReading][u]
        /\ meterStart = Unread \/ sessionFile.start = meterStart => sessionFile = session
    BY <2>1, <1>0 DEF XrayInv, UndisturbedExact
  <2>3. ASSUME NEW u \in XrayUsers
        PROVE  /\ u \in DOMAIN tracker'.users <=> moved[u] > 0
               /\ u \in DOMAIN tracker'.users => tracker'.users[u] = moved[u]
    <3>1. movedAt[tracker.epoch][u] <= moved[u]
      BY <1>4 DEF XrayInv, GrowingTotals
    <3>2. QED
      BY <1>3, <1>4, <1>5, <2>2, <3>1 DEF Listed
  <2>4. ASSUME NEW u \in XrayUsers, movedAt[tracker.epoch][u] > 0
        PROVE  Difference(u) + movedAt[tracker.epoch][u] = moved[u]
    <3>1. movedAt[tracker.epoch][u] <= moved[u]
      BY <1>4 DEF XrayInv, GrowingTotals
    <3>2. QED
      BY <1>3, <1>4, <2>2, <2>4, <3>1 DEF Difference, Listed
  <2>5. QED
    <3>1. counter' = moved' /\ xrayPc' = "saveTracker" /\ movedAt'[tracker'.epoch] = moved
      BY <1>0, <1>1, <1>5, <2>2 DEF serverVars
    <3>2. \A u \in XrayUsers : movedAt'[sample'.since][u] > 0 =>
            sample'.users[u] + movedAt'[sample'.since][u] = movedAt'[tracker'.epoch][u]
      BY <1>1, <1>4, <1>5, <2>4, <3>1
    <3>3. session'.coverage # Unread => \A u \in XrayUsers : movedAt'[session'.coverage][u] > 0 =>
            session'.totals[u] + movedAt'[session'.coverage][u] = movedAt'[SettledReading'][u]
      BY <1>0, <1>1, <1>4, <1>13, <1>9a, <2>2
    <3>4. meterStart' = Unread \/ sessionFile'.start = meterStart' => sessionFile' = session'
      BY <1>0, <2>2 DEF filesOfXray
    <3>5. QED
      BY <2>3, <3>1, <3>2, <3>3, <3>4 DEF UndisturbedExact
<1>17. ShownIsCurrent'
  BY <1>0 DEF XrayInv, ShownIsCurrent
<1>18. QED
  BY <1>1, <1>8, <1>10, <1>11, <1>12, <1>15, <1>16, <1>17 DEF XrayInv

\* A failed reading, and the two steps that only save, say no more than they change.
LEMMA QuietKeeps == XrayInv /\ (ReadingFails \/ SaveTracker \/ AppendSample) => XrayInv'
<1> USE XrayAssumption
<1>1. ASSUME XrayInv, ReadingFails PROVE XrayInv'
  <2> USE <1>1 DEF XrayInv, ReadingFails, ObserveError, PublicState, serverVars, filesOfXray, Unread
  <2>1. SettledReading' = SettledReading
    BY DEF SettledReading, PollPending
  <2>2. xrayHealth' \in XrayWindow!Stabilizer
    <3>1. xrayHealth \in XrayWindow!Stabilizer
      BY DEF XTypes, XrayTypeOK
    <3>2. XrayWindow!Observe(xrayHealth, "error", FALSE) \in XrayWindow!Stabilizer
      BY ONLY <3>1, HealthType
    <3>3. xrayHealth' = XrayWindow!Observe(xrayHealth, "error", FALSE)
      BY ONLY <1>1 DEF ReadingFails, ObserveError
    <3>4. QED
      BY ONLY <3>2, <3>3
  <2>3. XTypes'
    <3>1. XTypes /\ XrayTypeOK
      BY DEF XTypes
    <3>2. /\ xrayPc' = "idle" /\ xrayShown' = [start |-> session.start, totals |-> session.totals]
          /\ UNCHANGED <<counter, moved, meterStart, tracker, session, trackerFile, sessionFile, sample,
                         epoch, movedAt, disturbed, xrayFaults>>
      OBVIOUS
    <3>3. XrayTypeOK'
      BY ONLY <2>2, <3>1, <3>2 DEF XrayTypeOK
    <3>4. session.start <= epoch /\ xrayShown' \in [start : Nat, totals : UserBytes]
      BY ONLY <3>1, <3>2, EpochTypes DEF XTypes, XrayTypeOK
    <3>5. QED
      BY ONLY <3>1, <3>2, <3>3, <3>4 DEF XTypes, UserReadings, UserBytes
  <2>4. GrowingTotals' /\ PollsOrdered' /\ Baselines' /\ MeasuredBytes' /\ ShownIsCurrent'
    BY DEF GrowingTotals, PollsOrdered, Baselines, MeasuredBytes, ShownIsCurrent, PollPending
  <2>5. /\ BytesBounded(session, SettledReading)' /\ BytesBounded(sessionFile, trackerFile.epoch)'
        /\ CoverageFits(session, SettledReading)' /\ CoverageFits(sessionFile, trackerFile.epoch)'
    BY <2>1 DEF BytesBounded, CoverageFits
  <2>6. UndisturbedExact'
    BY <2>1 DEF UndisturbedExact, PollPending
  <2>7. QED
    BY <2>3, <2>4, <2>5, <2>6
<1>2. ASSUME XrayInv, SaveTracker PROVE XrayInv'
  <2> USE <1>2 DEF XrayInv, SaveTracker, serverVars, Unread
  <2>1. SettledReading' = SettledReading
    BY DEF SettledReading, PollPending
  <2>2. XTypes'
    BY DEF XTypes, XrayTypeOK
  <2>3. GrowingTotals' /\ PollsOrdered' /\ Baselines' /\ MeasuredBytes' /\ ShownIsCurrent'
    BY DEF GrowingTotals, PollsOrdered, Baselines, MeasuredBytes, ShownIsCurrent, PollPending, XTypes
  <2>4. /\ trackerFile.epoch \in 0 .. epoch /\ tracker.epoch \in 0 .. epoch
        /\ trackerFile.epoch <= tracker.epoch /\ sessionFile.start \in 0 .. epoch
        /\ sessionFile.coverage \in 0 .. epoch /\ sessionFile.totals \in UserBytes
    BY DEF XTypes, XrayTypeOK, PollsOrdered
  <2>5. \A u \in XrayUsers : /\ movedAt[trackerFile.epoch][u] <= movedAt[tracker.epoch][u]
                             /\ movedAt[sessionFile.start][u] <= movedAt[tracker.epoch][u]
                                    \/ tracker.epoch < sessionFile.start
    BY <2>4 DEF GrowingTotals
  <2>6. BytesBounded(sessionFile, trackerFile.epoch)'
    <3>1. \A u \in XrayUsers : /\ sessionFile.totals[u] \in Nat
                               /\ movedAt[sessionFile.start][u] \in Nat
                               /\ movedAt[trackerFile.epoch][u] \in Nat
                               /\ movedAt[tracker.epoch][u] \in Nat
      BY <2>4, EpochTypes DEF UserBytes
    <3>2. QED
      BY <2>4, <2>5, <3>1 DEF BytesBounded
  <2>7. /\ BytesBounded(session, SettledReading)' /\ CoverageFits(session, SettledReading)'
        /\ CoverageFits(sessionFile, trackerFile.epoch)'
    BY <2>1, <2>4 DEF BytesBounded, CoverageFits
  <2>8. UndisturbedExact'
    BY <2>1 DEF UndisturbedExact, PollPending
  <2>9. QED
    BY <2>2, <2>3, <2>6, <2>7, <2>8
<1>3. ASSUME XrayInv, AppendSample PROVE XrayInv'
  <2> USE <1>3 DEF XrayInv, AppendSample, serverVars, filesOfXray, Unread
  <2>1. SettledReading' = SettledReading
    BY DEF SettledReading, PollPending
  <2>2. XTypes'
    BY DEF XTypes, XrayTypeOK
  <2>3. GrowingTotals' /\ PollsOrdered' /\ Baselines' /\ MeasuredBytes' /\ ShownIsCurrent'
    BY DEF GrowingTotals, PollsOrdered, Baselines, MeasuredBytes, ShownIsCurrent, PollPending
  <2>4. /\ BytesBounded(session, SettledReading)' /\ BytesBounded(sessionFile, trackerFile.epoch)'
        /\ CoverageFits(session, SettledReading)' /\ CoverageFits(sessionFile, trackerFile.epoch)'
    BY <2>1 DEF BytesBounded, CoverageFits
  <2>5. UndisturbedExact'
    BY <2>1 DEF UndisturbedExact, PollPending
  <2>6. QED
    BY <2>2, <2>3, <2>4, <2>5
<1>4. QED
  BY <1>1, <1>2, <1>3

\* What a record adds to the session: the difference of the two readings of the sample, if
\* it began in the session.
LEMMA RecordAdds ==
  ASSUME XrayInv, xrayPc = "record", RecordSession
  PROVE  /\ session' \in [start : Nat, coverage : Nat, totals : UserBytes]
         /\ session'.start = session.start /\ session'.coverage \in 0 .. epoch
         /\ ~Counts => session' = session
         /\ BytesBounded(session', tracker.epoch) /\ CoverageFits(session', tracker.epoch)
         /\ ~disturbed /\ session'.coverage # Unread =>
                \A u \in XrayUsers : movedAt[session'.coverage][u] > 0 =>
                    session'.totals[u] + movedAt[session'.coverage][u] = movedAt[tracker.epoch][u]
<1> USE XrayAssumption DEF Unread
<1>1. /\ sample.since \in 0 .. epoch /\ tracker.epoch \in 0 .. epoch /\ sample.since <= tracker.epoch
      /\ session.start \in 0 .. epoch /\ session.coverage \in 0 .. epoch /\ epoch \in Nat
  BY BaselineTypes, EpochTypes DEF XrayInv, XTypes, XrayTypeOK, PollsOrdered, PollPending
<1>2. /\ session \in [start : Nat, coverage : Nat, totals : UserBytes]
      /\ \A u \in XrayUsers : session.totals[u] \in Nat /\ sample.users[u] \in Nat
  BY DEF XrayInv, XTypes, UserBytes
<1>3. \A u \in XrayUsers : /\ movedAt[session.start][u] \in Nat /\ movedAt[sample.since][u] \in Nat
                           /\ movedAt[tracker.epoch][u] \in Nat /\ movedAt[session.coverage][u] \in Nat
                           /\ movedAt[sample.since][u] <= movedAt[tracker.epoch][u]
                           /\ sample.users[u] + movedAt[sample.since][u] <= movedAt[tracker.epoch][u]
  BY <1>1, EpochTypes DEF XrayInv, GrowingTotals, MeasuredBytes, PollPending
<1>4. /\ SettledReading = sample.since
      /\ BytesBounded(session, sample.since) /\ CoverageFits(session, sample.since)
  BY DEF XrayInv, SettledReading, PollPending
<1>5. CASE ~Counts
  <2>1. session' = session
    BY <1>5 DEF RecordSession
  <2>2. session.coverage = Unread
    <3>1. SUFFICES ASSUME session.coverage # Unread PROVE FALSE
      OBVIOUS
    <3>2. session.start # Unread /\ session.start <= session.coverage /\ session.coverage <= sample.since
      BY <1>4, <3>1 DEF CoverageFits
    <3>3. QED
      BY <1>1, <1>5, <3>1, <3>2 DEF Counts
  <2>3. \A u \in XrayUsers : session.totals[u] = 0
    BY <1>4, <2>2 DEF CoverageFits
  <2>4. CoverageFits(session', tracker.epoch)
    BY <2>1, <2>2, <2>3 DEF CoverageFits
  <2>5. BytesBounded(session', tracker.epoch)
    <3>1. session.start <= tracker.epoch =>
              \A u \in XrayUsers : movedAt[session.start][u] <= movedAt[tracker.epoch][u]
      BY <1>1 DEF XrayInv, GrowingTotals
    <3>2. QED
      BY <1>1, <1>3, <2>1, <2>3, <3>1 DEF BytesBounded
  <2>6. QED
    BY <1>1, <1>2, <2>1, <2>2, <2>4, <2>5
<1>6. CASE Counts
  <2>1. sample.since # Unread /\ sample.since >= session.start /\ session.start # Unread
    BY <1>6 DEF Counts
  <2>2. /\ session'.start = session.start
        /\ session'.coverage = IF session.coverage = Unread THEN sample.since ELSE session.coverage
        /\ session'.totals = [u \in XrayUsers |-> session.totals[u] + sample.users[u]]
        /\ session' \in [start : Nat, coverage : Nat, totals : UserBytes]
    <3>1. session' = [session EXCEPT
              !.coverage = IF session.coverage = Unread THEN sample.since ELSE session.coverage,
              !.totals = [u \in XrayUsers |-> session.totals[u] + sample.users[u]]]
      BY <1>6 DEF RecordSession
    <3>2. [u \in XrayUsers |-> session.totals[u] + sample.users[u]] \in UserBytes
      BY <1>2 DEF UserBytes
    <3>3. (IF session.coverage = Unread THEN sample.since ELSE session.coverage) \in Nat
      BY <1>1
    <3>4. QED
      BY <1>2, <3>1, <3>2, <3>3
  <2>3. BytesBounded(session', tracker.epoch)
    BY <1>1, <1>2, <1>3, <1>4, <2>1, <2>2 DEF BytesBounded
  <2>4. CoverageFits(session', tracker.epoch)
    BY <1>1, <1>4, <2>1, <2>2 DEF CoverageFits
  <2>5. ASSUME ~disturbed, NEW u \in XrayUsers, movedAt[session'.coverage][u] > 0
        PROVE  session'.totals[u] + movedAt[session'.coverage][u] = movedAt[tracker.epoch][u]
    <3>1. /\ movedAt[sample.since][u] > 0 =>
                 sample.users[u] + movedAt[sample.since][u] = movedAt[tracker.epoch][u]
          /\ session.coverage # Unread /\ movedAt[session.coverage][u] > 0 =>
                 session.totals[u] + movedAt[session.coverage][u] = movedAt[sample.since][u]
      BY <1>4, <2>5 DEF XrayInv, UndisturbedExact, PollPending
    <3>2. CASE session.coverage = Unread
      <4>1. session.totals[u] = 0 /\ session'.coverage = sample.since
        BY <1>4, <2>2, <3>2 DEF CoverageFits
      <4>2. session'.totals[u] = session.totals[u] + sample.users[u]
        BY <2>2
      <4>3. QED
        BY <1>2, <1>3, <2>5, <3>1, <4>1, <4>2
    <3>3. CASE session.coverage # Unread
      <4>1. session.coverage <= sample.since
        BY <1>4, <3>3 DEF CoverageFits
      <4>2. movedAt[session.coverage][u] <= movedAt[sample.since][u]
        BY <1>1, <4>1 DEF XrayInv, GrowingTotals
      <4>3. QED
        BY <1>2, <1>3, <2>2, <2>5, <3>1, <3>3, <4>2
    <3>4. QED
      BY <3>2, <3>3
  <2>6. QED
    BY <1>1, <1>6, <2>1, <2>2, <2>3, <2>4, <2>5
<1>7. QED
  BY <1>5, <1>6

\* The end of a poll: the session has been told of the baseline.
LEMMA FinishKeeps == XrayInv /\ FinishPoll => XrayInv'
<1> SUFFICES ASSUME XrayInv, FinishPoll PROVE XrayInv'
  OBVIOUS
<1> USE XrayAssumption DEF Unread
<1>0. /\ xrayPc = "record" /\ xrayPc' = "idle" /\ RecordSession
      /\ sessionFile' = IF Counts THEN session' ELSE sessionFile
      /\ sample' = NoSample /\ xrayShown' = PublicState(session')
      /\ UNCHANGED <<serverVars, meterStart, tracker, trackerFile, epoch, movedAt, disturbed, xrayFaults>>
  BY DEF FinishPoll
<1>1. /\ session' \in [start : Nat, coverage : Nat, totals : UserBytes]
      /\ session'.start = session.start /\ session'.coverage \in 0 .. epoch
      /\ ~Counts => session' = session
      /\ BytesBounded(session', tracker.epoch) /\ CoverageFits(session', tracker.epoch)
      /\ ~disturbed /\ session'.coverage # Unread =>
             \A u \in XrayUsers : movedAt[session'.coverage][u] > 0 =>
                 session'.totals[u] + movedAt[session'.coverage][u] = movedAt[tracker.epoch][u]
  BY <1>0, RecordAdds
<1>2. XTypes /\ trackerFile = tracker /\ SettledReading' = tracker.epoch
  BY <1>0 DEF XrayInv, PollsOrdered, PollPending, SettledReading
<1>3. xrayHealth' \in XrayWindow!Stabilizer
  <2>1. xrayHealth \in XrayWindow!Stabilizer
    BY <1>2 DEF XTypes, XrayTypeOK
  <2> DEFINE candidate == IF sample.first THEN "baseline" ELSE "ok"
             immediate == xrayHealth.status \in {"waiting", "baseline"}
  <2>2. candidate \in {"waiting", "baseline", "ok", "error"} /\ immediate \in BOOLEAN
    OBVIOUS
  <2>3. xrayHealth' = XrayWindow!Observe(xrayHealth, candidate, immediate)
    BY DEF FinishPoll
  <2> HIDE DEF candidate, immediate
  <2>4. XrayWindow!Observe(xrayHealth, candidate, immediate) \in XrayWindow!Stabilizer
    BY ONLY <2>1, <2>2, HealthType
  <2>5. QED
    BY ONLY <2>3, <2>4
<1>4. /\ session'.start \in 0 .. epoch /\ session'.totals \in UserBytes
      /\ sessionFile' \in {session', sessionFile}
      /\ sessionFile'.start \in 0 .. epoch /\ sessionFile'.coverage \in 0 .. epoch
      /\ sessionFile'.totals \in UserBytes
      /\ sessionFile' \in [start : Nat, coverage : Nat, totals : UserBytes]
  BY <1>0, <1>1, <1>2 DEF XTypes, XrayTypeOK, UserBytes
<1>5. XTypes'
  <2>1. XrayTypeOK'
    BY <1>0, <1>1, <1>2, <1>3, <1>4 DEF XTypes, XrayTypeOK, serverVars, UserBytes
  <2>2. NoSample \in [users : UserBytes, since : Nat, first : BOOLEAN]
    BY DEF NoSample, NoBytes, UserBytes
  <2>3. xrayShown' \in [start : Nat, totals : UserBytes] /\ xrayShown'.start <= epoch
    BY <1>0, <1>1, <1>2, <1>4, EpochTypes DEF PublicState
  <2>4. QED
    BY <1>0, <1>1, <1>2, <1>4, <2>1, <2>2, <2>3 DEF XTypes, serverVars
<1>6. GrowingTotals' /\ Baselines' /\ MeasuredBytes' /\ PollsOrdered' /\ ShownIsCurrent'
  BY <1>0 DEF XrayInv, GrowingTotals, Baselines, MeasuredBytes, PollsOrdered, ShownIsCurrent, PollPending, PublicState, serverVars
<1>7. /\ BytesBounded(session, SettledReading)' /\ BytesBounded(sessionFile, trackerFile.epoch)'
      /\ CoverageFits(session, SettledReading)' /\ CoverageFits(sessionFile, trackerFile.epoch)'
  BY <1>0, <1>1, <1>2, <1>4 DEF XrayInv, BytesBounded, CoverageFits
<1>8. UndisturbedExact'
  <2>1. SUFFICES ASSUME ~disturbed PROVE UndisturbedExact'
    BY <1>0 DEF UndisturbedExact
  <2>2. meterStart = Unread \/ sessionFile'.start = meterStart => sessionFile' = session'
    BY <1>0, <1>1, <2>1 DEF XrayInv, UndisturbedExact
  <2>3. QED
    BY <1>0, <1>1, <1>2, <2>1, <2>2 DEF XrayInv, UndisturbedExact, PollPending, serverVars
<1>9. QED
  BY <1>5, <1>6, <1>7, <1>8 DEF XrayInv

\* A poll that fails after its reading loses what was not recorded.
LEMMA FailKeeps == XrayInv /\ PollFails => XrayInv'
<1> SUFFICES ASSUME XrayInv, PollFails PROVE XrayInv'
  OBVIOUS
<1> USE XrayAssumption DEF Unread
<1>0. /\ xrayPc \in PollPending /\ xrayPc' = "idle"
      /\ xrayPc = "record" => RecordSession
      /\ xrayPc # "record" => session' = session
      /\ xrayFaults' = xrayFaults + 1 /\ disturbed' = TRUE
      /\ sample' = NoSample /\ xrayShown' = PublicState(session')
      /\ UNCHANGED <<serverVars, meterStart, tracker, filesOfXray, epoch, movedAt>>
  BY DEF PollFails, Disturb, PollPending
<1>1. XTypes /\ SettledReading' = tracker.epoch /\ SettledReading = sample.since
  BY <1>0 DEF XrayInv, PollPending, SettledReading
<1>2. /\ sample.since \in Nat /\ tracker.epoch \in 0 .. epoch /\ sample.since <= tracker.epoch
      /\ epoch \in Nat
      /\ session.start \in 0 .. epoch /\ session.coverage \in 0 .. epoch
      /\ session \in [start : Nat, coverage : Nat, totals : UserBytes]
  BY <1>0, <1>1, BaselineTypes, EpochTypes DEF XrayInv, XTypes, XrayTypeOK, PollsOrdered
<1>3. /\ session' \in [start : Nat, coverage : Nat, totals : UserBytes]
      /\ session'.start = session.start /\ session'.coverage \in 0 .. epoch
      /\ BytesBounded(session', tracker.epoch) /\ CoverageFits(session', tracker.epoch)
  <2>1. CASE xrayPc = "record"
    BY <1>0, <2>1, RecordAdds
  <2>2. CASE xrayPc # "record"
    <3>1. session' = session
      BY <1>0, <2>2
    <3>2. CoverageFits(session, tracker.epoch)
      BY <1>1, <1>2 DEF XrayInv, CoverageFits
    <3>3. BytesBounded(session, tracker.epoch)
      <4>1. \A u \in XrayUsers : /\ session.totals[u] \in Nat /\ movedAt[session.start][u] \in Nat
                                 /\ movedAt[tracker.epoch][u] \in Nat
        BY <1>1, <1>2, EpochTypes DEF UserBytes
      <4>2. CASE session.start <= sample.since
        <5>1. sample.since \in 0 .. epoch
          BY <1>2
        <5>2. \A u \in XrayUsers : /\ movedAt[sample.since][u] \in Nat
                                   /\ movedAt[sample.since][u] <= movedAt[tracker.epoch][u]
          BY <1>1, <1>2, <5>1, EpochTypes DEF XrayInv, GrowingTotals
        <5>3. \A u \in XrayUsers :
                  session.totals[u] + movedAt[session.start][u] <= movedAt[sample.since][u]
          BY <1>1, <4>2 DEF XrayInv, BytesBounded
        <5>4. QED
          BY <1>2, <4>1, <4>2, <5>2, <5>3 DEF BytesBounded
      <4>3. CASE ~(session.start <= sample.since)
        <5>1. \A u \in XrayUsers : session.totals[u] = 0
          BY <1>1, <4>3 DEF XrayInv, BytesBounded
        <5>2. session.start <= tracker.epoch =>
                  \A u \in XrayUsers : movedAt[session.start][u] <= movedAt[tracker.epoch][u]
          BY <1>2 DEF XrayInv, GrowingTotals
        <5>3. QED
          BY <4>1, <5>1, <5>2 DEF BytesBounded
      <4>4. QED
        BY <4>2, <4>3
    <3>4. QED
      BY <1>2, <3>1, <3>2, <3>3
  <2>3. QED
    BY <2>1, <2>2
<1>4. xrayHealth' \in XrayWindow!Stabilizer
  <2>1. xrayHealth \in XrayWindow!Stabilizer
    BY <1>1 DEF XTypes, XrayTypeOK
  <2>2. XrayWindow!Observe(xrayHealth, "error", FALSE) \in XrayWindow!Stabilizer
    BY ONLY <2>1, HealthType
  <2>3. QED
    BY <2>2 DEF PollFails
<1>5. XTypes'
  <2>1. XrayTypeOK'
    BY <1>0, <1>1, <1>2, <1>3, <1>4 DEF XTypes, XrayTypeOK, serverVars, filesOfXray, UserBytes
  <2>2. NoSample \in [users : UserBytes, since : Nat, first : BOOLEAN]
    BY DEF NoSample, NoBytes, UserBytes
  <2>3. xrayShown' \in [start : Nat, totals : UserBytes] /\ xrayShown'.start <= epoch
    BY <1>0, <1>2, <1>3 DEF PublicState
  <2>4. QED
    BY <1>0, <1>1, <1>3, <2>1, <2>2, <2>3 DEF XTypes, serverVars, filesOfXray
<1>6. GrowingTotals' /\ Baselines' /\ MeasuredBytes' /\ PollsOrdered' /\ ShownIsCurrent'
  BY <1>0 DEF XrayInv, GrowingTotals, Baselines, MeasuredBytes, PollsOrdered, ShownIsCurrent, PollPending, PublicState,
              serverVars, filesOfXray
<1>7. /\ BytesBounded(session, SettledReading)' /\ BytesBounded(sessionFile, trackerFile.epoch)'
      /\ CoverageFits(session, SettledReading)' /\ CoverageFits(sessionFile, trackerFile.epoch)'
  BY <1>0, <1>1, <1>3 DEF XrayInv, BytesBounded, CoverageFits, filesOfXray
<1>8. UndisturbedExact'
  BY <1>0 DEF UndisturbedExact
<1>9. QED
  BY <1>5, <1>6, <1>7, <1>8 DEF XrayInv

\* A session that starts anew holds nothing.
LEMMA NewSessionHolds ==
  ASSUME XTypes, GrowingTotals, NEW start \in 0 .. epoch, NEW e \in 0 .. epoch
  PROVE  /\ NewSession(start) \in [start : Nat, coverage : Nat, totals : UserBytes]
         /\ NewSession(start).start = start /\ NewSession(start).coverage = Unread
         /\ NewSession(start).totals \in UserBytes
         /\ BytesBounded(NewSession(start), e) /\ CoverageFits(NewSession(start), e)
<1>1. /\ NewSession(start).start = start /\ NewSession(start).coverage = Unread
      /\ NewSession(start) = [start |-> start, coverage |-> 0, totals |-> NoBytes]
      /\ NewSession(start).totals = NoBytes /\ NoBytes \in UserBytes
      /\ \A u \in XrayUsers : NoBytes[u] = 0
  BY DEF NewSession, NoBytes, UserBytes, Unread
<1>2. epoch \in Nat /\ \A u \in XrayUsers : movedAt[start][u] \in Nat /\ movedAt[e][u] \in Nat
  BY EpochTypes
<1>3. start <= e => \A u \in XrayUsers : movedAt[start][u] <= movedAt[e][u]
  BY DEF GrowingTotals
<1>4. BytesBounded(NewSession(start), e)
  BY <1>1, <1>2, <1>3 DEF BytesBounded
<1>5. CoverageFits(NewSession(start), e)
  BY <1>1 DEF CoverageFits
<1>6. NewSession(start) \in [start : Nat, coverage : Nat, totals : UserBytes]
  BY <1>1, <1>2 DEF Unread
<1>7. QED
  BY <1>1, <1>4, <1>5, <1>6

\* The meter's new start is later than every session.
LEMMA MeterKeeps == XrayInv /\ ResetMeter => XrayInv'
<1> SUFFICES ASSUME XrayInv, ResetMeter PROVE XrayInv'
  OBVIOUS
<1> USE XrayAssumption DEF Unread
<1>0. /\ xrayPc = "idle" /\ xrayPc' = "resetSession" /\ TakeEpoch
      /\ epoch' = epoch + 1 /\ meterStart' = epoch'
      /\ UNCHANGED serverVars
      /\ UNCHANGED <<counter, moved, tracker, session, trackerFile, sessionFile, sample, xrayHealth,
                     xrayShown, disturbed, xrayFaults>>
  BY DEF ResetMeter, TakeEpoch, serverVars, filesOfXray
<1>1. /\ epoch' \in 1 .. MaxEpoch /\ epoch < epoch'
      /\ movedAt' \in [0 .. MaxEpoch -> UserBytes]
      /\ \A e \in 0 .. epoch : movedAt'[e] = movedAt[e]
      /\ GrowingTotals'
  BY <1>0, EpochKeeps
<1>2. /\ XTypes /\ XrayTypeOK /\ epoch \in Nat
      /\ session.start \in 0 .. epoch /\ session.coverage \in 0 .. epoch
      /\ sessionFile.start \in 0 .. epoch /\ sessionFile.coverage \in 0 .. epoch
      /\ tracker.epoch \in 0 .. epoch /\ trackerFile.epoch \in 0 .. epoch
      /\ xrayShown.start <= epoch /\ xrayShown.start \in Nat
  BY EpochTypes DEF XrayInv, XTypes, XrayTypeOK
<1>3. XTypes'
  <2>1. XrayTypeOK'
    <3>1. 0 .. epoch \subseteq 0 .. epoch' /\ meterStart' \in 0 .. epoch' /\ epoch' \in 0 .. MaxEpoch
      BY <1>0, <1>1, <1>2
    <3>2. \A t \in {tracker, trackerFile} : t.epoch \in 0 .. epoch' /\ DOMAIN t.users \subseteq XrayUsers
      BY <1>2, <3>1 DEF XrayTypeOK
    <3>3. \A s \in {session, sessionFile} :
              s.start \in 0 .. epoch' /\ s.coverage \in 0 .. epoch' /\ s.totals \in [XrayUsers -> Nat]
      BY <1>2, <3>1 DEF XrayTypeOK
    <3>4. QED
      BY ONLY <1>0, <1>2, <3>1, <3>2, <3>3 DEF XrayTypeOK
  <2>2. UserReadings' = UserReadings /\ UserBytes' = UserBytes
    BY DEF UserReadings, UserBytes
  <2>3. xrayShown.start <= epoch'
    BY <1>1, <1>2
  <2>4. QED
    BY ONLY <1>0, <1>1, <1>2, <2>1, <2>2, <2>3 DEF XTypes
<1>4. PollsOrdered' /\ MeasuredBytes' /\ ShownIsCurrent'
  BY <1>0, <1>1, <1>2 DEF XrayInv, PollsOrdered, MeasuredBytes, ShownIsCurrent, PollPending
<1>5. Baselines'
  BY <1>0, <1>1, <1>2 DEF XrayInv, Baselines
<1>6. SettledReading = tracker.epoch /\ SettledReading' = tracker.epoch
  BY <1>0 DEF SettledReading, PollPending
<1>7. /\ BytesBounded(session, SettledReading)' /\ BytesBounded(sessionFile, trackerFile.epoch)'
      /\ CoverageFits(session, SettledReading)' /\ CoverageFits(sessionFile, trackerFile.epoch)'
  BY <1>0, <1>1, <1>2, <1>6 DEF XrayInv, BytesBounded, CoverageFits
<1>8. UndisturbedExact'
  <2>1. meterStart' # Unread /\ sessionFile'.start # meterStart'
    BY <1>0, <1>1, <1>2
  <2>2. QED
    BY <1>0, <1>1, <1>2, <1>6, <2>1 DEF XrayInv, UndisturbedExact, PollPending
<1>9. QED
  BY <1>1, <1>3, <1>4, <1>5, <1>7, <1>8 DEF XrayInv

\* The monitor follows the meter, whether it can save its session or not.
LEMMA ResetKeeps == XrayInv /\ (ResetSession \/ ResetFails) => XrayInv'
<1> SUFFICES ASSUME XrayInv, ResetSession \/ ResetFails PROVE XrayInv'
  OBVIOUS
<1> USE XrayAssumption DEF Unread
<1>0. /\ xrayPc = "resetSession" /\ xrayPc' \in {"resetPoll", "idle"}
      /\ session' = NewSession(meterStart) /\ sessionFile' \in {session', sessionFile}
      /\ UNCHANGED <<counter, moved, meterStart, tracker, trackerFile, sample, xrayHealth, xrayShown,
                     epoch, movedAt, disturbed>>
      /\ xrayFaults' \in {xrayFaults, xrayFaults + 1}
  BY DEF ResetSession, ResetFails, serverVars, filesOfXray
<1>1. /\ XTypes /\ XrayTypeOK /\ GrowingTotals /\ PollsOrdered /\ epoch \in Nat
      /\ meterStart \in 0 .. epoch /\ meterStart # 0
      /\ sessionFile.start < meterStart /\ xrayShown.start < meterStart
      /\ tracker.epoch \in 0 .. epoch /\ trackerFile.epoch \in 0 .. epoch
      /\ xrayShown.start \in Nat /\ sessionFile.start \in Nat /\ xrayFaults \in Nat
  BY <1>0, EpochTypes DEF XrayInv, XTypes, XrayTypeOK, PollsOrdered
<1>2. /\ session' \in [start : Nat, coverage : Nat, totals : UserBytes]
      /\ session'.start = meterStart /\ session'.coverage = 0 /\ session'.totals \in UserBytes
      /\ BytesBounded(session', tracker.epoch) /\ CoverageFits(session', tracker.epoch)
      /\ BytesBounded(session', trackerFile.epoch) /\ CoverageFits(session', trackerFile.epoch)
  BY <1>0, <1>1, NewSessionHolds
<1>3. XTypes'
  <2>1. XrayTypeOK'
    BY <1>0, <1>1, <1>2 DEF XrayTypeOK, UserBytes
  <2>2. UserReadings' = UserReadings /\ UserBytes' = UserBytes
    BY DEF UserReadings, UserBytes
  <2>3. QED
    BY ONLY <1>0, <1>1, <1>2, <2>1, <2>2 DEF XTypes
<1>4. GrowingTotals' /\ PollsOrdered' /\ Baselines' /\ MeasuredBytes'
  BY <1>0 DEF XrayInv, GrowingTotals, PollsOrdered, Baselines, MeasuredBytes, PollPending
<1>5. ShownIsCurrent'
  BY <1>0, <1>1, <1>2 DEF ShownIsCurrent
<1>6. SettledReading' = tracker.epoch
  BY <1>0 DEF SettledReading, PollPending
<1>7. /\ BytesBounded(session, SettledReading)' /\ BytesBounded(sessionFile, trackerFile.epoch)'
      /\ CoverageFits(session, SettledReading)' /\ CoverageFits(sessionFile, trackerFile.epoch)'
  BY <1>0, <1>1, <1>2, <1>6 DEF XrayInv, BytesBounded, CoverageFits
<1>8. UndisturbedExact'
  <2>1. meterStart' = Unread \/ sessionFile'.start = meterStart' => sessionFile' = session'
    BY <1>0, <1>1
  <2>2. QED
    BY <1>0, <1>1, <1>2, <1>6, <2>1 DEF XrayInv, UndisturbedExact, PollPending
<1>9. QED
  BY <1>3, <1>4, <1>5, <1>7, <1>8 DEF XrayInv

\* A restart goes on from the files, and starts anew what was not reset with the meter.
LEMMA RestartKeeps == XrayInv /\ RestartXray => XrayInv'
<1> SUFFICES ASSUME XrayInv, RestartXray PROVE XrayInv'
  OBVIOUS
<1> USE XrayAssumption DEF Unread
<1> DEFINE aligned == meterStart = Unread \/ sessionFile.start = meterStart
<1>0. /\ xrayPc' = "idle" /\ tracker' = trackerFile /\ sample' = NoSample
      /\ session' = IF aligned THEN sessionFile ELSE NewSession(meterStart)
      /\ sessionFile' = session' /\ xrayShown' = [start |-> session'.start, totals |-> session'.totals]
      /\ disturbed' = (disturbed \/ xrayPc \in PollPending) /\ xrayFaults' = xrayFaults + 1
      /\ UNCHANGED <<counter, moved, meterStart, trackerFile, epoch, movedAt>>
  BY DEF RestartXray, serverVars, PublicState, PollPending
<1>1. /\ XTypes /\ XrayTypeOK /\ GrowingTotals /\ epoch \in Nat /\ meterStart \in 0 .. epoch
      /\ trackerFile.epoch \in 0 .. epoch /\ sessionFile.start \in 0 .. epoch
      /\ sessionFile.coverage \in 0 .. epoch /\ xrayFaults \in Nat /\ disturbed \in BOOLEAN
      /\ sessionFile.totals \in UserBytes
  BY EpochTypes DEF XrayInv, XTypes, XrayTypeOK, UserBytes
<1>2. /\ session' \in [start : Nat, coverage : Nat, totals : UserBytes]
      /\ session'.start \in 0 .. epoch /\ session'.coverage \in 0 .. epoch
      /\ session'.totals \in UserBytes
      /\ BytesBounded(session', trackerFile.epoch) /\ CoverageFits(session', trackerFile.epoch)
  <2>1. CASE aligned
    <3>1. session' = sessionFile
      BY <1>0, <2>1
    <3>2. sessionFile \in [start : Nat, coverage : Nat, totals : UserBytes]
      BY <1>1 DEF XTypes
    <3>3. QED
      BY <1>1, <3>1, <3>2 DEF XrayInv
  <2>2. CASE ~aligned
    <3>1. session' = NewSession(meterStart)
      BY <1>0, <2>2
    <3>2. QED
      BY <1>1, <3>1, NewSessionHolds
  <2>3. QED
    BY <2>1, <2>2
<1>3. xrayHealth' \in XrayWindow!Stabilizer
  <2>1. XrayWindow!Confirmed("waiting") \in XrayWindow!Stabilizer
    BY DEF XrayWindow!Confirmed, XrayWindow!Stabilizer, XrayWindow!Status
  <2>2. QED
    BY <2>1 DEF RestartXray
<1>4. XTypes'
  <2>1. XrayTypeOK'
    BY <1>0, <1>1, <1>2, <1>3 DEF XrayTypeOK, UserBytes
  <2>2. NoSample \in [users : UserBytes, since : Nat, first : BOOLEAN]
    BY DEF NoSample, NoBytes, UserBytes
  <2>3. xrayShown' \in [start : Nat, totals : UserBytes] /\ xrayShown'.start <= epoch
    BY <1>0, <1>1, <1>2
  <2>4. UserReadings' = UserReadings /\ UserBytes' = UserBytes
    BY DEF UserReadings, UserBytes
  <2>5. trackerFile \in [users : UserReadings, epoch : Nat]
    BY <1>1 DEF XTypes
  <2>6. disturbed' \in BOOLEAN /\ xrayFaults' \in Nat
    BY <1>0, <1>1 DEF XTypes
  <2>7. QED
    BY ONLY <1>0, <1>1, <1>2, <2>1, <2>2, <2>3, <2>4, <2>5, <2>6 DEF XTypes
<1>5. GrowingTotals' /\ PollsOrdered' /\ Baselines' /\ MeasuredBytes' /\ ShownIsCurrent'
  <2>1. GrowingTotals' /\ MeasuredBytes' /\ ShownIsCurrent'
    BY <1>0 DEF XrayInv, GrowingTotals, MeasuredBytes, ShownIsCurrent, PollPending
  <2>2. PollsOrdered'
    BY <1>0, <1>1 DEF PollsOrdered, PollPending
  <2>3. Baselines'
    BY <1>0 DEF XrayInv, Baselines
  <2>4. QED
    BY <2>1, <2>2, <2>3
<1>6. SettledReading' = trackerFile.epoch
  BY <1>0 DEF SettledReading, PollPending
<1>7. /\ BytesBounded(session, SettledReading)' /\ BytesBounded(sessionFile, trackerFile.epoch)'
      /\ CoverageFits(session, SettledReading)' /\ CoverageFits(sessionFile, trackerFile.epoch)'
  BY <1>0, <1>2, <1>6 DEF BytesBounded, CoverageFits
<1>8. UndisturbedExact'
  <2>1. SUFFICES ASSUME ~disturbed, xrayPc \notin PollPending PROVE UndisturbedExact'
    BY <1>0 DEF UndisturbedExact
  <2>2. trackerFile = tracker /\ SettledReading = tracker.epoch
    BY <2>1 DEF XrayInv, UndisturbedExact, SettledReading, PollPending
  <2>3. session'.coverage # Unread => \A u \in XrayUsers : movedAt[session'.coverage][u] > 0 =>
            session'.totals[u] + movedAt[session'.coverage][u] = movedAt[tracker.epoch][u]
    <3>1. CASE aligned
      BY <1>0, <2>1, <2>2, <3>1 DEF XrayInv, UndisturbedExact
    <3>2. CASE ~aligned
      BY <1>0, <1>1, <3>2, NewSessionHolds
    <3>3. QED
      BY <3>1, <3>2
  <2>4. QED
    BY <1>0, <1>6, <2>1, <2>2, <2>3 DEF XrayInv, UndisturbedExact, PollPending
<1>9. QED
  BY <1>4, <1>5, <1>7, <1>8 DEF XrayInv

--------------------------------------------------------------------------------
\* Every step keeps it: one case per action.
LEMMA NextXrayInv == XrayInv /\ [XrayNext]_xrayVars => XrayInv'
<1> SUFFICES ASSUME XrayInv, [XrayNext]_xrayVars PROVE XrayInv'
  OBVIOUS
<1>1. ASSUME NEW u \in XrayUsers, MoveBytes(u) PROVE XrayInv'
  BY <1>1, MoveKeeps
<1>2. CASE RestartServer
  BY <1>2, RestartServerKeeps
<1>3. CASE ReadCounters
  BY <1>3, ReadKeeps
<1>4. CASE ReadingFails \/ SaveTracker \/ AppendSample
  BY <1>4, QuietKeeps
<1>5. CASE FinishPoll
  BY <1>5, FinishKeeps
<1>6. CASE PollFails
  BY <1>6, FailKeeps
<1>7. CASE ResetMeter
  BY <1>7, MeterKeeps
<1>8. CASE ResetSession \/ ResetFails
  BY <1>8, ResetKeeps
<1>9. CASE RestartXray
  BY <1>9, RestartKeeps
<1>10. CASE UNCHANGED xrayVars
  <2>1. XTypes' /\ GrowingTotals' /\ PollsOrdered'
    BY <1>10 DEF xrayVars, XrayInv, XTypes, XrayTypeOK, GrowingTotals, PollsOrdered, UserReadings, UserBytes
  <2>2. Baselines' /\ MeasuredBytes'
    BY <1>10 DEF xrayVars, XrayInv, Baselines, MeasuredBytes, PollPending, UserReadings, UserBytes
  <2>3. /\ BytesBounded(session, SettledReading)' /\ BytesBounded(sessionFile, trackerFile.epoch)'
        /\ CoverageFits(session, SettledReading)' /\ CoverageFits(sessionFile, trackerFile.epoch)'
    BY <1>10 DEF xrayVars, XrayInv, BytesBounded, CoverageFits, SettledReading, PollPending
  <2>4. UndisturbedExact' /\ ShownIsCurrent'
    BY <1>10 DEF xrayVars, XrayInv, UndisturbedExact, ShownIsCurrent, SettledReading, PollPending
  <2>5. QED
    BY <2>1, <2>2, <2>3, <2>4 DEF XrayInv
<1>11. QED
  BY <1>1, <1>2, <1>3, <1>4, <1>5, <1>6, <1>7, <1>8, <1>9, <1>10 DEF XrayNext

\* The inductive invariant holds in every behaviour.
THEOREM XrayInvariance == XraySpec => []XrayInv
<1>1. QED
  BY InitXrayInv, NextXrayInv, PTL DEF XraySpec

\* The types of the Xray monitor, and that its files hold only epochs that were given out.
THEOREM XrayTypes == XraySpec => []XrayTypeOK
<1>1. XrayInv => XrayTypeOK
  BY DEF XrayInv, XTypes
<1>2. QED
  BY <1>1, XrayInvariance, PTL

\* A session counts no byte twice and none from before its start, through failed writes, ends
\* of the process between its two files and restarts of the server; and undisturbed, exactly
\* what its users moved since its coverage began.
THEOREM SessionIsTheTraffic == XraySpec => []SessionTellsTheTraffic
<1>1. ASSUME XrayInv PROVE SessionTellsTheTraffic
  <2> USE <1>1 DEF Unread
  <2>1. XTypes /\ GrowingTotals
    BY DEF XrayInv
  <2>2. /\ SettledReading \in 0 .. epoch /\ tracker.epoch \in 0 .. epoch /\ trackerFile.epoch \in 0 .. epoch
        /\ session.coverage \in 0 .. epoch
    BY <2>1, EpochTypes, BaselineTypes DEF XrayInv, XTypes, XrayTypeOK, PollsOrdered, SettledReading
  <2>3. ASSUME NEW s \in {session, sessionFile}, NEW e \in 0 .. epoch, BytesBounded(s, e),
               NEW u \in XrayUsers
        PROVE  s.totals[u] <= moved[u] - movedAt[s.start][u]
    <3>1. /\ s.start \in 0 .. epoch /\ s.totals[u] \in Nat /\ moved[u] \in Nat
      BY <2>1, XrayAssumption DEF XTypes, XrayTypeOK
    <3>2. /\ movedAt[s.start][u] \in Nat /\ movedAt[e][u] \in Nat
          /\ movedAt[s.start][u] <= moved[u] /\ movedAt[e][u] <= moved[u]
      BY <2>1, <3>1, EpochTypes DEF GrowingTotals
    <3>3. s.totals[u] = 0 \/ s.totals[u] + movedAt[s.start][u] <= movedAt[e][u]
      BY <2>3 DEF BytesBounded
    <3>4. QED
      BY <3>1, <3>2, <3>3
  <2>4. \A s \in {session, sessionFile} : \A u \in XrayUsers :
            s.totals[u] <= moved[u] - movedAt[s.start][u]
    BY <2>2, <2>3 DEF XrayInv
  <2>5. ASSUME ~disturbed, xrayPc = "idle", session.coverage # Unread,
               NEW u \in XrayUsers, movedAt[session.coverage][u] > 0
        PROVE  session.totals[u] = movedAt[tracker.epoch][u] - movedAt[session.coverage][u]
    <3>1. session.totals[u] + movedAt[session.coverage][u] = movedAt[tracker.epoch][u]
      BY <2>5 DEF XrayInv, UndisturbedExact, SettledReading, PollPending
    <3>2. /\ session.totals[u] \in Nat /\ movedAt[session.coverage][u] \in Nat
          /\ movedAt[tracker.epoch][u] \in Nat
      BY <2>1, <2>2, EpochTypes DEF XTypes, XrayTypeOK
    <3>3. QED
      BY <3>1, <3>2
  <2>6. QED
    BY <2>4, <2>5 DEF XrayInv, ShownIsCurrent, SessionTellsTheTraffic
<1>2. QED
  BY <1>1, XrayInvariance, PTL

-------------------------------------------------------------------------------
(* System resources (resources/system). *)

Apps == Range(AppOf) \cup {OtherApp}
Bytes == UNION {[A -> Nat] : A \in SUBSET Apps}
Counters == UNION {[P -> Nat] : P \in SUBSET Processes}
OpenInterval == [host : Nat, apps : Bytes]

\* What a list of intervals holds, of the host and of an app, and with the points of all apps.
HostOf(open) == SumOf([i \in DOMAIN open |-> open[i].host])
AppBytes(open, app) == SumOf([i \in DOMAIN open |-> BytesOf(open[i].apps, app)])
InAll(kept, open) == SumOf([a \in DOMAIN kept |-> kept[a] + AppBytes(open, a)])

\* The growth since the last reading, of the host and of the processes known then.
Fresh == IF previous # NoReading /\ hostCounter >= previous THEN hostCounter - previous ELSE 0
Growth == [p \in Common |-> IF io[p] > seen[p] THEN io[p] - seen[p] ELSE 0]
GrowthOf(app) == SumFunctionOnSet(Growth, {p \in Common : AppOf[p] = app})

SystemTypes ==
    /\ hostCounter \in Nat /\ hostMoved \in Nat /\ stored \in Nat
    /\ previous \in Nat \cup {NoReading} /\ window \in Nat \cup {NoReading}
    /\ io \in Counters /\ seen \in Counters
    /\ ioMoved \in [Apps -> Nat] /\ storedApps \in [Apps -> Nat]
    /\ intervals \in Seq(OpenInterval)
    /\ health \in Health!Stabilizer /\ lastStatus \in Health!Status \cup {"unknown"}
    /\ toldStatus \in Health!Status /\ systemEvents \in Seq(Health!Status)
    /\ irregular \in [host : BOOLEAN, apps : BOOLEAN] /\ unwritten \in BOOLEAN
    /\ readings \in Nat /\ transitionFaults \in Nat

\* The bounds of the counters and of the window, and what there is before the first reading.
ReadingsBegin ==
    /\ hostMoved <= MaxIo /\ window < PersistInterval
    /\ Cardinality(DOMAIN io) = Cardinality(Range(AppOf))
    /\ hostCounter <= MaxIo + hostMoved
    /\ previous = NoReading <=> window = NoReading
    /\ previous = NoReading =>
        /\ hostCounter <= hostMoved /\ lastStatus = "unknown"
        /\ seen = <<>> /\ intervals = <<>> /\ stored = 0 /\ storedApps = [a \in Apps |-> 0]

\* A byte of the host is in a point, in an open interval or to be read.
HostIsConserved ==
    /\ stored + HostOf(intervals) + Fresh <= hostMoved
    /\ ~irregular.host /\ previous # NoReading =>
        hostCounter >= previous /\ stored + HostOf(intervals) + Fresh = hostMoved

\* Likewise a byte of an app, of the processes known at the last reading.
AppsAreConserved ==
    /\ \A p \in Common : seen[p] <= io[p]
    /\ \A a \in Range(AppOf) : storedApps[a] + AppBytes(intervals, a) + GrowthOf(a) <= ioMoved[a]
    /\ InAll(storedApps, intervals) + SumOf(Growth) <= SumOf(ioMoved)
    /\ ~irregular.apps /\ previous # NoReading =>
        DOMAIN seen = DOMAIN io /\ InAll(storedApps, intervals) + SumOf(Growth) = SumOf(ioMoved)

\* The last event, written or not, tells the status.
StatusIsTold ==
    /\ LevelOf(reasons) = health.status
    /\ lastStatus \in {"unknown", health.status}
    /\ lastStatus = "unknown" => health.status = "healthy"
    /\ ~unwritten => health.status = IF systemEvents = <<>> THEN toldStatus ELSE systemEvents[Len(systemEvents)]

SystemInv == SystemTypes /\ ReadingsBegin /\ HostIsConserved /\ AppsAreConserved /\ StatusIsTold

\* A process is counted once, and there are finitely many apps.
LEMMA AppsAreFinite ==
  /\ IsFiniteSet(Apps) /\ IsFiniteSet(Range(AppOf)) /\ OtherApp \notin Range(AppOf)
  /\ \A p \in Processes : AppOf[p] \in Range(AppOf)
  /\ Cardinality(FirstProcesses) = Cardinality(Range(AppOf))
<1> DEFINE first == [p \in FirstProcesses |-> AppOf[p]]
<1>1. OtherApp \notin Range(AppOf) /\ \A p \in Processes : AppOf[p] \in Range(AppOf)
  BY SystemAssumption DEF Range
<1>2. IsFiniteSet(FirstProcesses)
  BY SystemAssumption, FS_Subset
<1>3. first \in Surjection(FirstProcesses, Range(AppOf))
  <2>1. first \in [FirstProcesses -> Range(AppOf)]
    BY <1>1, SystemAssumption
  <2>2. \A a \in Range(AppOf) : \E p \in FirstProcesses : first[p] = a
    BY SystemAssumption
  <2>3. QED
    BY <2>1, <2>2 DEF Surjection
<1>4. IsFiniteSet(Range(AppOf))
  BY <1>2, <1>3, FS_Surjection
<1>5. first \in Bijection(FirstProcesses, Range(AppOf))
  <2>1. \A p, q \in FirstProcesses : first[p] = first[q] => p = q
    BY SystemAssumption
  <2>2. QED
    BY <1>3, <2>1 DEF Bijection, Injection, Surjection, IsInjective
<1>6. Cardinality(FirstProcesses) = Cardinality(Range(AppOf))
  <2> HIDE DEF first
  <2>1. ExistsBijection(FirstProcesses, Range(AppOf))
    BY <1>5 DEF ExistsBijection
  <2>2. QED
    BY <1>2, <2>1, FS_Bijection
<1>7. IsFiniteSet(Apps)
  BY <1>4, FS_AddElement DEF Apps
<1>8. QED
  BY <1>1, <1>4, <1>6, <1>7

\* A row of bytes has finitely many apps, and naturals for them.
LEMMA RowsAreFinite ==
  ASSUME NEW row \in Bytes
  PROVE  /\ DOMAIN row \subseteq Apps /\ IsFiniteSet(DOMAIN row) /\ row \in [DOMAIN row -> Nat]
         /\ \A a : BytesOf(row, a) \in Nat
<1>1. DOMAIN row \subseteq Apps /\ row \in [DOMAIN row -> Nat]
  BY DEF Bytes
<1>2. IsFiniteSet(DOMAIN row)
  BY <1>1, AppsAreFinite, FS_Subset
<1>3. \A a : BytesOf(row, a) \in Nat
  BY <1>1 DEF BytesOf
<1>4. QED
  BY <1>1, <1>2, <1>3

\* The rows of all apps hold what the row function holds.
LEMMA RowsInAll ==
  ASSUME NEW row \in Bytes, NEW f, \A a \in Apps : f[a] = BytesOf(row, a)
  PROVE  SumFunctionOnSet(f, Apps) = SumOf(row)
<1>1. /\ DOMAIN row \subseteq Apps /\ \A a \in DOMAIN row : row[a] \in Nat
  BY RowsAreFinite
<1>2. \A a \in Apps : f[a] = IF a \in DOMAIN row THEN row[a] ELSE 0
  BY DEF BytesOf
<1>3. SumFunctionOnSet(f, Apps) = SumFunctionOnSet(row, DOMAIN row)
  BY <1>1, <1>2, AppsAreFinite, SumOfFilled
<1>4. QED
  BY <1>3 DEF SumOf

\* _bounded_apps moves bytes to the row of the others and loses none.
LEMMA BoundedKeeps ==
  ASSUME NEW bytes \in Bytes, NEW limit
  PROVE  /\ Bounded(bytes, limit) \in Bytes
         /\ SumOf(Bounded(bytes, limit)) = SumOf(bytes)
         /\ \A a \in Range(AppOf) : BytesOf(Bounded(bytes, limit), a) <= BytesOf(bytes, a)
<1> DEFINE D == DOMAIN bytes
           busy == Busy(bytes)
           first == First(bytes, limit)
           others == SumFunctionOnSet(bytes, busy \ first)
           E == first \cup (IF first = busy THEN {} ELSE {OtherApp})
           f == [a \in E |-> IF a \in first THEN bytes[a] ELSE 0]
           g == [a \in E |-> IF a = OtherApp THEN others ELSE 0]
           h == [a \in E |-> (IF a \in first THEN bytes[a] ELSE 0) + (IF a = OtherApp THEN others ELSE 0)]
<1>1. D \subseteq Apps /\ IsFiniteSet(D) /\ bytes \in [D -> Nat]
  BY RowsAreFinite
<1>2. busy \subseteq D /\ first \subseteq busy
  BY DEF Busy, First
<1>3. IsFiniteSet(busy) /\ IsFiniteSet(first) /\ IsFiniteSet(busy \ first)
  BY <1>1, <1>2, FS_Subset
<1>4. Bounded(bytes, limit) = h
  BY DEF Bounded
<1>5. others \in Nat
  BY <1>1, <1>2, <1>3, SumIsNatural
<1> HIDE DEF others
<1>6. E \subseteq Apps /\ IsFiniteSet(E)
  <2>1. E \subseteq Apps
    BY <1>1, <1>2 DEF Apps
  <2>2. QED
    BY <2>1, AppsAreFinite, FS_Subset
<1>7. f \in [E -> Nat] /\ g \in [E -> Nat] /\ \A a \in E : h[a] = f[a] + g[a]
  BY <1>1, <1>2, <1>5
<1>8. h \in Bytes
  <2>1. h \in [E -> Nat]
    <3>1. \A a \in E : h[a] \in Nat
      BY <1>7
    <3> HIDE DEF E, first
    <3>2. QED
      BY <3>1
  <2> HIDE DEF h, E
  <2>2. QED
    BY <1>6, <2>1 DEF Bytes
<1>9. SumFunctionOnSet(h, E) = SumFunctionOnSet(f, E) + SumFunctionOnSet(g, E)
  BY <1>6, <1>7, SumOfBoth
<1>10. SumFunctionOnSet(f, E) = SumFunctionOnSet(bytes, first)
  <2>1. first \in SUBSET E /\ \A a \in first : bytes[a] \in Nat
    BY <1>1, <1>2
  <2>2. \A a \in E : f[a] = IF a \in first THEN bytes[a] ELSE 0
    OBVIOUS
  <2> HIDE DEF f, E, first
  <2>3. QED
    BY <2>1, <2>2, <1>6, SumOfFilled
<1>11. SumFunctionOnSet(g, E) = others
  <2>1. CASE first = busy
    <3>1. others = 0
      BY <2>1, SumOfNone DEF others
    <3>2. \A a \in E : g[a] = 0
      BY <3>1
    <3> HIDE DEF g, E
    <3>3. SumFunctionOnSet(g, E) = 0
      BY <3>2, <1>6, SumOfNothing
    <3>4. QED
      BY <3>1, <3>3
  <2>2. CASE first # busy
    <3> DEFINE t == [a \in {OtherApp} |-> others]
    <3>1. {OtherApp} \in SUBSET E /\ \A a \in {OtherApp} : t[a] \in Nat
      BY <2>2, <1>5
    <3>2. \A a \in E : g[a] = IF a \in {OtherApp} THEN t[a] ELSE 0
      BY <3>1
    <3>3. SumFunctionOnSet(t, {OtherApp}) = t[OtherApp] + SumFunctionOnSet(t, {OtherApp} \ {OtherApp})
      <4>1. IsFiniteSet({OtherApp})
        BY FS_Singleton
      <4> HIDE DEF t
      <4>2. QED
        BY <3>1, <4>1, SumRemoves
    <3>4. SumFunctionOnSet(t, {OtherApp} \ {OtherApp}) = 0
      <4>1. {OtherApp} \ {OtherApp} = {}
        OBVIOUS
      <4>2. QED
        BY <4>1, SumOfNone
    <3>5. t[OtherApp] = others
      OBVIOUS
    <3> HIDE DEF g, E, t
    <3>6. SumFunctionOnSet(g, E) = SumFunctionOnSet(t, {OtherApp})
      BY <3>1, <3>2, <1>6, SumOfFilled
    <3>7. QED
      BY <3>3, <3>4, <3>5, <3>6, <1>5
  <2>3. QED
    BY <2>1, <2>2
<1>12. SumFunctionOnSet(bytes, busy) = SumFunctionOnSet(bytes, first) + others
  <2>1. \A a \in busy : bytes[a] \in Nat
    BY <1>1, <1>2
  <2>2. first \in SUBSET busy
    BY <1>2
  <2> HIDE DEF first, busy
  <2>3. QED
    BY <2>1, <2>2, <1>3, SumGrows DEF others
<1>13. SumFunctionOnSet(bytes, D) = SumFunctionOnSet(bytes, busy)
  <2>1. \A a \in D : bytes[a] = IF a \in busy THEN bytes[a] ELSE 0
    BY <1>1 DEF Busy
  <2>2. \A a \in busy : bytes[a] \in Nat
    BY <1>1, <1>2
  <2> HIDE DEF busy, D
  <2>3. QED
    BY <2>1, <2>2, <1>1, <1>2, SumOfFilled
<1>14. SumOf(h) = SumOf(bytes)
  <2>1. SumOf(h) = SumFunctionOnSet(h, E) /\ SumOf(bytes) = SumFunctionOnSet(bytes, D)
    BY DEF SumOf
  <2> HIDE DEF h, f, g, E, D, busy, first
  <2>2. QED
    BY <2>1, <1>9, <1>10, <1>11, <1>12, <1>13
<1>15. \A a \in Range(AppOf) : BytesOf(h, a) <= BytesOf(bytes, a)
  <2> SUFFICES ASSUME NEW a \in Range(AppOf) PROVE BytesOf(h, a) <= BytesOf(bytes, a)
    OBVIOUS
  <2>1. a # OtherApp
    BY AppsAreFinite
  <2>2. CASE a \in first
    BY <2>1, <2>2, <1>1, <1>2 DEF BytesOf
  <2>3. CASE a \notin first
    <3>1. a \notin E
      BY <2>1, <2>3
    <3>2. BytesOf(h, a) = 0
      BY <3>1 DEF BytesOf
    <3>3. BytesOf(bytes, a) \in Nat
      BY RowsAreFinite
    <3>4. QED
      BY <3>2, <3>3
  <2>4. QED
    BY <2>2, <2>3
<1>16. QED
  BY <1>4, <1>8, <1>14, <1>15

\* The processes of two readings are finitely many, and their growth is natural.
LEMMA CommonIsFinite ==
  ASSUME io \in Counters, seen \in Counters
  PROVE  /\ Common \subseteq Processes /\ IsFiniteSet(Common)
         /\ Growth \in [Common -> Nat] /\ SumOf(Growth) = SumFunctionOnSet(Growth, Common)
         /\ \A p \in Common : io[p] \in Nat /\ seen[p] \in Nat
         /\ SumOf(Growth) \in Nat /\ \A a : GrowthOf(a) \in Nat
<1>1. Common \subseteq Processes /\ \A p \in Common : io[p] \in Nat /\ seen[p] \in Nat
  BY DEF Common, Counters
<1>2. IsFiniteSet(Common)
  BY <1>1, SystemAssumption, FS_Subset
<1>3. Growth \in [Common -> Nat]
  BY <1>1 DEF Growth
<1>4. SumOf(Growth) = SumFunctionOnSet(Growth, Common)
  BY <1>3 DEF SumOf
<1>5. SumOf(Growth) \in Nat
  BY <1>2, <1>3, <1>4, SumIsNatural
<1>6. \A a : GrowthOf(a) \in Nat
  <2> TAKE a
  <2> DEFINE T == {p \in Common : AppOf[p] = a}
  <2>1. IsFiniteSet(T) /\ \A p \in T : Growth[p] \in Nat
    BY <1>2, <1>3, FS_Subset
  <2> HIDE DEF T
  <2>2. SumFunctionOnSet(Growth, T) \in Nat
    BY <2>1, SumIsNatural
  <2>3. QED
    BY <2>2 DEF GrowthOf, T
<1>7. QED
  BY <1>1, <1>2, <1>3, <1>4, <1>5, <1>6

\* ProcessIoAttributor.sample gives each app at most the growth of its processes, and in all
\* what all of them grew.
LEMMA AttributedIsGrowth ==
  ASSUME io \in Counters, seen \in Counters
  PROVE  /\ Attributed \in Bytes /\ SumOf(Attributed) = SumOf(Growth)
         /\ \A a \in Range(AppOf) : BytesOf(Attributed, a) <= GrowthOf(a)
<1> DEFINE A == {AppOf[p] : p \in Common}
           rise(p) == IF io[p] > seen[p] THEN io[p] - seen[p] ELSE 0
           ofApp(a) == {p \in Common : AppOf[p] = a}
           bytes == [a \in A |-> SumOf([p \in ofApp(a) |-> rise(p)])]
           sums == [a \in A |-> SumFunctionOnSet(Growth, {p \in Common : AppOf[p] = a})]
<1>1. Attributed = Bounded(bytes, SampleApps)
  BY DEF Attributed
<1>2. \A a \in A : SumOf([p \in ofApp(a) |-> rise(p)]) = GrowthOf(a)
  <2> TAKE a \in A
  <2> DEFINE T == ofApp(a)
             f == [p \in T |-> rise(p)]
  <2>1. IsFiniteSet(T) /\ \A p \in T : Growth[p] \in Nat /\ f[p] = Growth[p]
    <3>1. T \subseteq Common
      OBVIOUS
    <3>2. IsFiniteSet(T) /\ \A p \in T : Growth[p] \in Nat
      BY <3>1, CommonIsFinite, FS_Subset
    <3>3. \A p \in T : f[p] = Growth[p]
      BY <3>1 DEF Growth
    <3>4. QED
      BY <3>2, <3>3
  <2>2. SumOf(f) = SumFunctionOnSet(f, T)
    BY DEF SumOf
  <2>3. GrowthOf(a) = SumFunctionOnSet(Growth, T)
    BY DEF GrowthOf
  <2> HIDE DEF T, f
  <2>4. SumFunctionOnSet(f, T) = SumFunctionOnSet(Growth, T)
    BY <2>1, SumOfSame
  <2>5. SumOf(f) = GrowthOf(a)
    BY <2>2, <2>3, <2>4
  <2>6. QED
    BY <2>5 DEF f, T
<1>3. bytes = sums
  BY <1>2 DEF GrowthOf
<1>4. A \subseteq Apps /\ IsFiniteSet(A)
  <2>1. A \subseteq Apps
    BY CommonIsFinite, AppsAreFinite DEF Apps
  <2>2. QED
    BY <2>1, AppsAreFinite, FS_Subset
<1>5. bytes \in Bytes
  <2>1. \A a \in A : bytes[a] \in Nat
    BY <1>2, CommonIsFinite
  <2>2. bytes \in [A -> Nat]
    <3> HIDE DEF A
    <3>1. QED
      BY <2>1
  <2> HIDE DEF A, bytes
  <2>3. QED
    BY <1>4, <2>2 DEF Bytes
<1>6. SumOf(bytes) = SumOf(Growth)
  <2>1. SumFunctionOnSet(Growth, Common) = SumFunctionOnSet(sums, A)
    <3>1. IsFiniteSet(Common) /\ \A p \in Common : Growth[p] \in Nat /\ AppOf[p] \in A
      BY CommonIsFinite
    <3> HIDE DEF A
    <3>2. QED
      BY <3>1, <1>4, SumOfParts
  <2>2. SumOf(bytes) = SumFunctionOnSet(bytes, A)
    BY DEF SumOf
  <2> HIDE DEF bytes, sums, A
  <2>3. QED
    BY <2>1, <2>2, <1>3, CommonIsFinite
<1>7. \A a \in Range(AppOf) : BytesOf(bytes, a) <= GrowthOf(a)
  <2> TAKE a \in Range(AppOf)
  <2>1. CASE a \in A
    <3>1. BytesOf(bytes, a) = GrowthOf(a)
      BY <2>1, <1>2 DEF BytesOf
    <3>2. QED
      BY <3>1, CommonIsFinite
  <2>2. CASE a \notin A
    <3>1. BytesOf(bytes, a) = 0
      BY <2>2 DEF BytesOf
    <3>2. QED
      BY <3>1, CommonIsFinite
  <2>3. QED
    BY <2>1, <2>2
<1> HIDE DEF bytes
<1>8. /\ Bounded(bytes, SampleApps) \in Bytes
      /\ SumOf(Bounded(bytes, SampleApps)) = SumOf(bytes)
      /\ \A a \in Range(AppOf) : BytesOf(Bounded(bytes, SampleApps), a) <= BytesOf(bytes, a)
  BY <1>5, BoundedKeeps
<1>9. \A a \in Range(AppOf) : BytesOf(Attributed, a) <= GrowthOf(a)
  <2> TAKE a \in Range(AppOf)
  <2>1. BytesOf(Attributed, a) <= BytesOf(bytes, a) /\ BytesOf(bytes, a) <= GrowthOf(a)
    BY <1>1, <1>7, <1>8
  <2>2. /\ BytesOf(Attributed, a) \in Nat /\ BytesOf(bytes, a) \in Nat /\ GrowthOf(a) \in Nat
    BY <1>1, <1>5, <1>8, RowsAreFinite, CommonIsFinite
  <2>3. QED
    BY <2>1, <2>2
<1>10. QED
  BY <1>1, <1>6, <1>8, <1>9

\* A window of intervals is finite.
LEMMA OpenIsFinite ==
  ASSUME NEW open \in Seq(OpenInterval)
  PROVE  IsFiniteSet(DOMAIN open)
<1>1. DOMAIN open = 1 .. Len(open) /\ Len(open) \in Nat
  OBVIOUS
<1>2. QED
  BY <1>1, FS_Interval

\* The sums over a list of intervals, and over one that is an interval longer.
LEMMA OpenSums ==
  ASSUME NEW open \in Seq(OpenInterval)
  PROVE  /\ \A i \in DOMAIN open : open[i].host \in Nat /\ open[i].apps \in Bytes
         /\ HostOf(open) \in Nat /\ \A a : AppBytes(open, a) \in Nat
<1>1. \A i \in DOMAIN open : open[i].host \in Nat /\ open[i].apps \in Bytes
  <2> TAKE i \in DOMAIN open
  <2>1. open[i] \in OpenInterval
    OBVIOUS
  <2>2. QED
    BY <2>1 DEF OpenInterval
<1>2. IsFiniteSet(DOMAIN open)
  BY OpenIsFinite
<1>3. HostOf(open) \in Nat
  <2> DEFINE f == [i \in DOMAIN open |-> open[i].host]
  <2>1. \A i \in DOMAIN open : f[i] \in Nat
    BY <1>1
  <2>2. HostOf(open) = SumFunctionOnSet(f, DOMAIN open)
    BY DEF HostOf, SumOf
  <2> HIDE DEF f
  <2>3. QED
    BY <1>2, <2>1, <2>2, SumIsNatural
<1>4. \A a : AppBytes(open, a) \in Nat
  <2> TAKE a
  <2> DEFINE f == [i \in DOMAIN open |-> BytesOf(open[i].apps, a)]
  <2>1. \A i \in DOMAIN open : f[i] \in Nat
    BY <1>1, RowsAreFinite
  <2>2. AppBytes(open, a) = SumFunctionOnSet(f, DOMAIN open)
    BY DEF AppBytes, SumOf
  <2> HIDE DEF f
  <2>3. QED
    BY <1>2, <2>1, <2>2, SumIsNatural
<1>5. QED
  BY <1>1, <1>3, <1>4

\* An empty window and an empty row hold nothing.
LEMMA OpenIsEmpty ==
  /\ <<>> \in Seq(OpenInterval) /\ HostOf(<<>>) = 0 /\ \A a : AppBytes(<<>>, a) = 0
  /\ <<>> \in Bytes /\ SumOf(<<>>) = 0 /\ \A a : BytesOf(<<>>, a) = 0
<1>1. DOMAIN <<>> = {}
  OBVIOUS
<1>2. HostOf(<<>>) = 0
  BY <1>1, SumOfNone DEF HostOf, SumOf
<1>3. \A a : AppBytes(<<>>, a) = 0
  BY <1>1, SumOfNone DEF AppBytes, SumOf
<1>4. SumOf(<<>>) = 0
  BY <1>1, SumOfNone DEF SumOf
<1>5. <<>> \in Bytes
  <2>1. <<>> \in [{} -> Nat]
    BY <1>1
  <2>2. QED
    BY <2>1 DEF Bytes
<1>6. \A a : BytesOf(<<>>, a) = 0
  BY <1>1 DEF BytesOf
<1>7. QED
  BY <1>2, <1>3, <1>4, <1>5, <1>6

\* A window with one more interval holds so much more.
LEMMA LongerSums ==
  ASSUME NEW open \in Seq(OpenInterval), NEW x \in OpenInterval
  PROVE  /\ Append(open, x) \in Seq(OpenInterval)
         /\ HostOf(Append(open, x)) = HostOf(open) + x.host
         /\ \A a : AppBytes(Append(open, x), a) = AppBytes(open, a) + BytesOf(x.apps, a)
<1> DEFINE n == Len(open)
           more == Append(open, x)
<1>1. /\ n \in Nat /\ DOMAIN open = 1 .. n /\ DOMAIN more = 1 .. n + 1
      /\ more \in Seq(OpenInterval)
  OBVIOUS
<1>2. /\ \A i \in 1 .. n : more[i] = open[i]
      /\ more[n + 1] = x
  OBVIOUS
<1>3. x.host \in Nat /\ x.apps \in Bytes
  BY DEF OpenInterval
<1>4. /\ \A i \in 1 .. n : open[i].host \in Nat /\ open[i].apps \in Bytes
      /\ \A i \in 1 .. n + 1 : more[i].host \in Nat /\ more[i].apps \in Bytes
  BY <1>1, OpenSums
<1> HIDE DEF n, more
<1>5. HostOf(more) = HostOf(open) + x.host
  <2> DEFINE f == [i \in DOMAIN open |-> open[i].host]
             g == [i \in DOMAIN more |-> more[i].host]
  <2>1. /\ \A i \in 1 .. n : f[i] \in Nat /\ g[i] = f[i]
        /\ g[n + 1] = x.host
    BY <1>1, <1>2, <1>4
  <2>2. HostOf(open) = SumFunctionOnSet(f, 1 .. n) /\ HostOf(more) = SumFunctionOnSet(g, 1 .. n + 1)
    BY <1>1 DEF HostOf, SumOf
  <2> HIDE DEF f, g
  <2>3. SumFunctionOnSet(g, 1 .. n + 1) = SumFunctionOnSet(f, 1 .. n) + g[n + 1]
    BY <1>1, <1>3, <2>1, SumOfLonger
  <2>4. QED
    BY <2>1, <2>2, <2>3
<1>6. \A a : AppBytes(more, a) = AppBytes(open, a) + BytesOf(x.apps, a)
  <2> TAKE a
  <2> DEFINE f == [i \in DOMAIN open |-> BytesOf(open[i].apps, a)]
             g == [i \in DOMAIN more |-> BytesOf(more[i].apps, a)]
  <2>1. /\ \A i \in 1 .. n : f[i] \in Nat /\ g[i] = f[i]
        /\ g[n + 1] = BytesOf(x.apps, a) /\ g[n + 1] \in Nat
    BY <1>1, <1>2, <1>3, <1>4, RowsAreFinite
  <2>2. AppBytes(open, a) = SumFunctionOnSet(f, 1 .. n) /\ AppBytes(more, a) = SumFunctionOnSet(g, 1 .. n + 1)
    BY <1>1 DEF AppBytes, SumOf
  <2> HIDE DEF f, g
  <2>3. SumFunctionOnSet(g, 1 .. n + 1) = SumFunctionOnSet(f, 1 .. n) + g[n + 1]
    BY <1>1, <2>1, SumOfLonger
  <2>4. QED
    BY <2>1, <2>2, <2>3
<1>7. QED
  BY <1>1, <1>5, <1>6 DEF more

\* What was stored and is open, in all, is a natural number.
LEMMA InAllIsNatural ==
  ASSUME NEW kept \in [Apps -> Nat], NEW open \in Seq(OpenInterval)
  PROVE  InAll(kept, open) \in Nat
<1> DEFINE f == [a \in Apps |-> kept[a] + AppBytes(open, a)]
<1>1. \A a \in Apps : f[a] \in Nat
  BY OpenSums
<1>2. InAll(kept, open) = SumFunctionOnSet(f, Apps)
  BY DEF InAll, SumOf
<1> HIDE DEF f
<1>3. QED
  BY <1>1, <1>2, AppsAreFinite, SumIsNatural

\* The points of all apps and the intervals hold what they held and a row more.
AllMove(kept, open, kept2, open2, row) ==
    /\ InAll(kept, open) \in Nat /\ InAll(kept2, open2) \in Nat
    /\ InAll(kept2, open2) = InAll(kept, open) + SumOf(row)

\* What the points of all apps and the intervals hold grows by what is added.
LEMMA InAllMoves ==
  ASSUME NEW kept \in [Apps -> Nat], NEW open \in Seq(OpenInterval),
         NEW kept2 \in [Apps -> Nat], NEW open2 \in Seq(OpenInterval), NEW row \in Bytes,
         \A a \in Apps : kept2[a] + AppBytes(open2, a) = kept[a] + AppBytes(open, a) + BytesOf(row, a)
  PROVE  AllMove(kept, open, kept2, open2, row)
<1> DEFINE f == [a \in Apps |-> kept[a] + AppBytes(open, a)]
           g == [a \in Apps |-> BytesOf(row, a)]
           h == [a \in Apps |-> kept2[a] + AppBytes(open2, a)]
<1>1. /\ \A a \in Apps : f[a] \in Nat /\ g[a] \in Nat /\ h[a] = f[a] + g[a] /\ h[a] \in Nat
  BY OpenSums, RowsAreFinite
<1>2. \A a \in Apps : g[a] = BytesOf(row, a)
  OBVIOUS
<1>3. /\ InAll(kept, open) = SumFunctionOnSet(f, Apps)
      /\ InAll(kept2, open2) = SumFunctionOnSet(h, Apps)
  BY DEF InAll, SumOf
<1> HIDE DEF f, g, h
<1>4. SumFunctionOnSet(h, Apps) = SumFunctionOnSet(f, Apps) + SumFunctionOnSet(g, Apps)
  BY <1>1, AppsAreFinite, SumOfBoth
<1>5. SumFunctionOnSet(g, Apps) = SumOf(row)
  BY <1>2, RowsInAll
<1>6. SumFunctionOnSet(h, Apps) \in Nat /\ SumFunctionOnSet(f, Apps) \in Nat
  BY <1>1, AppsAreFinite, SumIsNatural
<1>7. QED
  BY <1>3, <1>4, <1>5, <1>6 DEF AllMove

\* aggregate_process_io loses no byte of the intervals.
LEMMA AggregateKeeps ==
  ASSUME NEW open \in Seq(OpenInterval)
  PROVE  /\ Aggregate(open) \in Bytes
         /\ SumOf(Aggregate(open)) = SumFunctionOnSet([a \in Apps |-> AppBytes(open, a)], Apps)
         /\ \A a \in Range(AppOf) : BytesOf(Aggregate(open), a) <= AppBytes(open, a)
<1> DEFINE U == UNION {DOMAIN open[i].apps : i \in DOMAIN open}
           bytes == [a \in U |-> AppBytes(open, a)]
           all == [a \in Apps |-> AppBytes(open, a)]
<1>1. Aggregate(open) = Bounded(bytes, DisplayApps)
  BY DEF Aggregate, AppBytes
<1>2. U \subseteq Apps
  BY OpenSums, RowsAreFinite
<1>3. IsFiniteSet(U)
  BY <1>2, AppsAreFinite, FS_Subset
<1>4. \A a : AppBytes(open, a) \in Nat
  BY OpenSums
<1>5. bytes \in Bytes
  <2>1. bytes \in [U -> Nat]
    BY <1>4
  <2> HIDE DEF U, bytes
  <2>2. QED
    BY <1>2, <2>1 DEF Bytes
<1>6. \A a : a \notin U => AppBytes(open, a) = 0
  <2> SUFFICES ASSUME NEW a, a \notin U PROVE AppBytes(open, a) = 0
    OBVIOUS
  <2> DEFINE f == [i \in DOMAIN open |-> BytesOf(open[i].apps, a)]
  <2>1. \A i \in DOMAIN open : f[i] = 0
    BY DEF BytesOf
  <2>2. AppBytes(open, a) = SumFunctionOnSet(f, DOMAIN open)
    BY DEF AppBytes, SumOf
  <2>3. IsFiniteSet(DOMAIN open)
    BY OpenIsFinite
  <2> HIDE DEF f
  <2>4. QED
    BY <2>1, <2>2, <2>3, SumOfNothing
<1>7. \A a : BytesOf(bytes, a) = AppBytes(open, a)
  <2> TAKE a
  <2>1. CASE a \in U
    BY <2>1 DEF BytesOf
  <2>2. CASE a \notin U
    <3>1. BytesOf(bytes, a) = 0
      BY <2>2 DEF BytesOf
    <3>2. QED
      BY <3>1, <2>2, <1>6
  <2>3. QED
    BY <2>1, <2>2
<1>8. SumOf(bytes) = SumFunctionOnSet(all, Apps)
  <2>1. \A a \in Apps : all[a] = BytesOf(bytes, a)
    BY <1>7
  <2> HIDE DEF bytes, all
  <2>2. QED
    BY <2>1, <1>5, RowsInAll
<1> HIDE DEF bytes
<1>9. /\ Bounded(bytes, DisplayApps) \in Bytes
      /\ SumOf(Bounded(bytes, DisplayApps)) = SumOf(bytes)
      /\ \A a \in Range(AppOf) : BytesOf(Bounded(bytes, DisplayApps), a) <= BytesOf(bytes, a)
  BY <1>5, BoundedKeeps
<1>10. QED
  BY <1>1, <1>7, <1>8, <1>9

\* _points: a window that closes moves what its intervals hold into the points.
LEMMA PersistMoves ==
  ASSUME NEW seconds, NEW open \in Seq(OpenInterval), Persist(seconds, open),
         stored \in Nat, storedApps \in [Apps -> Nat]
  PROVE  /\ stored' \in Nat /\ storedApps' \in [Apps -> Nat] /\ intervals' \in Seq(OpenInterval)
         /\ stored' + HostOf(intervals') = stored + HostOf(open)
         /\ \A a \in Range(AppOf) : storedApps'[a] + AppBytes(intervals', a) <= storedApps[a] + AppBytes(open, a)
         /\ InAll(storedApps', intervals') = InAll(storedApps, open)
<1>1. CASE intervals' = open /\ UNCHANGED <<stored, storedApps>>
  <2>1. \A a \in Range(AppOf) : storedApps[a] + AppBytes(open, a) \in Nat
    <3>1. Range(AppOf) \subseteq Apps
      BY DEF Apps
    <3>2. QED
      BY <3>1, OpenSums
  <2>2. QED
    BY <1>1, <2>1
<1>2. CASE /\ intervals' = <<>> /\ stored' = stored + SumOf([i \in DOMAIN open |-> open[i].host])
           /\ storedApps' = [a \in DOMAIN storedApps |-> storedApps[a] + BytesOf(Aggregate(open), a)]
  <2>1. stored' = stored + HostOf(open) /\ HostOf(open) \in Nat /\ HostOf(intervals') = 0
    BY <1>2, OpenSums, OpenIsEmpty DEF HostOf
  <2>2. intervals' \in Seq(OpenInterval) /\ \A a : AppBytes(intervals', a) = 0
    BY <1>2, OpenIsEmpty
  <2>3. Aggregate(open) \in Bytes /\ \A a : BytesOf(Aggregate(open), a) \in Nat /\ AppBytes(open, a) \in Nat
    BY AggregateKeeps, OpenSums, RowsAreFinite
  <2>4. storedApps' \in [Apps -> Nat] /\ \A a \in Apps : storedApps'[a] = storedApps[a] + BytesOf(Aggregate(open), a)
    BY <1>2, <2>3
  <2>5. \A a \in Range(AppOf) : storedApps'[a] + AppBytes(intervals', a) <= storedApps[a] + AppBytes(open, a)
    <3> TAKE a \in Range(AppOf)
    <3>1. a \in Apps
      BY DEF Apps
    <3>2. /\ storedApps'[a] = storedApps[a] + BytesOf(Aggregate(open), a) /\ AppBytes(intervals', a) = 0
          /\ BytesOf(Aggregate(open), a) <= AppBytes(open, a)
          /\ storedApps[a] \in Nat /\ BytesOf(Aggregate(open), a) \in Nat /\ AppBytes(open, a) \in Nat
      BY <2>2, <2>3, <2>4, <3>1, AggregateKeeps
    <3>3. QED
      BY <3>2
  <2>6. InAll(storedApps', intervals') = InAll(storedApps, open)
    <3> DEFINE kept == [a \in Apps |-> AppBytes(open, a)]
               f == [a \in Apps |-> storedApps[a]]
               g == [a \in Apps |-> BytesOf(Aggregate(open), a)]
               h == [a \in Apps |-> storedApps'[a] + AppBytes(intervals', a)]
               k == [a \in Apps |-> storedApps[a] + AppBytes(open, a)]
    <3>1. \A a \in Apps : /\ f[a] \in Nat /\ g[a] \in Nat /\ kept[a] \in Nat
                          /\ h[a] = f[a] + g[a] /\ k[a] = f[a] + kept[a]
      <4> TAKE a \in Apps
      <4>1. storedApps'[a] = storedApps[a] + BytesOf(Aggregate(open), a) /\ AppBytes(intervals', a) = 0
        BY <2>2, <2>4
      <4>2. storedApps[a] \in Nat /\ BytesOf(Aggregate(open), a) \in Nat /\ AppBytes(open, a) \in Nat
        BY <2>3
      <4>3. QED
        BY <4>1, <4>2
    <3>2. InAll(storedApps', intervals') = SumFunctionOnSet(h, Apps) /\ InAll(storedApps, open) = SumFunctionOnSet(k, Apps)
      BY <2>4 DEF InAll, SumOf
    <3>3. \A a \in Apps : g[a] = BytesOf(Aggregate(open), a)
      OBVIOUS
    <3>4. SumOf(Aggregate(open)) = SumFunctionOnSet(kept, Apps)
      BY AggregateKeeps
    <3> HIDE DEF f, g, h, k, kept
    <3>5. /\ SumFunctionOnSet(h, Apps) = SumFunctionOnSet(f, Apps) + SumFunctionOnSet(g, Apps)
          /\ SumFunctionOnSet(k, Apps) = SumFunctionOnSet(f, Apps) + SumFunctionOnSet(kept, Apps)
      BY <3>1, AppsAreFinite, SumOfBoth
    <3>6. SumFunctionOnSet(g, Apps) = SumOf(Aggregate(open))
      BY <2>3, <3>3, RowsInAll
    <3>7. QED
      BY <3>2, <3>4, <3>5, <3>6
  <2>7. QED
    BY <2>1, <2>2, <2>4, <2>5, <2>6
<1>3. QED
  BY <1>1, <1>2 DEF Persist

\* What a reading finds moves into its interval, unless the processes could not be read.
LEMMA IntervalHolds ==
  ASSUME SystemInv, previous # NoReading, NEW fails \in BOOLEAN
  PROVE  /\ Interval(fails) \in OpenInterval /\ Interval(fails).host = Fresh
         /\ SumOf(Interval(fails).apps) \in Nat /\ SumOf(Interval(fails).apps) <= SumOf(Growth)
         /\ ~fails => SumOf(Interval(fails).apps) = SumOf(Growth)
         /\ \A a \in Range(AppOf) : BytesOf(Interval(fails).apps, a) <= GrowthOf(a)
<1> DEFINE x == Interval(fails)
<1>0. io \in Counters /\ seen \in Counters /\ hostCounter \in Nat /\ previous \in Nat
  BY DEF SystemInv, SystemTypes
<1>1. x.host = Fresh /\ x.host \in Nat
  BY <1>0 DEF Interval, Fresh
<1>2. x = [host |-> x.host, apps |-> x.apps]
  BY DEF Interval
<1>3. CASE fails \/ seen = <<>>
  <2>1. x.apps = <<>>
    BY <1>3 DEF Interval, NotReady
  <2>2. x \in OpenInterval /\ SumOf(x.apps) = 0 /\ \A a : BytesOf(x.apps, a) = 0
    BY <1>1, <1>2, <2>1, OpenIsEmpty DEF OpenInterval
  <2>3. seen = <<>> => SumOf(Growth) = 0
    <3>1. seen = <<>> => Common = {}
      BY DEF Common
    <3>2. QED
      BY <1>0, <3>1, CommonIsFinite, SumOfNone
  <2>4. SumOf(Growth) \in Nat /\ \A a : GrowthOf(a) \in Nat
    BY <1>0, CommonIsFinite
  <2>5. QED
    BY <1>1, <1>3, <2>2, <2>3, <2>4
<1>4. CASE ~fails /\ seen # <<>>
  <2>1. x.apps = Attributed
    BY <1>4 DEF Interval
  <2>2. Attributed \in Bytes /\ SumOf(Attributed) = SumOf(Growth)
    BY <1>0, AttributedIsGrowth
  <2>3. x \in OpenInterval
    BY <1>1, <1>2, <2>1, <2>2 DEF OpenInterval
  <2>4. QED
    BY <1>0, <1>1, <2>1, <2>2, <2>3, AttributedIsGrowth, CommonIsFinite
<1>5. QED
  BY <1>3, <1>4

\* After a reading of the processes nothing has grown yet.
LEMMA GrowthBegins ==
  ASSUME io \in Counters, io' = io, seen' \in {<<>>, io}
  PROVE  /\ SumOf(Growth)' = 0 /\ \A a : GrowthOf(a)' = 0
         /\ \A p \in Common' : seen'[p] <= io'[p]
<1>1. Common' \subseteq Processes /\ \A p \in Common' : seen'[p] = io[p] /\ io[p] \in Nat
  BY DEF Common, Counters
<1>2. IsFiniteSet(Common')
  BY <1>1, SystemAssumption, FS_Subset
<1>3. DOMAIN (Growth') = Common' /\ \A p \in Common' : Growth'[p] = 0
  BY <1>1 DEF Growth
<1>4. SumOf(Growth)' = 0
  <2> DEFINE f == Growth'
  <2>1. SumOf(Growth)' = SumFunctionOnSet(f, Common')
    BY <1>3 DEF SumOf
  <2>2. \A p \in Common' : f[p] = 0
    BY <1>3
  <2> HIDE DEF f
  <2>3. QED
    BY <2>1, <2>2, <1>2, SumOfNothing
<1>5. \A a : GrowthOf(a)' = 0
  <2> TAKE a
  <2> DEFINE f == Growth'
             T == {p \in Common' : AppOf[p] = a}
  <2>1. GrowthOf(a)' = SumFunctionOnSet(f, T)
    BY DEF GrowthOf
  <2>2. IsFiniteSet(T) /\ \A p \in T : f[p] = 0
    BY <1>2, <1>3, FS_Subset
  <2> HIDE DEF f, T
  <2>3. QED
    BY <2>1, <2>2, SumOfNothing
<1>6. QED
  BY <1>1, <1>4, <1>5

\* A byte of a process is growth of it and of its app, if the process was known.
LEMMA GrowthGrows ==
  ASSUME io \in Counters, seen \in Counters, \A r \in Common : seen[r] <= io[r],
         NEW p \in DOMAIN io, io' = [io EXCEPT ![p] = @ + 1], seen' = seen
  PROVE  /\ io' \in Counters /\ DOMAIN io' = DOMAIN io /\ Common' = Common
         /\ \A r \in Common' : seen'[r] <= io'[r]
         /\ SumOf(Growth)' = SumOf(Growth) + (IF p \in Common THEN 1 ELSE 0)
         /\ GrowthOf(AppOf[p])' <= GrowthOf(AppOf[p]) + 1
         /\ \A a : a # AppOf[p] => GrowthOf(a)' = GrowthOf(a)
         /\ \A a : GrowthOf(a)' \in Nat
<1> DEFINE f == Growth
           g == Growth'
           step == IF p \in Common THEN 1 ELSE 0
<1>1. DOMAIN io \in SUBSET Processes /\ io \in [DOMAIN io -> Nat]
  BY DEF Counters
<1>2. io' \in [DOMAIN io -> Nat] /\ DOMAIN io' = DOMAIN io
  BY <1>1
<1>3. io' \in Counters
  BY <1>1, <1>2 DEF Counters
<1>4. Common' = Common
  BY <1>2 DEF Common
<1>5. /\ IsFiniteSet(Common) /\ \A r \in Common : io[r] \in Nat /\ seen[r] \in Nat
      /\ f \in [Common -> Nat]
  BY CommonIsFinite
<1>6. /\ \A r \in Common : seen'[r] <= io'[r] /\ g[r] \in Nat
      /\ \A r \in Common \ {p} : g[r] = f[r]
      /\ p \in Common => g[p] = f[p] + 1
      /\ DOMAIN g = Common
  BY <1>1, <1>2, <1>4, <1>5 DEF Growth, Common
<1>7. \A T \in SUBSET Common : SumFunctionOnSet(g, T) = SumFunctionOnSet(f, T) + (IF p \in T THEN 1 ELSE 0)
  <2> TAKE T \in SUBSET Common
  <2>1. IsFiniteSet(T) /\ \A r \in T : f[r] \in Nat /\ g[r] \in Nat
    BY <1>5, <1>6, FS_Subset
  <2>2. CASE p \in T
    <3>1. \A r \in T \ {p} : g[r] = f[r]
      BY <1>6
    <3>2. g[p] = f[p] + 1 /\ f[p] \in Nat
      BY <1>6, <2>1, <2>2
    <3> HIDE DEF f, g
    <3>3. /\ SumFunctionOnSet(f, T) \in Nat /\ SumFunctionOnSet(g, T) \in Nat
          /\ SumFunctionOnSet(f, T) = f[p] + SumFunctionOnSet(f, T \ {p})
          /\ SumFunctionOnSet(g, T) = g[p] + SumFunctionOnSet(g, T \ {p})
      BY <2>1, <2>2, SumRemoves, SumIsNatural
    <3>4. /\ IsFiniteSet(T \ {p})
          /\ \A r \in T \ {p} : f[r] \in Nat /\ g[r] = f[r]
      BY <2>1, <3>1, FS_RemoveElement
    <3>5. /\ SumFunctionOnSet(g, T \ {p}) = SumFunctionOnSet(f, T \ {p})
          /\ SumFunctionOnSet(f, T \ {p}) \in Nat
      BY <3>4, SumOfSame, SumIsNatural
    <3>6. QED
      BY <2>2, <3>2, <3>3, <3>5
  <2>3. CASE p \notin T
    <3>1. \A r \in T : f[r] \in Nat /\ g[r] = f[r]
      BY <1>6, <2>1, <2>3
    <3> HIDE DEF f, g
    <3>2. SumFunctionOnSet(g, T) = SumFunctionOnSet(f, T) /\ SumFunctionOnSet(f, T) \in Nat
      BY <2>1, <3>1, SumOfSame, SumIsNatural
    <3>3. QED
      BY <2>3, <3>2
  <2>4. QED
    BY <2>2, <2>3
<1>8. SumOf(Growth)' = SumOf(Growth) + step
  <2>1. SumOf(Growth)' = SumFunctionOnSet(g, Common) /\ SumOf(Growth) = SumFunctionOnSet(f, Common)
    BY <1>5, <1>6 DEF SumOf
  <2> HIDE DEF f, g
  <2>2. QED
    BY <2>1, <1>7
<1>9. \A a : /\ a = AppOf[p] => GrowthOf(a)' <= GrowthOf(a) + 1
             /\ a # AppOf[p] => GrowthOf(a)' = GrowthOf(a)
             /\ GrowthOf(a)' \in Nat
  <2> TAKE a
  <2> DEFINE T == {r \in Common : AppOf[r] = a}
  <2>1. GrowthOf(a)' = SumFunctionOnSet(g, T) /\ GrowthOf(a) = SumFunctionOnSet(f, T)
    BY <1>4 DEF GrowthOf
  <2>2. T \in SUBSET Common /\ (p \in T => a = AppOf[p])
    OBVIOUS
  <2>3. GrowthOf(a) \in Nat
    BY CommonIsFinite
  <2> HIDE DEF f, g, T
  <2>4. SumFunctionOnSet(g, T) = SumFunctionOnSet(f, T) + (IF p \in T THEN 1 ELSE 0)
    BY <2>2, <1>7
  <2>5. QED
    BY <2>1, <2>2, <2>3, <2>4
<1>10. QED
  BY <1>2, <1>3, <1>4, <1>6, <1>8, <1>9

-------------------------------------------------------------------------------
\* The parts of the invariant that a step leaves alone.
LEMMA HostStands ==
  ASSUME HostIsConserved, UNCHANGED <<hostCounter, hostMoved, stored, intervals, previous>>,
         irregular'.host = irregular.host
  PROVE  HostIsConserved'
  BY DEF HostIsConserved, Fresh

\* The growth is a function of the counters and the reading.
LEMMA GrowthStands ==
  ASSUME UNCHANGED <<io, seen>>
  PROVE  Common' = Common /\ Growth' = Growth /\ SumOf(Growth)' = SumOf(Growth) /\ \A a : GrowthOf(a)' = GrowthOf(a)
<1>1. Common' = Common
  BY DEF Common
<1>2. Growth' = Growth
  BY <1>1 DEF Growth
<1>3. QED
  BY <1>1, <1>2 DEF SumOf, GrowthOf

\* A step that touches neither counters nor readings leaves the apps conserved.
LEMMA AppsStand ==
  ASSUME AppsAreConserved, UNCHANGED <<io, seen, ioMoved, storedApps, intervals, previous>>,
         irregular'.apps = irregular.apps
  PROVE  AppsAreConserved'
<1>1. Common' = Common /\ Growth' = Growth /\ SumOf(Growth)' = SumOf(Growth) /\ \A a : GrowthOf(a)' = GrowthOf(a)
  BY GrowthStands
<1>2. QED
  BY <1>1 DEF AppsAreConserved

\* A step that touches neither status nor events leaves the status told.
LEMMA StatusStands ==
  ASSUME StatusIsTold, UNCHANGED <<health, reasons, lastStatus, systemEvents, toldStatus, unwritten>>
  PROVE  StatusIsTold'
  BY DEF StatusIsTold

-------------------------------------------------------------------------------
\* Traffic of the host keeps the invariant: it is fresh until it is read.
LEMMA HostIoKeeps ==
  ASSUME SystemInv, HostIo
  PROVE  SystemInv'
<1> USE SystemAssumption DEF SystemInv, HostIo, ioVars
<1>1. SystemTypes'
  BY DEF SystemTypes
<1>2. ReadingsBegin'
  BY DEF SystemTypes, ReadingsBegin
<1>3. HostIsConserved'
  <2>1. HostOf(intervals) \in Nat /\ HostOf(intervals)' = HostOf(intervals)
    BY OpenSums DEF SystemTypes
  <2>2. /\ hostCounter' = hostCounter + 1 /\ hostMoved' = hostMoved + 1 /\ UNCHANGED <<stored, previous, irregular>>
        /\ hostCounter \in Nat /\ hostMoved \in Nat /\ stored \in Nat /\ previous \in Nat \cup {NoReading}
    BY DEF SystemTypes
  <2>3. HostIsConserved
    OBVIOUS
  <2> HIDE DEF SystemInv, HostIo, ioVars
  <2>4. \/ Fresh' = Fresh
        \/ Fresh' = Fresh + 1
    BY <2>2, SystemAssumption DEF Fresh
  <2>5. Fresh \in Nat
    BY <2>2 DEF Fresh
  <2>6. ~irregular.host /\ previous # NoReading => Fresh' = Fresh + 1 /\ hostCounter >= previous
    BY <2>2, <2>3, SystemAssumption DEF Fresh, HostIsConserved
  <2>7. QED
    BY <2>1, <2>2, <2>3, <2>4, <2>5, <2>6 DEF HostIsConserved
<1>4. AppsAreConserved'
  BY AppsStand
<1>5. StatusIsTold'
  BY StatusStands
<1>6. QED
  BY <1>1, <1>2, <1>3, <1>4, <1>5

\* A disk that leaves makes the run irregular.
LEMMA DiskLeavesKeeps ==
  ASSUME SystemInv, DiskLeaves
  PROVE  SystemInv'
<1> USE SystemAssumption DEF SystemInv, DiskLeaves, ioVars
<1>0. irregular \in [host : BOOLEAN, apps : BOOLEAN]
  BY DEF SystemTypes
<1>1. SystemTypes'
  BY DEF SystemTypes
<1>2. ReadingsBegin'
  BY DEF SystemTypes, ReadingsBegin
<1>3. HostIsConserved'
  <2>1. HostOf(intervals) \in Nat /\ HostOf(intervals)' = HostOf(intervals)
    BY OpenSums DEF SystemTypes
  <2>2. irregular'.host
    BY <1>0
  <2>3. Fresh' = 0 /\ Fresh \in Nat
    <3>1. /\ previous' = previous /\ previous \in Nat \cup {NoReading} /\ hostCounter \in Nat
          /\ hostCounter > 0 /\ hostCounter' = 0
      BY DEF SystemTypes
    <3> HIDE DEF SystemInv, DiskLeaves, ioVars
    <3>2. QED
      BY <3>1 DEF Fresh
  <2>4. stored + HostOf(intervals) + Fresh <= hostMoved /\ stored \in Nat /\ hostMoved \in Nat
    BY DEF HostIsConserved, SystemTypes
  <2>5. stored' + HostOf(intervals)' + Fresh' <= hostMoved'
    BY <2>1, <2>3, <2>4
  <2>6. QED
    BY <2>2, <2>5 DEF HostIsConserved
<1>4. AppsAreConserved'
  <2>1. irregular'.apps = irregular.apps
    BY <1>0
  <2>2. QED
    BY <2>1, AppsStand
<1>5. StatusIsTold'
  BY StatusStands
<1>6. QED
  BY <1>1, <1>2, <1>3, <1>4, <1>5

\* Traffic of a process keeps the invariant: it is growth until it is read.
LEMMA ProcessIoKeeps ==
  ASSUME SystemInv, NEW p \in Processes, ProcessIo(p)
  PROVE  SystemInv'
<1> USE DEF SystemInv, ProcessIo
<1>0. /\ io \in Counters /\ seen \in Counters /\ \A r \in Common : seen[r] <= io[r]
      /\ p \in DOMAIN io /\ io' = [io EXCEPT ![p] = @ + 1] /\ seen' = seen
  BY DEF SystemTypes, AppsAreConserved
<1>a. AppOf[p] \in Range(AppOf) /\ AppOf[p] \in Apps
  BY AppsAreFinite DEF Apps
<1>1. SystemTypes'
  <2>1. io' \in Counters
    BY <1>0, GrowthGrows
  <2>2. ioMoved' \in [Apps -> Nat]
    BY <1>a DEF SystemTypes
  <2>3. QED
    BY <2>1, <2>2 DEF SystemTypes
<1>2. ReadingsBegin'
  <2>1. DOMAIN io' = DOMAIN io
    BY <1>0
  <2>2. QED
    BY <2>1 DEF ReadingsBegin
<1>3. HostIsConserved'
  BY HostStands
<1>4. AppsAreConserved'
  <2>1. /\ Common' = Common /\ DOMAIN io' = DOMAIN io
        /\ \A r \in Common' : seen'[r] <= io'[r]
        /\ SumOf(Growth)' = SumOf(Growth) + (IF p \in Common THEN 1 ELSE 0)
        /\ GrowthOf(AppOf[p])' <= GrowthOf(AppOf[p]) + 1
        /\ \A a : a # AppOf[p] => GrowthOf(a)' = GrowthOf(a)
        /\ \A a : GrowthOf(a)' \in Nat
    BY <1>0, GrowthGrows
  <2>2. SumOf(ioMoved') = SumOf(ioMoved) + 1 /\ SumOf(ioMoved) \in Nat
    <3> DEFINE a == AppOf[p]
               f == ioMoved
               g == ioMoved'
    <3>1. /\ f \in [Apps -> Nat] /\ g \in [Apps -> Nat] /\ \A b \in Apps \ {a} : g[b] = f[b]
          /\ g[a] = f[a] + 1 /\ a \in Apps
      <4>1. f \in [Apps -> Nat] /\ g = [f EXCEPT ![a] = @ + 1]
        BY DEF SystemTypes
      <4> HIDE DEF f, g, a, SystemInv, ProcessIo
      <4>2. a \in Apps
        BY <1>a DEF a
      <4>3. QED
        BY <4>1, <4>2
    <3>2. SumOf(f) = SumFunctionOnSet(f, Apps) /\ SumOf(g) = SumFunctionOnSet(g, Apps)
      BY <3>1 DEF SumOf
    <3> HIDE DEF f, g, a
    <3>3. /\ SumFunctionOnSet(f, Apps) \in Nat /\ SumFunctionOnSet(g, Apps) \in Nat
          /\ SumFunctionOnSet(g, Apps) + f[a] = SumFunctionOnSet(f, Apps) + g[a]
      BY <3>1, AppsAreFinite, SumDiffers
    <3>4. SumOf(g) = SumOf(f) + 1 /\ SumOf(f) \in Nat
      BY <3>1, <3>2, <3>3
    <3>5. QED
      BY <3>4 DEF f, g
  <2>3. InAll(storedApps, intervals) \in Nat
    BY InAllIsNatural DEF SystemTypes
  <2>4. SumOf(Growth) \in Nat /\ \A a : GrowthOf(a) \in Nat
    BY <1>0, CommonIsFinite
  <2>5. \A a \in Range(AppOf) : storedApps'[a] + AppBytes(intervals, a)' + GrowthOf(a)' <= ioMoved'[a]
    <3> TAKE a \in Range(AppOf)
    <3>1. storedApps[a] \in Nat /\ AppBytes(intervals, a) \in Nat /\ ioMoved[a] \in Nat
      BY OpenSums DEF SystemTypes, Apps
    <3>2. storedApps'[a] = storedApps[a] /\ AppBytes(intervals, a)' = AppBytes(intervals, a)
      OBVIOUS
    <3>3. storedApps[a] + AppBytes(intervals, a) + GrowthOf(a) <= ioMoved[a]
      BY DEF AppsAreConserved
    <3>4. ioMoved'[a] = IF a = AppOf[p] THEN ioMoved[a] + 1 ELSE ioMoved[a]
      BY <1>a DEF SystemTypes, Apps
    <3>5. GrowthOf(a)' <= (IF a = AppOf[p] THEN GrowthOf(a) + 1 ELSE GrowthOf(a)) /\ GrowthOf(a)' \in Nat
      BY <2>1, <2>4
    <3>6. QED
      BY <3>1, <3>2, <3>3, <3>4, <3>5, <2>4
  <2>6. InAll(storedApps, intervals)' = InAll(storedApps, intervals)
    OBVIOUS
  <2>7. DOMAIN seen = DOMAIN io => p \in Common
    BY <1>0 DEF Common
  <2>8. /\ InAll(storedApps, intervals) + SumOf(Growth) <= SumOf(ioMoved)
        /\ ~irregular.apps /\ previous # NoReading =>
            DOMAIN seen = DOMAIN io /\ InAll(storedApps, intervals) + SumOf(Growth) = SumOf(ioMoved)
    BY DEF AppsAreConserved
  <2>9. /\ InAll(storedApps, intervals)' + SumOf(Growth)' <= SumOf(ioMoved)'
        /\ ~irregular'.apps /\ previous' # NoReading =>
            DOMAIN seen' = DOMAIN io' /\ InAll(storedApps, intervals)' + SumOf(Growth)' = SumOf(ioMoved)'
    BY <2>1, <2>2, <2>3, <2>4, <2>6, <2>7, <2>8
  <2>10. QED
    BY <2>1, <2>5, <2>9 DEF AppsAreConserved
<1>5. StatusIsTold'
  BY StatusStands
<1>6. QED
  BY <1>1, <1>2, <1>3, <1>4, <1>5

\* A process that ends takes its growth along, and the one that starts is not known.
LEMMA RespawnKeeps ==
  ASSUME SystemInv, NEW p \in Processes, NEW q \in Processes, Respawn(p, q)
  PROVE  SystemInv'
<1> USE DEF SystemInv, Respawn
<1>0. /\ io \in Counters /\ seen \in Counters /\ irregular \in [host : BOOLEAN, apps : BOOLEAN]
      /\ \A r \in Common : seen[r] <= io[r]
  BY DEF SystemTypes, AppsAreConserved
<1>1. /\ DOMAIN io' = (DOMAIN io \ {p}) \cup {q} /\ io' \in [DOMAIN io' -> Nat]
      /\ \A r \in DOMAIN io \ {p} : io'[r] = io[r]
  <2>1. DOMAIN io \subseteq Processes /\ io \in [DOMAIN io -> Nat]
    BY <1>0 DEF Counters
  <2>2. QED
    BY <2>1
<1>2. io' \in Counters
  <2>1. DOMAIN io' \in SUBSET Processes
    BY <1>0, <1>1 DEF Counters
  <2>2. QED
    BY <1>1, <2>1 DEF Counters
<1>3. SystemTypes'
  BY <1>0, <1>2 DEF SystemTypes
<1>4. ReadingsBegin'
  <2>1. IsFiniteSet(DOMAIN io)
    BY <1>0, SystemAssumption, FS_Subset DEF Counters
  <2>2. Cardinality(DOMAIN io \ {p}) = Cardinality(DOMAIN io) - 1 /\ IsFiniteSet(DOMAIN io \ {p})
    BY <2>1, FS_RemoveElement
  <2>3. Cardinality((DOMAIN io \ {p}) \cup {q}) = Cardinality(DOMAIN io \ {p}) + 1
    BY <2>2, FS_AddElement
  <2>4. Cardinality(DOMAIN io) \in Nat
    BY <2>1, FS_CardinalityType
  <2>5. Cardinality(DOMAIN io') = Cardinality(DOMAIN io)
    BY <1>1, <2>2, <2>3, <2>4
  <2>6. QED
    BY <2>5 DEF ReadingsBegin
<1>5. HostIsConserved'
  BY <1>0, HostStands
<1>6. AppsAreConserved'
  <2> DEFINE f == Growth
             g == Growth'
             C == Common \ {p}
  <2>1. Common' = C
    BY <1>1 DEF Common
  <2>2. /\ f \in [Common -> Nat] /\ IsFiniteSet(Common) /\ SumOf(Growth) \in Nat /\ \A a : GrowthOf(a) \in Nat
        /\ SumOf(Growth) = SumFunctionOnSet(f, Common)
    BY <1>0, CommonIsFinite
  <2>3. DOMAIN g = C /\ \A r \in C : g[r] = f[r] /\ seen'[r] <= io'[r]
    BY <1>0, <1>1, <2>1 DEF Growth, Common
  <2>4. \A T \in SUBSET Common, U \in SUBSET C :
           U \subseteq T => SumFunctionOnSet(g, U) \in Nat /\ SumFunctionOnSet(g, U) <= SumFunctionOnSet(f, T)
    <3> TAKE T \in SUBSET Common, U \in SUBSET C
    <3>0. HAVE U \subseteq T
    <3>1. IsFiniteSet(T) /\ IsFiniteSet(U) /\ \A r \in T : f[r] \in Nat
      BY <2>2, FS_Subset
    <3>2. \A r \in U : f[r] \in Nat /\ g[r] = f[r]
      BY <2>2, <2>3
    <3> HIDE DEF f, g, C
    <3>3. SumFunctionOnSet(g, U) = SumFunctionOnSet(f, U)
      BY <3>1, <3>2, SumOfSame
    <3>4. SumFunctionOnSet(f, U) \in Nat /\ SumFunctionOnSet(f, U) <= SumFunctionOnSet(f, T)
      BY <3>0, <3>1, SumGrows
    <3>5. QED
      BY <3>3, <3>4
  <2>5. SumOf(Growth)' \in Nat /\ SumOf(Growth)' <= SumOf(Growth)
    <3>1. SumOf(Growth)' = SumFunctionOnSet(g, C)
      BY <2>3 DEF SumOf
    <3>2. C \in SUBSET Common /\ Common \in SUBSET Common /\ C \in SUBSET C
      OBVIOUS
    <3> HIDE DEF f, g, C
    <3>3. QED
      BY <3>1, <3>2, <2>2, <2>4
  <2>6. \A a : GrowthOf(a)' \in Nat /\ GrowthOf(a)' <= GrowthOf(a)
    <3> TAKE a
    <3> DEFINE T == {r \in Common : AppOf[r] = a}
               U == {r \in C : AppOf[r] = a}
    <3>1. GrowthOf(a)' = SumFunctionOnSet(g, U) /\ GrowthOf(a) = SumFunctionOnSet(f, T)
      BY <2>1 DEF GrowthOf
    <3>2. T \in SUBSET Common /\ U \in SUBSET C /\ U \subseteq T
      OBVIOUS
    <3> HIDE DEF f, g, C, T, U
    <3>3. QED
      BY <2>4, <3>1, <3>2
  <2>7. \A a \in Range(AppOf) : storedApps'[a] + AppBytes(intervals, a)' + GrowthOf(a)' <= ioMoved'[a]
    <3> TAKE a \in Range(AppOf)
    <3>1. storedApps[a] \in Nat /\ AppBytes(intervals, a) \in Nat /\ ioMoved[a] \in Nat
      BY OpenSums DEF SystemTypes, Apps
    <3>2. storedApps[a] + AppBytes(intervals, a) + GrowthOf(a) <= ioMoved[a]
      BY DEF AppsAreConserved
    <3>3. storedApps'[a] = storedApps[a] /\ AppBytes(intervals, a)' = AppBytes(intervals, a) /\ ioMoved'[a] = ioMoved[a]
      OBVIOUS
    <3>4. QED
      BY <2>2, <2>6, <3>1, <3>2, <3>3
  <2>8. InAll(storedApps, intervals)' + SumOf(Growth)' <= SumOf(ioMoved)'
    <3>1. InAll(storedApps, intervals) \in Nat
      BY InAllIsNatural DEF SystemTypes
    <3>2. SumOf(ioMoved) \in Nat
      <4> DEFINE h == ioMoved
      <4>1. h \in [Apps -> Nat]
        BY DEF SystemTypes
      <4>2. SumOf(h) = SumFunctionOnSet(h, Apps)
        BY <4>1 DEF SumOf
      <4> HIDE DEF h
      <4>3. SumOf(h) \in Nat
        BY <4>1, <4>2, AppsAreFinite, SumIsNatural
      <4>4. QED
        BY <4>3 DEF h
    <3>3. InAll(storedApps, intervals) + SumOf(Growth) <= SumOf(ioMoved)
      BY DEF AppsAreConserved
    <3>4. InAll(storedApps, intervals)' = InAll(storedApps, intervals) /\ SumOf(ioMoved)' = SumOf(ioMoved)
      OBVIOUS
    <3>5. QED
      BY <2>2, <2>5, <3>1, <3>2, <3>3, <3>4
  <2>9. irregular'.apps
    BY <1>0
  <2>10. \A r \in Common' : seen'[r] <= io'[r]
    BY <2>1, <2>3
  <2>11. QED
    BY <2>7, <2>8, <2>9, <2>10 DEF AppsAreConserved
<1>7. StatusIsTold'
  BY StatusStands
<1>8. QED
  BY <1>3, <1>4, <1>5, <1>6, <1>7

\* The transitions are written in their order; only a failed write loses one.
LEMMA WriteKeeps ==
  ASSUME SystemInv, NEW written \in 0 .. Len(systemEvents), WriteTransitions(written)
  PROVE  SystemInv'
<1> USE DEF SystemInv, WriteTransitions, ioVars
<1>0. systemEvents \in Seq(Health!Status) /\ toldStatus \in Health!Status /\ unwritten \in BOOLEAN
  BY DEF SystemTypes
<1>1. SystemTypes'
  <2>1. toldStatus' \in Health!Status
    BY <1>0
  <2>2. <<>> \in Seq(Health!Status)
    OBVIOUS
  <2>3. QED
    BY <2>1, <2>2 DEF SystemTypes
<1>2. ReadingsBegin'
  BY DEF ReadingsBegin
<1>3. HostIsConserved'
  BY HostStands
<1>4. AppsAreConserved'
  BY AppsStand
<1>5. StatusIsTold'
  <2>1. ~unwritten' => ~unwritten /\ toldStatus' = systemEvents[Len(systemEvents)]
    <3>1. Len(systemEvents) \in Nat /\ Len(systemEvents) # 0 /\ written \in Nat
      BY <1>0
    <3>2. CASE unwritten
      BY <3>2
    <3>3. CASE written < Len(systemEvents)
      BY <3>3
    <3>4. CASE ~unwritten /\ ~(written < Len(systemEvents))
      <4>1. written = Len(systemEvents)
        BY <3>1, <3>4
      <4>2. QED
        BY <3>1, <3>4, <4>1
    <3>5. QED
      BY <3>2, <3>3, <3>4
  <2>2. QED
    BY <2>1 DEF StatusIsTold
<1>6. QED
  BY <1>1, <1>2, <1>3, <1>4, <1>5

-------------------------------------------------------------------------------
(* One reading. *)

Open(seconds, fails) ==
    IF Gap(seconds) THEN <<>> ELSE IF Measures(seconds) THEN Append(intervals, Interval(fails)) ELSE intervals

\* The window after a reading: one interval longer, unless the reading was none, and empty after a gap.
LEMMA OpenHolds ==
  ASSUME SystemInv, NEW seconds \in Nat, NEW fails \in BOOLEAN
  PROVE  /\ Open(seconds, fails) \in Seq(OpenInterval)
         /\ Measures(seconds) =>
             /\ HostOf(Open(seconds, fails)) = HostOf(intervals) + Fresh
             /\ \A a : AppBytes(Open(seconds, fails), a) = AppBytes(intervals, a) + BytesOf(Interval(fails).apps, a)
         /\ ~Measures(seconds) => Open(seconds, fails) = IF Gap(seconds) THEN <<>> ELSE intervals
         /\ ~Measures(seconds) /\ ~Gap(seconds) /\ previous # NoReading => seconds = 0
<1>1. intervals \in Seq(OpenInterval)
  BY DEF SystemInv, SystemTypes
<1>2. CASE Measures(seconds)
  <2>1. ~Gap(seconds) /\ previous # NoReading
    BY <1>2, SystemAssumption DEF Gap, Measures
  <2>2. Open(seconds, fails) = Append(intervals, Interval(fails))
    BY <1>2, <2>1 DEF Open
  <2>3. Interval(fails) \in OpenInterval /\ Interval(fails).host = Fresh
    BY <2>1, IntervalHolds
  <2>4. QED
    BY <1>1, <1>2, <2>2, <2>3, LongerSums
<1>3. CASE ~Measures(seconds)
  <2>1. Open(seconds, fails) = IF Gap(seconds) THEN <<>> ELSE intervals
    BY <1>3 DEF Open
  <2>2. ~Gap(seconds) /\ previous # NoReading => seconds = 0
    BY <1>3, SystemAssumption DEF Gap, Measures
  <2>3. Open(seconds, fails) \in Seq(OpenInterval)
    BY <1>1, <2>1, OpenIsEmpty
  <2>4. QED
    BY <1>3, <2>1, <2>2, <2>3
<1>4. QED
  BY <1>2, <1>3

\* A stabilized status is the one observed or the one before.
LEMMA ObserveStays ==
  ASSUME NEW s \in Health!Stabilizer, NEW candidate \in Health!Status, NEW immediate
  PROVE  /\ Health!Observe(s, candidate, immediate) \in Health!Stabilizer
         /\ Health!Observe(s, candidate, immediate).status \in {candidate, s.status}
<1> DEFINE n == IF s.pending = candidate THEN s.count + 1 ELSE 1
<1>1. n \in Nat
  BY DEF Health!Stabilizer
<1>2. \/ Health!Observe(s, candidate, immediate) = Health!Confirmed(candidate)
      \/ Health!Observe(s, candidate, immediate) = [s EXCEPT !.pending = candidate, !.count = n]
  BY DEF Health!Observe
<1>3. Health!Confirmed(candidate) \in Health!Stabilizer /\ Health!Confirmed(candidate).status = candidate
  BY DEF Health!Confirmed, Health!Stabilizer
<1>4. /\ [s EXCEPT !.pending = candidate, !.count = n] \in Health!Stabilizer
      /\ [s EXCEPT !.pending = candidate, !.count = n].status = s.status
  <2> HIDE DEF n
  <2>1. QED
    BY <1>1 DEF Health!Stabilizer
<1>5. QED
  BY <1>2, <1>3, <1>4

\* The level of a reading is a status, healthy where nothing was found.
LEMMA LevelIsStatus ==
  /\ \A found : LevelOf(found) \in Health!Status
  /\ {"healthy", "warning", "critical"} = Health!Status
  /\ LevelOf({}) = "healthy"
<1>1. Health!Status = {"healthy", "warning", "critical"}
  BY DEF Health!Status, SystemRank
<1>2. QED
  BY <1>1 DEF LevelOf

\* What one reading does, with its list of intervals named.
LEMMA CollectMoves ==
  ASSUME SystemInv, NEW seconds \in ClockSteps, NEW reading \in HealthReadings, NEW fails \in BOOLEAN,
         Collect(seconds, reading, fails)
  PROVE  /\ stored' \in Nat /\ storedApps' \in [Apps -> Nat] /\ intervals' \in Seq(OpenInterval)
         /\ stored' + HostOf(intervals') = stored + HostOf(Open(seconds, fails))
         /\ \A a \in Range(AppOf) :
               storedApps'[a] + AppBytes(intervals', a) <= storedApps[a] + AppBytes(Open(seconds, fails), a)
         /\ InAll(storedApps', intervals') = InAll(storedApps, Open(seconds, fails))
         /\ seconds \in Nat /\ Open(seconds, fails) \in Seq(OpenInterval)
         /\ previous' = hostCounter /\ hostCounter' = hostCounter /\ hostCounter \in Nat
         /\ io' = io /\ io \in Counters /\ seen \in Counters
         /\ irregular' = [host |-> irregular.host \/ (previous # NoReading /\ ~Measures(seconds)),
                          apps |-> irregular.apps \/ Gap(seconds) \/ fails]
<1>1. Persist(seconds, Open(seconds, fails))
  BY DEF Collect, Open
<1>2. stored \in Nat /\ storedApps \in [Apps -> Nat]
  BY DEF SystemInv, SystemTypes
<1>3. seconds \in Nat
  BY SystemAssumption
<1>4. Open(seconds, fails) \in Seq(OpenInterval)
  BY <1>3, OpenHolds
<1>5. hostCounter \in Nat /\ io \in Counters /\ seen \in Counters
  BY DEF SystemInv, SystemTypes
<1>6. /\ previous' = hostCounter /\ hostCounter' = hostCounter /\ io' = io
      /\ irregular' = [host |-> irregular.host \/ (previous # NoReading /\ ~Measures(seconds)),
                       apps |-> irregular.apps \/ Gap(seconds) \/ fails]
  BY DEF Collect
<1>7. /\ stored' \in Nat /\ storedApps' \in [Apps -> Nat] /\ intervals' \in Seq(OpenInterval)
      /\ stored' + HostOf(intervals') = stored + HostOf(Open(seconds, fails))
      /\ \A a \in Range(AppOf) :
            storedApps'[a] + AppBytes(intervals', a) <= storedApps[a] + AppBytes(Open(seconds, fails), a)
      /\ InAll(storedApps', intervals') = InAll(storedApps, Open(seconds, fails))
  BY <1>1, <1>2, <1>4, PersistMoves
<1>8. QED
  BY <1>3, <1>4, <1>5, <1>6, <1>7

\* A reading keeps the types.
LEMMA CollectTypes ==
  ASSUME SystemInv, NEW seconds \in ClockSteps, NEW reading \in HealthReadings, NEW fails \in BOOLEAN,
         Collect(seconds, reading, fails)
  PROVE  SystemTypes'
<1> DEFINE found == Reasons(reading)
<1>1. /\ stored' \in Nat /\ storedApps' \in [Apps -> Nat] /\ intervals' \in Seq(OpenInterval)
      /\ seconds \in Nat /\ io' \in Counters /\ previous' \in Nat
  BY CollectMoves
<1>2. health' \in Health!Stabilizer /\ health'.status \in Health!Status
  <2>1. LevelOf(found) \in Health!Status /\ health \in Health!Stabilizer
    BY LevelIsStatus DEF SystemInv, SystemTypes
  <2>2. health' = StableHealth(found)
    BY DEF Collect
  <2> HIDE DEF found
  <2>3. health' \in Health!Stabilizer
    BY <2>1, <2>2, ObserveStays DEF StableHealth
  <2>4. QED
    BY <2>3 DEF Health!Stabilizer
<1>3. window' \in Nat
  <2>1. window \in Nat \cup {NoReading}
    BY DEF SystemInv, SystemTypes
  <2>2. window' \in {0, window + seconds} /\ (window = NoReading => window' = 0)
    BY DEF Collect, Persist
  <2>3. QED
    BY <1>1, <2>1, <2>2
<1>4. seen' \in Counters
  <2>1. io \in Counters /\ seen \in Counters
    BY DEF SystemInv, SystemTypes
  <2>2. <<>> \in Counters
    <3>1. <<>> \in [{} -> Nat]
      OBVIOUS
    <3>2. QED
      BY <3>1 DEF Counters
  <2>3. seen' \in {seen, <<>>, io}
    BY DEF Collect, SampleProcesses
  <2>4. QED
    BY <2>1, <2>2, <2>3
<1>5. systemEvents' \in Seq(Health!Status) /\ lastStatus' \in Health!Status \cup {"unknown"}
  <2>1. EventOf(health'.status) \in Seq(Health!Status)
    BY <1>2 DEF EventOf
  <2>2. systemEvents \in Seq(Health!Status)
    BY DEF SystemInv, SystemTypes
  <2>3. systemEvents' = systemEvents \o EventOf(health'.status) /\ lastStatus' = health'.status
    BY DEF Collect
  <2> HIDE DEF found
  <2>4. QED
    BY <1>2, <2>1, <2>2, <2>3
<1>6. ioMoved' \in [Apps -> Nat] /\ hostMoved' \in Nat
  BY DEF Collect, SystemInv, SystemTypes
<1>7. irregular' \in [host : BOOLEAN, apps : BOOLEAN]
  <2>1. irregular \in [host : BOOLEAN, apps : BOOLEAN]
    BY DEF SystemInv, SystemTypes
  <2> DEFINE host == irregular.host \/ (previous # NoReading /\ ~Measures(seconds))
             apps == irregular.apps \/ Gap(seconds) \/ fails
  <2>2. host \in BOOLEAN /\ apps \in BOOLEAN
    OBVIOUS
  <2>3. irregular' = [host |-> host, apps |-> apps]
    BY DEF Collect
  <2> HIDE DEF host, apps
  <2>4. QED
    BY <2>2, <2>3
<1>8. /\ hostCounter' \in Nat /\ unwritten' \in BOOLEAN /\ toldStatus' \in Health!Status
      /\ transitionFaults' \in Nat /\ readings' \in Nat
  BY DEF Collect, SystemInv, SystemTypes
<1>9. QED
  BY <1>1, <1>2, <1>3, <1>4, <1>5, <1>6, <1>7, <1>8 DEF SystemTypes

\* A reading keeps what is known before the first one, and the bounds.
LEMMA CollectBegins ==
  ASSUME SystemInv, NEW seconds \in ClockSteps, NEW reading \in HealthReadings, NEW fails \in BOOLEAN,
         Collect(seconds, reading, fails)
  PROVE  ReadingsBegin'
<1>1. seconds \in Nat /\ previous' \in Nat /\ hostCounter' = hostCounter /\ hostCounter \in Nat /\ io' = io
  BY CollectMoves
<1>2. window \in Nat \cup {NoReading} /\ window < PersistInterval /\ (previous = NoReading <=> window = NoReading)
  BY DEF SystemInv, SystemTypes, ReadingsBegin
<1>3. window' \in Nat /\ window' < PersistInterval
  <2>1. CASE window = NoReading \/ Gap(seconds)
    <3>1. window' = 0
      BY <2>1 DEF Collect, Persist
    <3>2. QED
      BY <3>1, SystemAssumption
  <2>2. CASE ~(window = NoReading \/ Gap(seconds))
    <3>1. \/ window' = 0
          \/ window' = window + seconds /\ window + seconds < PersistInterval
          \/ window' = window + seconds /\ Open(seconds, fails) = <<>>
      BY <2>2 DEF Collect, Persist, Open
    <3>2. window' = window + seconds /\ Open(seconds, fails) = <<>> => seconds = 0
      <4>1. CASE Measures(seconds)
        <5>1. intervals \in Seq(OpenInterval)
          BY DEF SystemInv, SystemTypes
        <5>2. Append(intervals, Interval(fails)) # <<>>
          BY <5>1
        <5>3. QED
          BY <2>2, <4>1, <5>2 DEF Open
      <4>2. CASE ~Measures(seconds)
        BY <1>1, <1>2, <2>2, <4>2, OpenHolds
      <4>3. QED
        BY <4>1, <4>2
    <3>3. QED
      BY <1>1, <1>2, <2>2, <3>1, <3>2, SystemAssumption
  <2>3. QED
    BY <2>1, <2>2
<1>4. hostMoved' \in Nat /\ hostMoved' <= MaxIo /\ hostCounter' <= MaxIo + hostMoved'
  BY <1>1, SystemAssumption DEF Collect, SystemInv, SystemTypes, ReadingsBegin
<1>5. Cardinality(DOMAIN io)' = Cardinality(Range(AppOf))
  BY <1>1 DEF SystemInv, ReadingsBegin
<1>6. previous' # NoReading /\ window' # NoReading
  BY <1>1, <1>3 DEF NoReading
<1>7. QED
  BY <1>3, <1>4, <1>5, <1>6 DEF ReadingsBegin

\* A reading keeps the host's traffic conserved: what was fresh is open, stored or lost for cause.
LEMMA CollectHost ==
  ASSUME SystemInv, NEW seconds \in ClockSteps, NEW reading \in HealthReadings, NEW fails \in BOOLEAN,
         Collect(seconds, reading, fails)
  PROVE  HostIsConserved'
<1> DEFINE open == Open(seconds, fails)
<1>1. /\ stored' \in Nat /\ stored' + HostOf(intervals') = stored + HostOf(open)
      /\ intervals' \in Seq(OpenInterval) /\ open \in Seq(OpenInterval) /\ seconds \in Nat
      /\ previous' = hostCounter /\ hostCounter' = hostCounter /\ hostCounter \in Nat
      /\ irregular' = [host |-> irregular.host \/ (previous # NoReading /\ ~Measures(seconds)),
                       apps |-> irregular.apps \/ Gap(seconds) \/ fails]
  BY CollectMoves
<1>2. /\ stored \in Nat /\ hostMoved \in Nat /\ HostOf(intervals) \in Nat /\ HostOf(open) \in Nat
      /\ HostOf(intervals') \in Nat
  BY <1>1, OpenSums DEF SystemInv, SystemTypes
<1>3. Fresh' = 0 /\ Fresh \in Nat /\ previous' # NoReading /\ hostCounter' >= previous'
  <2>1. previous \in Nat \cup {NoReading}
    BY DEF SystemInv, SystemTypes
  <2>2. previous' \in Nat /\ hostCounter' = previous'
    BY <1>1
  <2>3. Fresh' = 0
    <3>1. \A n \in Nat : n - n = 0
      OBVIOUS
    <3>2. previous' - previous' = 0
      BY <2>2, <3>1
    <3>3. QED
      BY <2>2, <3>2 DEF Fresh
  <2>4. Fresh \in Nat
    BY <1>1, <2>1 DEF Fresh
  <2>5. QED
    BY <2>2, <2>3, <2>4 DEF NoReading
<1>4. CASE previous = NoReading
  <2>1. /\ hostMoved' = 0 /\ stored = 0 /\ intervals = <<>> /\ ~Measures(seconds) /\ ~Gap(seconds)
    BY <1>4 DEF Collect, SystemInv, ReadingsBegin, Measures, Gap
  <2>2. HostOf(open) = 0
    BY <1>1, <2>1, OpenHolds, OpenIsEmpty
  <2>3. stored' + HostOf(intervals') + Fresh' = hostMoved'
    BY <1>1, <1>2, <1>3, <2>1, <2>2
  <2>4. QED
    BY <1>3, <2>3, <2>1 DEF HostIsConserved
<1>5. CASE previous # NoReading
  <2>1. /\ hostMoved' = hostMoved /\ stored + HostOf(intervals) + Fresh <= hostMoved
        /\ ~irregular.host => stored + HostOf(intervals) + Fresh = hostMoved
    BY <1>5 DEF Collect, SystemInv, HostIsConserved
  <2>2. CASE Measures(seconds)
    <3>1. HostOf(open) = HostOf(intervals) + Fresh
      BY <1>1, <2>2, OpenHolds
    <3>2. ~irregular'.host => ~irregular.host
      BY <1>1
    <3>3. /\ stored' + HostOf(intervals') + Fresh' <= hostMoved'
          /\ ~irregular.host => stored' + HostOf(intervals') + Fresh' = hostMoved'
      <4>1. /\ stored' + HostOf(intervals') = stored + HostOf(intervals) + Fresh
            /\ Fresh' = 0 /\ stored' \in Nat /\ HostOf(intervals') \in Nat
        BY <1>1, <1>2, <1>3, <3>1
      <4>2. QED
        BY <2>1, <4>1
    <3>4. QED
      BY <1>3, <3>2, <3>3 DEF HostIsConserved
  <2>3. CASE ~Measures(seconds)
    <3>1. irregular'.host
      BY <1>1, <1>5, <2>3
    <3>2. HostOf(open) <= HostOf(intervals)
      <4>1. open = IF Gap(seconds) THEN <<>> ELSE intervals
        BY <1>1, <2>3, OpenHolds
      <4> HIDE DEF open
      <4>2. QED
        BY <1>2, <4>1, OpenIsEmpty
    <3>3. stored' + HostOf(intervals') + Fresh' <= hostMoved'
      BY <1>1, <1>2, <1>3, <2>1, <3>2
    <3>4. QED
      BY <3>1, <3>3 DEF HostIsConserved
  <2>4. QED
    BY <2>2, <2>3
<1>6. QED
  BY <1>4, <1>5

\* A reading keeps the status told, by a written event or one that waits.
LEMMA CollectStatus ==
  ASSUME SystemInv, NEW seconds \in ClockSteps, NEW reading \in HealthReadings, NEW fails \in BOOLEAN,
         Collect(seconds, reading, fails)
  PROVE  StatusIsTold'
<1> DEFINE found == Reasons(reading)
           status == health'.status
           event == EventOf(status)
<1>1. status \in {LevelOf(found), health.status} /\ status \in Health!Status /\ health.status \in Health!Status
  <2>1. LevelOf(found) \in Health!Status /\ health \in Health!Stabilizer
    BY LevelIsStatus DEF SystemInv, SystemTypes
  <2>2. health' = StableHealth(found)
    BY DEF Collect
  <2>3. health.status \in Health!Status
    BY <2>1 DEF Health!Stabilizer
  <2> HIDE DEF found
  <2>4. health'.status \in {LevelOf(found), health.status}
    BY <2>1, <2>2, ObserveStays DEF StableHealth
  <2>5. QED
    BY <2>1, <2>3, <2>4
<1>2. /\ reasons' = (IF status = LevelOf(found) THEN found ELSE reasons)
      /\ lastStatus' = status /\ systemEvents' = systemEvents \o event
      /\ unwritten' = unwritten /\ toldStatus' = toldStatus
  BY DEF Collect
<1>3. /\ LevelOf(reasons) = health.status /\ lastStatus \in {"unknown", health.status}
      /\ lastStatus = "unknown" => health.status = "healthy"
      /\ ~unwritten => health.status = IF systemEvents = <<>> THEN toldStatus ELSE systemEvents[Len(systemEvents)]
      /\ systemEvents \in Seq(Health!Status)
  BY DEF SystemInv, StatusIsTold, SystemTypes
<1>4. "unknown" \notin Health!Status
  BY LevelIsStatus
<1> HIDE DEF found, status
<1>5. LevelOf(reasons') = status
  BY <1>1, <1>2, <1>3
<1>6. CASE event = <<>>
  <2>1. status = health.status
    <3>1. <<status>> # <<>>
      OBVIOUS
    <3>2. lastStatus = status \/ (lastStatus = "unknown" /\ status = "healthy")
      BY <1>6, <3>1 DEF EventOf
    <3>3. QED
      BY <1>1, <1>3, <1>4, <3>2
  <2>2. systemEvents' = systemEvents
    BY <1>2, <1>3, <1>6
  <2>3. QED
    BY <1>1, <1>2, <1>3, <1>4, <1>5, <2>1, <2>2 DEF StatusIsTold, status
<1>7. CASE event = <<status>>
  <2>1. /\ systemEvents' = Append(systemEvents, status) /\ systemEvents' # <<>>
        /\ systemEvents'[Len(systemEvents')] = status
    <3>1. systemEvents' = systemEvents \o <<status>>
      BY <1>2, <1>7
    <3>2. QED
      BY <3>1, <1>1, <1>3
  <2>2. QED
    BY <1>1, <1>2, <1>4, <1>5, <2>1 DEF StatusIsTold, status
<1>8. QED
  BY <1>6, <1>7 DEF EventOf

\* Lists that hold no more of any app hold no more of all.
LEMMA InAllOfLess ==
  ASSUME NEW kept \in [Apps -> Nat], NEW open \in Seq(OpenInterval)
  PROVE  InAll(kept, <<>>) \in Nat /\ InAll(kept, <<>>) <= InAll(kept, open) /\ InAll(kept, open) \in Nat
<1> DEFINE row == [a \in Apps |-> AppBytes(open, a)]
<1>1. row \in [Apps -> Nat]
  BY OpenSums
<1>2. \A a \in Apps : BytesOf(row, a) = AppBytes(open, a)
  BY DEF BytesOf
<1> HIDE DEF row
<1>3. row \in Bytes
  BY <1>1 DEF Bytes
<1>4. \A a \in Apps : kept[a] + AppBytes(open, a) = kept[a] + AppBytes(<<>>, a) + BytesOf(row, a)
  BY <1>2, OpenSums, OpenIsEmpty
<1>5. <<>> \in Seq(OpenInterval)
  BY OpenIsEmpty
<1>6. InAll(kept, open) = InAll(kept, <<>>) + SumOf(row) /\ InAll(kept, <<>>) \in Nat
  <2>1. AllMove(kept, <<>>, kept, open, row)
    BY <1>3, <1>4, <1>5, InAllMoves
  <2>2. QED
    BY <2>1 DEF AllMove
<1>7. SumOf(row) \in Nat
  <2>1. DOMAIN row = Apps /\ \A a \in Apps : row[a] \in Nat
    BY <1>1
  <2>2. QED
    BY <2>1, AppsAreFinite, SumIsNatural DEF SumOf
<1>8. QED
  BY <1>6, <1>7, InAllIsNatural

\* What was moved, in all, is a natural number.
LEMMA SumIsMoved ==
  ASSUME NEW sent \in [Apps -> Nat]
  PROVE  SumOf(sent) \in Nat
<1>1. DOMAIN sent = Apps /\ \A a \in Apps : sent[a] \in Nat
  OBVIOUS
<1>2. QED
  BY <1>1, AppsAreFinite, SumIsNatural DEF SumOf

\* Nothing stored and nothing open is nothing in all.
LEMMA NothingInAll ==
  LET none == [a \in Apps |-> 0]
  IN  InAll(none, <<>>) = 0 /\ SumOf(none) = 0
<1> DEFINE none == [a \in Apps |-> 0]
           f == [a \in Apps |-> none[a] + AppBytes(<<>>, a)]
<1>1. \A a \in Apps : none[a] = 0 /\ f[a] = 0
  BY OpenIsEmpty
<1>2. InAll(none, <<>>) = SumFunctionOnSet(f, Apps) /\ SumOf(none) = SumFunctionOnSet(none, Apps)
  BY DEF InAll, SumOf
<1>3. SumFunctionOnSet(f, Apps) = 0 /\ SumFunctionOnSet(none, Apps) = 0
  <2> HIDE DEF f, none
  <2>1. QED
    BY <1>1, AppsAreFinite, SumOfNothing
<1>4. QED
  BY <1>2, <1>3

\* The first reading: nothing is in a point or an interval yet.
LEMMA FirstReadingApps ==
  ASSUME SystemInv, NEW seconds \in ClockSteps, NEW reading \in HealthReadings, NEW fails \in BOOLEAN,
         Collect(seconds, reading, fails), previous = NoReading
  PROVE  AppsAreConserved'
<1> DEFINE none == [a \in Apps |-> 0]
<1>1. /\ stored' \in Nat /\ io' = io /\ io \in Counters /\ seconds \in Nat
      /\ irregular' = [host |-> irregular.host \/ (previous # NoReading /\ ~Measures(seconds)),
                       apps |-> irregular.apps \/ Gap(seconds) \/ fails]
  BY CollectMoves
<1>2. /\ intervals = <<>> /\ storedApps = none /\ window = NoReading
      /\ ~Measures(seconds) /\ ~Gap(seconds)
  BY DEF SystemInv, ReadingsBegin, Measures, Gap
<1>3. intervals' = <<>> /\ storedApps' = none
  BY <1>2 DEF Collect, Persist
<1>4. seen' = IF fails THEN <<>> ELSE io
  BY DEF Collect, SampleProcesses
<1>5. ioMoved' = none
  BY DEF Collect, SystemInv, SystemTypes
<1>6. /\ SumOf(Growth)' = 0 /\ \A a : GrowthOf(a)' = 0
      /\ \A p \in Common' : seen'[p] <= io'[p]
  BY <1>1, <1>4, GrowthBegins
<1>7. InAll(storedApps, intervals)' = 0 /\ SumOf(ioMoved)' = 0
  <2>1. InAll(none, <<>>) = 0 /\ SumOf(none) = 0
    BY NothingInAll
  <2> HIDE DEF none
  <2>2. InAll(storedApps', intervals') = 0 /\ SumOf(ioMoved') = 0
    BY <1>3, <1>5, <2>1
  <2>3. QED
    BY <2>2
<1>8. \A a \in Range(AppOf) : storedApps'[a] + AppBytes(intervals, a)' + GrowthOf(a)' <= ioMoved'[a]
  <2> TAKE a \in Range(AppOf)
  <2>1. a \in Apps
    BY DEF Apps
  <2>2. AppBytes(intervals', a) = 0
    BY <1>3, OpenIsEmpty
  <2>3. QED
    BY <1>3, <1>5, <1>6, <2>1, <2>2
<1>9. ~irregular'.apps => DOMAIN seen' = DOMAIN io'
  BY <1>1, <1>4
<1>10. QED
  BY <1>6, <1>7, <1>8, <1>9 DEF AppsAreConserved

\* A later one: what the processes grew goes into the interval, or is forgotten with it.
LEMMA LaterReadingApps ==
  ASSUME SystemInv, NEW seconds \in ClockSteps, NEW reading \in HealthReadings, NEW fails \in BOOLEAN,
         Collect(seconds, reading, fails), previous # NoReading
  PROVE  AppsAreConserved'
<1> DEFINE open == Open(seconds, fails)
           all == InAll(storedApps, intervals)
           later == InAll(storedApps', intervals')
           sent == SumOf(ioMoved)
           grown == SumOf(Growth)
<1>1. /\ storedApps' \in [Apps -> Nat] /\ intervals' \in Seq(OpenInterval)
      /\ \A a \in Range(AppOf) : storedApps'[a] + AppBytes(intervals', a) <= storedApps[a] + AppBytes(open, a)
      /\ later = InAll(storedApps, open)
      /\ seconds \in Nat /\ open \in Seq(OpenInterval)
      /\ io' = io /\ io \in Counters /\ seen \in Counters
      /\ irregular' = [host |-> irregular.host \/ (previous # NoReading /\ ~Measures(seconds)),
                       apps |-> irregular.apps \/ Gap(seconds) \/ fails]
  BY CollectMoves
<1>2. /\ storedApps \in [Apps -> Nat] /\ intervals \in Seq(OpenInterval) /\ ioMoved \in [Apps -> Nat]
      /\ ioMoved' = ioMoved
  BY DEF Collect, SystemInv, SystemTypes
<1>3. /\ all \in Nat /\ later \in Nat /\ sent \in Nat /\ grown \in Nat /\ \A a : GrowthOf(a) \in Nat
  BY <1>1, <1>2, InAllIsNatural, SumIsMoved, CommonIsFinite
<1>4. /\ \A p \in Common : seen[p] <= io[p]
      /\ \A a \in Range(AppOf) : storedApps[a] + AppBytes(intervals, a) + GrowthOf(a) <= ioMoved[a]
      /\ all + grown <= sent
      /\ ~irregular.apps => DOMAIN seen = DOMAIN io /\ all + grown = sent
  BY DEF SystemInv, AppsAreConserved
<1>5. \A a \in Range(AppOf) :
        /\ storedApps[a] \in Nat /\ storedApps'[a] \in Nat /\ ioMoved[a] \in Nat
        /\ AppBytes(intervals, a) \in Nat /\ AppBytes(open, a) \in Nat /\ AppBytes(intervals', a) \in Nat
  BY <1>1, <1>2, OpenSums DEF Apps
<1>6. CASE ~Measures(seconds) /\ ~Gap(seconds)
  <2>1. open = intervals /\ seconds = 0
    BY <1>1, <1>6, OpenHolds
  <2>2. UNCHANGED <<io, seen>>
    BY <1>1, <2>1 DEF Collect, SampleProcesses
  <2>3. Common' = Common /\ Growth' = Growth /\ SumOf(Growth)' = grown /\ \A a : GrowthOf(a)' = GrowthOf(a)
    BY <2>2, GrowthStands
  <2>4. \A a \in Range(AppOf) : storedApps'[a] + AppBytes(intervals, a)' + GrowthOf(a)' <= ioMoved'[a]
    <3> TAKE a \in Range(AppOf)
    <3>1. /\ storedApps'[a] + AppBytes(intervals', a) <= storedApps[a] + AppBytes(intervals, a)
          /\ storedApps[a] + AppBytes(intervals, a) + GrowthOf(a) <= ioMoved[a]
      BY <1>1, <1>4, <2>1
    <3>2. GrowthOf(a)' = GrowthOf(a) /\ ioMoved'[a] = ioMoved[a]
      BY <1>2, <2>3
    <3>3. QED
      BY <1>3, <1>5, <3>1, <3>2
  <2>5. later = all
    BY <1>1, <2>1
  <2>6. ~irregular'.apps => ~irregular.apps
    BY <1>1
  <2>7. InAll(storedApps, intervals)' = later /\ SumOf(ioMoved)' = sent
    BY <1>2
  <2> HIDE DEF all, later, sent, grown
  <2>8. QED
    BY <1>1, <1>4, <2>2, <2>3, <2>4, <2>5, <2>6, <2>7 DEF AppsAreConserved
<1>7. CASE Measures(seconds) \/ Gap(seconds)
  <2>1. seconds > 0
    BY <1>1, <1>7, SystemAssumption DEF Measures, Gap
  <2>2. seen' = IF fails THEN <<>> ELSE io
    BY <1>1, <2>1 DEF Collect, SampleProcesses
  <2>3. /\ SumOf(Growth)' = 0 /\ \A a : GrowthOf(a)' = 0
        /\ \A p \in Common' : seen'[p] <= io'[p]
    BY <1>1, <2>2, GrowthBegins
  <2>4. /\ later <= all + grown
        /\ ~irregular'.apps => later = all + grown
        /\ \A a \in Range(AppOf) : AppBytes(open, a) <= AppBytes(intervals, a) + GrowthOf(a)
    <3>1. CASE Measures(seconds)
      <4> DEFINE row == Interval(fails).apps
      <4>1. /\ Interval(fails) \in OpenInterval
            /\ SumOf(row) \in Nat /\ SumOf(row) <= grown /\ (~fails => SumOf(row) = grown)
            /\ \A a \in Range(AppOf) : BytesOf(row, a) <= GrowthOf(a)
        BY IntervalHolds
      <4>2. \A a : AppBytes(open, a) = AppBytes(intervals, a) + BytesOf(row, a)
        BY <1>1, <3>1, OpenHolds
      <4>3. row \in Bytes
        BY <4>1 DEF OpenInterval
      <4> HIDE DEF row, open
      <4>4. \A a \in Apps : storedApps[a] + AppBytes(open, a) = storedApps[a] + AppBytes(intervals, a) + BytesOf(row, a)
        <5> TAKE a \in Apps
        <5>1. storedApps[a] \in Nat /\ AppBytes(intervals, a) \in Nat /\ BytesOf(row, a) \in Nat
          BY <1>2, <4>3, OpenSums, RowsAreFinite
        <5>2. QED
          BY <4>2, <5>1
      <4>5. InAll(storedApps, open) = InAll(storedApps, intervals) + SumOf(row)
        <5>1. storedApps \in [Apps -> Nat] /\ intervals \in Seq(OpenInterval) /\ open \in Seq(OpenInterval)
          BY <1>1, <1>2
        <5>2. QED
          <6>1. AllMove(storedApps, intervals, storedApps, open, row)
            BY <4>3, <4>4, <5>1, InAllMoves
          <6>2. QED
            BY <6>1 DEF AllMove
      <4>6. ~irregular'.apps => ~fails
        BY <1>1
      <4>7. \A a \in Range(AppOf) : AppBytes(open, a) <= AppBytes(intervals, a) + GrowthOf(a)
        <5> TAKE a \in Range(AppOf)
        <5>1. BytesOf(row, a) \in Nat /\ BytesOf(row, a) <= GrowthOf(a)
          BY <4>1, <4>3, RowsAreFinite
        <5>2. QED
          BY <1>3, <1>5, <4>2, <5>1
      <4>8. later = all + SumOf(row)
        BY <1>1, <4>5
      <4> HIDE DEF all, later, grown
      <4>9. QED
        BY <1>3, <4>1, <4>6, <4>7, <4>8
    <3>2. CASE ~Measures(seconds)
      <4>1. open = <<>> /\ irregular'.apps
        BY <1>1, <1>7, <3>2, OpenHolds
      <4>2. later <= all
        BY <1>1, <1>2, <4>1, InAllOfLess
      <4>3. \A a \in Range(AppOf) : AppBytes(open, a) <= AppBytes(intervals, a) + GrowthOf(a)
        BY <1>3, <1>5, <4>1, OpenIsEmpty
      <4> HIDE DEF all, later, grown, open
      <4>4. QED
        BY <1>3, <4>1, <4>2, <4>3
    <3>3. QED
      BY <3>1, <3>2
  <2>5. \A a \in Range(AppOf) : storedApps'[a] + AppBytes(intervals, a)' + GrowthOf(a)' <= ioMoved'[a]
    <3> TAKE a \in Range(AppOf)
    <3>1. /\ storedApps'[a] + AppBytes(intervals', a) <= storedApps[a] + AppBytes(open, a)
          /\ AppBytes(open, a) <= AppBytes(intervals, a) + GrowthOf(a)
          /\ storedApps[a] + AppBytes(intervals, a) + GrowthOf(a) <= ioMoved[a]
      BY <1>1, <1>4, <2>4
    <3>2. GrowthOf(a)' = 0 /\ ioMoved'[a] = ioMoved[a]
      BY <1>2, <2>3
    <3> HIDE DEF open
    <3>3. QED
      BY <1>3, <1>5, <3>1, <3>2
  <2>6. ~irregular'.apps => ~irregular.apps /\ ~fails
    BY <1>1
  <2>7. InAll(storedApps, intervals)' = later /\ SumOf(ioMoved)' = sent
    BY <1>2
  <2>8. ~irregular'.apps => DOMAIN seen' = DOMAIN io'
    BY <1>1, <2>2, <2>6
  <2> HIDE DEF all, later, sent, grown
  <2>9. later + 0 <= sent /\ (~irregular'.apps => later + 0 = sent)
    BY <1>3, <1>4, <2>4, <2>6
  <2>10. QED
    BY <2>3, <2>5, <2>7, <2>8, <2>9 DEF AppsAreConserved
<1>8. QED
  BY <1>6, <1>7

\* A reading keeps the whole invariant.
LEMMA CollectKeeps ==
  ASSUME SystemInv, NEW seconds \in ClockSteps, NEW reading \in HealthReadings, NEW fails \in BOOLEAN,
         Collect(seconds, reading, fails)
  PROVE  SystemInv'
<1>1. SystemTypes' /\ ReadingsBegin' /\ HostIsConserved' /\ StatusIsTold'
  BY CollectTypes, CollectBegins, CollectHost, CollectStatus
<1>2. AppsAreConserved'
  BY FirstReadingApps, LaterReadingApps
<1>3. QED
  BY <1>1, <1>2 DEF SystemInv

\* The invariant holds initially.
LEMMA InitSystemInv == SystemInit => SystemInv
<1> SUFFICES ASSUME SystemInit PROVE SystemInv
  OBVIOUS
<1> DEFINE none == [a \in Apps |-> 0]
<1>1. ioMoved = none /\ storedApps = none /\ intervals = <<>> /\ seen = <<>> /\ previous = NoReading
  BY DEF SystemInit, Apps
<1>2. io = [p \in FirstProcesses |-> 0] /\ FirstProcesses \subseteq Processes
  BY SystemAssumption DEF SystemInit
<1>3. io \in Counters /\ seen \in Counters
  <2>1. io \in [FirstProcesses -> Nat]
    BY <1>2
  <2>2. seen \in [{} -> Nat] /\ {} \in SUBSET Processes
    BY <1>1
  <2>3. QED
    BY <1>2, <2>1, <2>2 DEF Counters
<1>4. health = Health!Confirmed("healthy") /\ health.status = "healthy" /\ health \in Health!Stabilizer
  BY LevelIsStatus DEF SystemInit, Health!Confirmed, Health!Stabilizer
<1>5. SystemTypes
  <2>1. none \in [Apps -> Nat] /\ <<>> \in Seq(OpenInterval) /\ <<>> \in Seq(Health!Status)
    BY OpenIsEmpty
  <2>2. [host |-> FALSE, apps |-> FALSE] \in [host : BOOLEAN, apps : BOOLEAN]
    OBVIOUS
  <2>3. "healthy" \in Health!Status
    BY LevelIsStatus
  <2> HIDE DEF none
  <2>4. QED
    BY <1>1, <1>3, <1>4, <2>1, <2>2, <2>3 DEF SystemInit, SystemTypes
<1>6. ReadingsBegin
  <2>1. Cardinality(DOMAIN io) = Cardinality(Range(AppOf))
    BY <1>2, AppsAreFinite
  <2>2. QED
    BY <1>1, <2>1, SystemAssumption DEF SystemInit, ReadingsBegin, NoReading
<1>7. HostIsConserved
  <2>1. HostOf(intervals) = 0 /\ Fresh = 0
    BY <1>1, OpenIsEmpty DEF Fresh
  <2>2. QED
    BY <1>1, <2>1 DEF SystemInit, HostIsConserved
<1>8. AppsAreConserved
  <2>1. Common = {}
    BY <1>1 DEF Common
  <2>2. SumOf(Growth) = 0 /\ \A a : GrowthOf(a) = 0
    <3>1. \A a : {p \in Common : AppOf[p] = a} = {}
      BY <2>1
    <3>2. DOMAIN Growth = {}
      BY <2>1 DEF Growth
    <3>3. QED
      BY <3>1, <3>2, SumOfNone DEF SumOf, GrowthOf
  <2>3. InAll(storedApps, intervals) = 0 /\ SumOf(ioMoved) = 0
    <3>1. InAll(none, <<>>) = 0 /\ SumOf(none) = 0
      BY NothingInAll
    <3> HIDE DEF none
    <3>2. QED
      BY <1>1, <3>1
  <2>4. \A a \in Range(AppOf) : storedApps[a] + AppBytes(intervals, a) + GrowthOf(a) <= ioMoved[a]
    BY <1>1, <2>2, OpenIsEmpty DEF Apps
  <2>5. QED
    BY <1>1, <2>1, <2>2, <2>3, <2>4 DEF AppsAreConserved
<1>9. StatusIsTold
  BY <1>4, LevelIsStatus DEF SystemInit, StatusIsTold
<1>10. QED
  BY <1>5, <1>6, <1>7, <1>8, <1>9 DEF SystemInv

\* Every step keeps it: one case per action.
LEMMA SystemStep ==
  ASSUME SystemInv, [SystemNext]_systemVars
  PROVE  SystemInv'
<1>1. CASE HostIo
  BY <1>1, HostIoKeeps
<1>2. CASE DiskLeaves
  BY <1>2, DiskLeavesKeeps
<1>3. ASSUME NEW p \in Processes, ProcessIo(p) PROVE SystemInv'
  BY <1>3, ProcessIoKeeps
<1>4. ASSUME NEW p \in Processes, NEW q \in Processes, Respawn(p, q) PROVE SystemInv'
  BY <1>4, RespawnKeeps
<1>5. ASSUME NEW seconds \in ClockSteps, NEW reading \in HealthReadings, NEW fails \in BOOLEAN,
             Collect(seconds, reading, fails)
      PROVE  SystemInv'
  BY <1>5, CollectKeeps
<1>6. ASSUME NEW written \in 0 .. Len(systemEvents), WriteTransitions(written) PROVE SystemInv'
  BY <1>6, WriteKeeps
<1>7. CASE UNCHANGED systemVars
  <2>1. /\ UNCHANGED <<hostCounter, io, hostMoved, ioMoved, previous, seen, window, intervals, health, reasons>>
        /\ UNCHANGED <<lastStatus, systemEvents, toldStatus, stored, storedApps, irregular, unwritten, readings,
                       transitionFaults>>
    BY <1>7 DEF systemVars, ioVars
  <2>2. SystemTypes' /\ ReadingsBegin'
    BY <2>1 DEF SystemInv, SystemTypes, ReadingsBegin
  <2>3. QED
    BY <2>1, <2>2, HostStands, AppsStand, StatusStands DEF SystemInv
<1>8. QED
  BY <1>1, <1>2, <1>3, <1>4, <1>5, <1>6, <1>7 DEF SystemNext

\* The inductive invariant of the system collector: where a byte of the host and of an app is,
\* and what the last event says.
THEOREM SystemInvariance == SystemSpec => []SystemInv
<1>1. SystemInv /\ [SystemNext]_systemVars => SystemInv'
  BY SystemStep
<1>2. QED
  BY <1>1, InitSystemInv, PTL DEF SystemSpec

\* The invariant implies the property that the run checks.
LEMMA SystemTells == SystemInv => SystemTellsTheHost
<1> SUFFICES ASSUME SystemInv PROVE SystemTellsTheHost
  OBVIOUS
<1>1. /\ OpenBytes = HostOf(intervals) /\ \A a : OpenApps(a) = AppBytes(intervals, a)
      /\ StoredInAll = InAll(storedApps, intervals) /\ MovedInAll = SumOf(ioMoved)
  BY DEF OpenBytes, HostOf, OpenApps, AppBytes, StoredInAll, InAll, MovedInAll
<1>2. /\ stored \in Nat /\ hostMoved \in Nat /\ hostCounter \in Nat /\ previous \in Nat \cup {NoReading}
      /\ intervals \in Seq(OpenInterval) /\ storedApps \in [Apps -> Nat] /\ ioMoved \in [Apps -> Nat]
      /\ io \in Counters /\ seen \in Counters
  BY DEF SystemInv, SystemTypes
<1>3. HostOf(intervals) \in Nat /\ Fresh \in Nat
  BY <1>2, OpenSums DEF Fresh
<1>4. stored + OpenBytes <= hostMoved
  BY <1>1, <1>2, <1>3 DEF SystemInv, HostIsConserved
<1>5. ~irregular.host /\ previous # NoReading => stored + OpenBytes + Unsampled = hostMoved
  BY <1>1 DEF SystemInv, HostIsConserved, Fresh, Unsampled
<1>6. InAll(storedApps, intervals) \in Nat /\ SumOf(ioMoved) \in Nat /\ SumOf(Growth) \in Nat /\ \A a : GrowthOf(a) \in Nat
  BY <1>2, InAllIsNatural, SumIsMoved, CommonIsFinite
<1>7. \A a \in Range(AppOf) : storedApps[a] + OpenApps(a) <= ioMoved[a]
  <2> TAKE a \in Range(AppOf)
  <2>1. storedApps[a] \in Nat /\ AppBytes(intervals, a) \in Nat /\ ioMoved[a] \in Nat
    BY <1>2, OpenSums DEF Apps
  <2>2. storedApps[a] + AppBytes(intervals, a) + GrowthOf(a) <= ioMoved[a]
    BY DEF SystemInv, AppsAreConserved
  <2>3. QED
    BY <1>1, <1>6, <2>1, <2>2
<1>8. StoredInAll <= MovedInAll
  BY <1>1, <1>6 DEF SystemInv, AppsAreConserved
<1>9. ~irregular.apps /\ previous # NoReading => StoredInAll + UnsampledApps = MovedInAll
  <2> SUFFICES ASSUME ~irregular.apps, previous # NoReading PROVE StoredInAll + UnsampledApps = MovedInAll
    OBVIOUS
  <2>1. DOMAIN seen = DOMAIN io /\ InAll(storedApps, intervals) + SumOf(Growth) = SumOf(ioMoved)
    BY DEF SystemInv, AppsAreConserved
  <2>2. Common = DOMAIN io
    BY <2>1 DEF Common
  <2>3. \A p \in Common : seen[p] <= io[p] /\ io[p] \in Nat /\ seen[p] \in Nat
    BY <1>2, CommonIsFinite DEF SystemInv, AppsAreConserved
  <2> DEFINE f == [p \in DOMAIN io |-> IF p \in DOMAIN seen THEN io[p] - seen[p] ELSE io[p]]
  <2>4. \A p \in Common : Growth[p] = io[p] - seen[p]
    BY <2>3 DEF Growth
  <2>5. f = Growth
    BY <2>1, <2>2, <2>4 DEF Growth
  <2>6. UnsampledApps = SumOf(f)
    BY DEF UnsampledApps
  <2> HIDE DEF f
  <2>7. QED
    BY <1>1, <2>1, <2>5, <2>6
<1>10. LevelOf(reasons) = health.status /\ (~unwritten /\ systemEvents = <<>> => toldStatus = health.status)
  BY DEF SystemInv, StatusIsTold
<1>11. QED
  BY <1>4, <1>5, <1>7, <1>8, <1>9, <1>10 DEF SystemTellsTheHost

\* The collector of system resources: points and open intervals hold no byte of the host or of
\* an app twice, through gaps, clocks that stand, processes that end and rows that are bounded,
\* and every byte while nothing was irregular; the reasons give the status, and the events,
\* once written, tell it.
THEOREM HostIsTold == SystemSpec => []SystemTellsTheHost
<1>1. QED
  BY SystemInvariance, SystemTells, PTL

\* The types of the system collector.
THEOREM SystemKeepsTypes == SystemSpec => []SystemTypeOK
<1>1. SystemInv => SystemTypeOK
  <2> SUFFICES ASSUME SystemInv PROVE SystemTypeOK
    OBVIOUS
  <2>1. hostCounter \in 0 .. 2 * MaxIo /\ hostMoved \in 0 .. MaxIo /\ window \in NoReading .. PersistInterval
    BY SystemAssumption DEF SystemInv, SystemTypes, ReadingsBegin, NoReading
  <2>2. DOMAIN io \subseteq Processes /\ DOMAIN seen \subseteq Processes
    BY DEF SystemInv, SystemTypes, Counters
  <2>3. QED
    BY <2>1, <2>2 DEF SystemInv, SystemTypes, ReadingsBegin, SystemTypeOK
<1>2. QED
  BY <1>1, SystemInvariance, PTL

-------------------------------------------------------------------------------
(* The observers beside each other. *)

\* A behaviour of the six observers is one of each: they share no state, so what is proved
\* of one alone holds beside the others (app/agent.py).
THEOREM MonitorsAreIndependent ==
  MonitorsSpec => FacilitySpec /\ AlertSpec /\ UpstreamSpec /\ PriceSpec /\ XraySpec /\ SystemSpec
<1>1. MonitorsInit => FacilityInit /\ AlertInit /\ UpstreamInit /\ PriceInit /\ XrayInit /\ SystemInit
  BY DEF MonitorsInit
<1>2. [MonitorsNext]_monitorVars =>
        /\ [FacilityNext]_facilityVars /\ [AlertNext]_alertVars /\ [UpstreamNext]_upstreamVars
        /\ [PriceNext]_priceVars /\ [XrayNext]_xrayVars /\ [SystemNext]_systemVars
  BY DEF MonitorsNext, FacilityTurn, AlertTurn, UpstreamTurn, PriceTurn, XrayTurn, SystemTurn, monitorVars
<1>3. QED
  BY <1>1, <1>2, PTL DEF MonitorsSpec, FacilitySpec, AlertSpec, UpstreamSpec, PriceSpec, XraySpec, SystemSpec

\* The types of the six observers, beside each other.
THEOREM MonitorsKeepTypes == MonitorsSpec => []MonitorsTypeOK
<1>1. FacilitySpec => []FacilityTypeOK
  BY FacilityInvariance, FacilityInvTypes, PTL
<1>2. QED
  BY <1>1, MonitorsAreIndependent, AlertTypes, UpstreamTypes, PriceTypes, XrayTypes, SystemKeepsTypes, PTL
  DEF MonitorsTypeOK

================================================================================
