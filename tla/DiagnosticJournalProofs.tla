------------------------ MODULE DiagnosticJournalProofs ------------------------
(***************************************************************************)
(* Proofs about the diagnostic journal: its history agrees with its open   *)
(* conditions, for any checks, caps, samples, clocks, readers and crashes. *)
(***************************************************************************)
EXTENDS DiagnosticJournal, FiniteSetTheorems, TLAPS

Row == [severity : Severity, observed : 0..(MaxClock + Skew), started : 0..MaxClock]
Coverage == [status : {"observed", "unknown", "unobserved"},
             epoch : {None} \cup 0..(MaxClock + Skew), seen : 0..MaxClock]

\* What an event is, and that later events have later times.
EventsAreOrdered(j) ==
    /\ IsFiniteSet(j.events)
    /\ \A e \in j.events :
           /\ e.id \in 1..j.lastId /\ e.check \in Check /\ e.severity \in Severity
           /\ e.transition \in {"raised", "changed", "recovered"}
           /\ e.at \in Nat /\ e.at <= j.observed
           /\ e.started \in Nat /\ e.started <= e.at
    /\ \A e, f \in j.events :
           /\ e.id = f.id => e = f
           /\ e.id < f.id => e.at <= f.at

\* The tables: an open condition began before the latest sample and is covered; what is
\* called observed was seen by that sample, on evidence no older than the condition's.
TablesAgree(j) ==
    /\ j.observed \in 0..MaxClock \cup {None} /\ j.lastId \in Nat
    /\ j.truncated \in BOOLEAN
    /\ j.active \in [Check -> {NoRow} \cup Row]
    /\ j.checks \in [Check -> {NoCheck} \cup Coverage]
    /\ \A c \in Check :
           /\ j.active[c] # NoRow => /\ j.active[c].started <= j.observed
                                     /\ j.checks[c] # NoCheck
           /\ j.checks[c].status = "observed" =>
                  /\ j.checks[c].seen = j.observed
                  /\ j.active[c] # NoRow => j.checks[c].epoch >= j.active[c].observed

\* The last event that is kept of a check is the last one told, and gives its condition.
LastOf(j, e) == \A f \in j.events : f.check = e.check => f.id <= e.id
LastEventTells(j, t) ==
    \A e \in j.events : LastOf(j, e) =>
        /\ t[e.check] = e.transition
        /\ j.active[e.check] # NoRow => /\ j.active[e.check].severity = e.severity
                                        /\ j.active[e.check].started = e.started

WithinCaps(j) ==
    /\ Cardinality(j.events) <= MaxEvents
    /\ Cardinality(OpenIn(j)) <= MaxActive
    /\ Cardinality(CheckRows(j)) <= MaxChecks

Raised == {"raised", "changed"}
History(j, t, d) ==
    \A c \in Check :
        /\ j.active[c] # NoRow <=> t[c] \in Raised /\ c \notin d
        /\ c \in d => j.truncated /\ t[c] \in Raised

\* A commit waits for the readers, so the journal is still the one a reader has read.
ReaderIsCurrent ==
    Reading => /\ reader.now \in Nat
               /\ reader.active = journal.active /\ reader.checks = journal.checks

Surroundings ==
    /\ clock \in 0..MaxClock
    /\ sample \in (0..MaxClock) \cup {None}
    /\ hot \in BOOLEAN
    /\ told \in [Check -> {"nothing", "raised", "changed", "recovered"}]
    /\ capped \subseteq Check
    /\ samples \in 0..MaxSamples /\ steps \in 0..MaxSteps

IInv ==
    /\ Surroundings
    /\ EventsAreOrdered(journal) /\ TablesAgree(journal) /\ WithinCaps(journal)
    /\ LastEventTells(journal, told)
    /\ History(journal, told, capped)
    /\ ReaderIsCurrent

\* What the assumption says of the constants.
LEMMA Bounds ==
  /\ Check \subseteq Nat /\ IsFiniteSet(Check) /\ FreshOf \in [Check -> Nat]
  /\ Skew \in Nat /\ Retention \in Nat /\ MaxEvents \in Nat /\ MaxActive \in Nat
  /\ MaxChecks \in Nat /\ MaxSample \in Nat /\ Limit \in Nat /\ MaxClock \in Nat
  /\ MaxSamples \in Nat /\ MaxSteps \in Nat
  /\ MaxActive <= MaxChecks /\ MaxSample <= MaxEvents
  BY ConstantsAssumption

--------------------------------------------------------------------------------
(* Retention: what the first n of a finite ordered set are. *)

\* R orders S strictly and totally.
Orders(R, S) ==
    /\ \A x \in S : <<x, x>> \notin R
    /\ \A x, y, z \in S : <<x, y>> \in R /\ <<y, z>> \in R => <<x, z>> \in R
    /\ \A x, y \in S : x # y => <<x, y>> \in R \/ <<y, x>> \in R

Predecessors(R, S, x) == {y \in S : <<y, x>> \in R}
First(R, S, n) == {x \in S : Cardinality(Predecessors(R, S, x)) < n}

\* An element has fewer predecessors than the set has elements, and than its successors have.
LEMMA RanksGrow ==
  ASSUME NEW S, IsFiniteSet(S), NEW R, Orders(R, S)
  PROVE  /\ Cardinality(S) \in Nat
         /\ \A x \in S : Cardinality(Predecessors(R, S, x)) \in 0..(Cardinality(S) - 1)
         /\ \A x, y \in S : <<x, y>> \in R =>
                Cardinality(Predecessors(R, S, x)) < Cardinality(Predecessors(R, S, y))
<1>1. Cardinality(S) \in Nat
  BY FS_CardinalityType
<1>2. ASSUME NEW x \in S
      PROVE  IsFiniteSet(Predecessors(R, S, x)) /\ Cardinality(Predecessors(R, S, x)) \in Nat
  BY FS_Subset, FS_CardinalityType DEF Predecessors
<1>3. ASSUME NEW x \in S
      PROVE  Cardinality(Predecessors(R, S, x)) < Cardinality(S)
  <2>1. Predecessors(R, S, x) \in SUBSET (S \ {x})
    BY DEF Predecessors, Orders
  <2>2. IsFiniteSet(S \ {x}) /\ Cardinality(S \ {x}) = Cardinality(S) - 1
    BY FS_RemoveElement
  <2>3. Cardinality(Predecessors(R, S, x)) <= Cardinality(S \ {x})
    BY <2>1, <2>2, FS_Subset
  <2>4. QED
    BY <1>1, <1>2, <2>2, <2>3
<1>4. ASSUME NEW x \in S, NEW y \in S, <<x, y>> \in R
      PROVE  Cardinality(Predecessors(R, S, x)) < Cardinality(Predecessors(R, S, y))
  <2> DEFINE below == Predecessors(R, S, x)
  <2>1. x \notin below /\ below \cup {x} \in SUBSET Predecessors(R, S, y)
    BY <1>4 DEF Predecessors, Orders
  <2>2. Cardinality(below \cup {x}) = Cardinality(below) + 1
    BY <1>2, <2>1, FS_AddElement
  <2>3. Cardinality(below \cup {x}) <= Cardinality(Predecessors(R, S, y))
    BY <1>2, <2>1, FS_Subset
  <2>4. QED
    BY <1>2, <2>2, <2>3
<1>5. QED
  BY <1>1, <1>2, <1>3, <1>4

\* There are n of them, or all; with an element its predecessors are among them.
LEMMA FirstElements ==
  ASSUME NEW S, IsFiniteSet(S), NEW R, Orders(R, S), NEW n \in Nat
  PROVE  /\ First(R, S, n) \subseteq S
         /\ IsFiniteSet(First(R, S, n))
         /\ Cardinality(First(R, S, n)) <= n
         /\ First(R, S, n) # S => Cardinality(First(R, S, n)) = n
         /\ \A x \in First(R, S, n), y \in S : <<y, x>> \in R => y \in First(R, S, n)
<1> DEFINE N == Cardinality(S)
           rank == [x \in S |-> Cardinality(Predecessors(R, S, x))]
           F == First(R, S, n)
<1>1. N \in Nat /\ rank \in [S -> 0..(N - 1)]
  BY RanksGrow
<1>2. \A x, y \in S : x # y => rank[x] # rank[y]
  <2> SUFFICES ASSUME NEW x \in S, NEW y \in S, x # y
               PROVE  rank[x] # rank[y]
    OBVIOUS
  <2>1. rank[x] < rank[y] \/ rank[y] < rank[x]
    BY RanksGrow DEF Orders
  <2>2. QED
    BY <1>1, <2>1
<1>3. rank \in Injection(S, 0..(N - 1))
  BY <1>1, <1>2 DEF Injection, IsInjective
<1>4. rank \in Surjection(S, 0..(N - 1))
  <2>1. IsFiniteSet(0..(N - 1)) /\ Cardinality(0..(N - 1)) = N
    BY <1>1, FS_Interval
  <2>2. QED
    BY <1>3, <2>1, FS_Injection
<1>5. F = {x \in S : rank[x] < n} /\ IsFiniteSet(F) /\ Cardinality(F) \in Nat
  BY FS_Subset, FS_CardinalityType DEF First
<1>6. IsFiniteSet(0..(n - 1)) /\ Cardinality(0..(n - 1)) = n
  BY FS_Interval
<1> DEFINE r == [x \in F |-> rank[x]]
<1>7. r \in Injection(F, 0..(n - 1))
  <2>1. r \in [F -> 0..(n - 1)]
    BY <1>1, <1>5
  <2>2. QED
    BY <1>2, <1>5, <2>1 DEF Injection, IsInjective
<1>8. Cardinality(F) <= n
  BY <1>6, <1>7, FS_Injection
<1>9. ASSUME F # S
      PROVE  Cardinality(F) = n
  <2>1. PICK x \in S : rank[x] >= n
    BY <1>1, <1>5, <1>9
  <2>2. n <= N - 1
    BY <1>1, <2>1
  <2>3. ASSUME NEW k \in 0..(n - 1)
        PROVE  \E y \in F : r[y] = k
    <3>1. k \in 0..(N - 1) /\ k < n
      BY <1>1, <2>2
    <3>2. PICK y \in S : rank[y] = k
      BY <1>4, <3>1 DEF Surjection
    <3>3. QED
      BY <1>5, <3>1, <3>2
  <2>4. r \in Surjection(F, 0..(n - 1))
    BY <1>7, <2>3 DEF Surjection, Injection
  <2>5. QED
    BY <1>6, <1>7, <2>4, FS_Injection
<1>10. ASSUME NEW x \in F, NEW y \in S, <<y, x>> \in R
       PROVE  y \in F
  <2>1. x \in S /\ rank[x] < n
    BY <1>5
  <2>2. rank[y] < rank[x]
    BY <1>10, <2>1, RanksGrow
  <2>3. rank[y] < n
    BY <1>1, <2>1, <2>2
  <2>4. QED
    BY <1>5, <2>3
<1>11. QED
  BY <1>5, <1>8, <1>9, <1>10

\* The events that _retain and a query keep: all or n, with an event every newer one.
LEMMA NewestEvents ==
  ASSUME NEW S, IsFiniteSet(S), NEW n \in Nat,
         \A e \in S : e.id \in Int /\ e.at \in Int,
         \A e, f \in S : e.id = f.id => e = f
  PROVE  /\ FirstOf(S, n, Newer) \subseteq S
         /\ IsFiniteSet(FirstOf(S, n, Newer))
         /\ Cardinality(FirstOf(S, n, Newer)) <= n
         /\ \A e \in FirstOf(S, n, Newer), f \in S : Newer(f, e) => f \in FirstOf(S, n, Newer)
<1> DEFINE R == {p \in S \X S : Newer(p[1], p[2])}
<1>1. \A e, f \in S : <<e, f>> \in R <=> Newer(e, f)
  OBVIOUS
<1>2. Orders(R, S)
  BY <1>1 DEF Orders, Newer
<1>3. FirstOf(S, n, Newer) = First(R, S, n)
  <2>1. \A e \in S : {f \in S : Newer(f, e)} = Predecessors(R, S, e)
    BY <1>1 DEF Predecessors
  <2>2. QED
    BY <2>1 DEF FirstOf, First
<1> DEFINE kept == First(R, S, n)
<1> HIDE DEF R
<1>4. /\ kept \subseteq S /\ IsFiniteSet(kept) /\ Cardinality(kept) <= n
      /\ \A e \in kept, f \in S : <<f, e>> \in R => f \in kept
  BY <1>2, FirstElements
<1>5. \A e \in kept, f \in S : Newer(f, e) => f \in kept
  BY <1>1, <1>4
<1>6. FirstOf(S, n, Newer) = kept
  BY <1>3
<1> HIDE DEF kept
<1>7. QED
  BY <1>4, <1>5, <1>6 DEF FirstOf

\* The conditions that _retain keeps.
LEMMA ConditionsKept ==
  ASSUME NEW j, j.active \in [Check -> {NoRow} \cup Row]
  PROVE  /\ KeptConditions(j) \subseteq OpenIn(j)
         /\ IsFiniteSet(KeptConditions(j))
         /\ Cardinality(KeptConditions(j)) <= MaxActive
         /\ KeptConditions(j) # OpenIn(j) => Cardinality(KeptConditions(j)) = MaxActive
<1> DEFINE S == OpenIn(j)
           R == {p \in S \X S : \/ j.active[p[1]].observed > j.active[p[2]].observed
                                \/ j.active[p[1]].observed = j.active[p[2]].observed /\ p[1] < p[2]}
<1>1. S \subseteq Check /\ IsFiniteSet(S) /\ S \subseteq Nat
  BY Bounds, FS_Subset DEF OpenIn
<1>2. \A c \in S : j.active[c].observed \in Int
  BY Bounds DEF OpenIn, Row
<1>3. \A c, d \in S : <<c, d>> \in R <=>
          \/ j.active[c].observed > j.active[d].observed
          \/ j.active[c].observed = j.active[d].observed /\ c < d
  OBVIOUS
<1>4. Orders(R, S)
  BY <1>1, <1>2, <1>3 DEF Orders
<1>5. KeptConditions(j) = First(R, S, MaxActive)
  <2>1. \A d \in S : {c \in S : \/ j.active[c].observed > j.active[d].observed
                                \/ j.active[c].observed = j.active[d].observed /\ c < d}
                     = Predecessors(R, S, d)
    BY <1>3 DEF Predecessors
  <2>2. QED
    BY <2>1 DEF KeptConditions, FirstOf, First
<1> HIDE DEF R
<1>6. QED
  BY <1>1, <1>4, <1>5, FirstElements, Bounds

\* The coverage that _retain keeps: that of the open conditions, and as much of the recent
\* rest as the table holds.
LEMMA CoverageKept ==
  ASSUME NEW j, j.checks \in [Check -> {NoCheck} \cup Coverage], sample \in Nat,
         NEW open \in SUBSET CheckRows(j), Cardinality(open) <= MaxChecks
  PROVE  /\ open \subseteq KeptChecks(j, open) /\ KeptChecks(j, open) \subseteq CheckRows(j)
         /\ Cardinality(KeptChecks(j, open)) <= MaxChecks
         /\ \A c \in CheckRows(j) \ KeptChecks(j, open) :
                j.checks[c].seen >= sample => Cardinality(KeptChecks(j, open)) = MaxChecks
<1> DEFINE S == {c \in CheckRows(j) \ open : j.checks[c].seen >= sample - Retention}
           n == MaxChecks - Cardinality(open)
           R == {p \in S \X S : \/ j.checks[p[1]].seen > j.checks[p[2]].seen
                                \/ j.checks[p[1]].seen = j.checks[p[2]].seen /\ p[1] < p[2]}
<1>1. S \subseteq Check /\ IsFiniteSet(S) /\ S \subseteq Nat /\ IsFiniteSet(open)
  BY Bounds, FS_Subset DEF CheckRows
<1>2. \A c \in S : j.checks[c].seen \in Int
  BY DEF CheckRows, Coverage
<1>3. \A c, d \in S : <<c, d>> \in R <=>
          \/ j.checks[c].seen > j.checks[d].seen
          \/ j.checks[c].seen = j.checks[d].seen /\ c < d
  OBVIOUS
<1>4. Orders(R, S)
  <2> HIDE DEF R, S
  <2>1. \A c \in S : c \in Nat /\ j.checks[c].seen \in Int
    BY <1>1, <1>2
  <2>2. \A c \in S : <<c, c>> \notin R
    BY <1>3, <2>1
  <2>3. ASSUME NEW b \in S, NEW c \in S, NEW d \in S, <<b, c>> \in R, <<c, d>> \in R
        PROVE  <<b, d>> \in R
    BY <1>3, <2>1, <2>3
  <2>4. ASSUME NEW c \in S, NEW d \in S, c # d
        PROVE  <<c, d>> \in R \/ <<d, c>> \in R
    BY <1>3, <2>1, <2>4
  <2>5. QED
    BY <2>2, <2>3, <2>4 DEF Orders
<1>5. n \in Nat /\ Cardinality(open) \in Nat
  BY <1>1, FS_CardinalityType, Bounds
<1> DEFINE rest == First(R, S, n)
<1>6. KeptChecks(j, open) = open \cup rest
  <2>1. \A d \in S : {c \in S : \/ j.checks[c].seen > j.checks[d].seen
                                \/ j.checks[c].seen = j.checks[d].seen /\ c < d}
                     = Predecessors(R, S, d)
    BY <1>3 DEF Predecessors
  <2>2. QED
    BY <2>1 DEF KeptChecks, FirstOf, First
<1> HIDE DEF R, S
<1>7. /\ rest \subseteq S /\ IsFiniteSet(rest) /\ Cardinality(rest) <= n
      /\ rest # S => Cardinality(rest) = n
  BY <1>1, <1>4, <1>5, FirstElements
<1>8. Cardinality(open \cup rest) = Cardinality(open) + Cardinality(rest)
  <2>1. open \cap rest = {}
    BY <1>7 DEF S
  <2>2. Cardinality(open \cap rest) = 0
    BY <2>1, FS_EmptySet
  <2>3. Cardinality(rest) \in Nat
    BY <1>7, FS_CardinalityType
  <2>4. Cardinality(open \cup rest)
        = Cardinality(open) + Cardinality(rest) - Cardinality(open \cap rest)
    BY <1>1, <1>7, FS_Union
  <2>5. QED
    BY <1>5, <2>2, <2>3, <2>4
<1>9. Cardinality(rest) \in Nat
  BY <1>7, FS_CardinalityType
<1>10. ASSUME NEW c \in CheckRows(j) \ (open \cup rest), j.checks[c].seen >= sample
       PROVE  Cardinality(open \cup rest) = MaxChecks
  <2>1. j.checks[c].seen \in Int
    BY DEF CheckRows, Coverage
  <2>2. c \in S
    BY <1>10, <2>1, Bounds DEF S
  <2>3. QED
    BY <1>5, <1>7, <1>8, <1>9, <2>2, Bounds
<1>11. Cardinality(open \cup rest) <= MaxChecks
  BY <1>5, <1>7, <1>8, <1>9, Bounds
<1>12. open \cup rest \subseteq CheckRows(j)
  BY <1>7 DEF S
<1> HIDE DEF rest
<1>13. QED
  BY <1>6, <1>10, <1>11, <1>12

--------------------------------------------------------------------------------
(* One sample: what observe_projection writes before it retains. *)

ClaimRecord == [status : {"absent", "unknown", "observed"}, severity : Severity \cup {Clear},
                epoch : {None} \cup 0..(MaxClock + Skew)]

\* What counts as observed is fresh and no older than what the condition rests on.
LEMMA EvidenceIsFresh ==
  ASSUME TablesAgree(journal), sample \in 0..MaxClock, NEW claims \in Sample, NEW c \in Check
  PROVE  LET evidence == Evidence(claims)[c]
             prior == journal.active[c]
         IN  /\ evidence \in ClaimRecord
             /\ evidence.status # "absent" => claims[c] # Absent
             /\ evidence.status = "observed" =>
                    /\ evidence.epoch \in 0..(MaxClock + Skew)
                    /\ evidence.epoch <= sample + Skew /\ sample - evidence.epoch <= FreshOf[c]
                    /\ prior # NoRow => evidence.epoch >= prior.observed
<1> DEFINE claim == claims[c]
           judged == Judge(c, claim)
           prior == journal.active[c]
<1>1. claim \in ClaimRecord /\ (claim.status = "absent" <=> claim = Absent)
      /\ (claim.status = "observed" => claim.epoch \in 0..(MaxClock + Skew))
  BY Bounds DEF Sample, Claim, ClaimRecord, Absent, Unknown, None
<1>2. /\ judged \in ClaimRecord
      /\ claim = Absent => judged.status = "absent"
      /\ judged.status = "observed" =>
             /\ claim.status = "observed"
             /\ judged.epoch \in 0..(MaxClock + Skew)
             /\ judged.epoch <= sample + Skew /\ sample - judged.epoch <= FreshOf[c]
  <2>1. CASE claim.epoch > sample + Skew \/ (claim.epoch # None /\ sample - claim.epoch > FreshOf[c])
    <3>1. claim # Absent
      BY <2>1, Bounds DEF Absent, None
    <3>2. judged = [claim EXCEPT !.status = "unknown", !.severity = Clear]
      BY <2>1 DEF Judge
    <3>3. QED
      BY <1>1, <3>1, <3>2 DEF ClaimRecord
  <2>2. CASE ~(claim.epoch > sample + Skew \/ (claim.epoch # None /\ sample - claim.epoch > FreshOf[c]))
    <3>1. judged = claim
      BY <2>2 DEF Judge
    <3>2. claim.epoch \in Int
      BY <1>1, Bounds DEF ClaimRecord, None
    <3>3. QED
      BY <1>1, <2>2, <3>1, <3>2, Bounds DEF None
  <2>3. QED
    BY <2>1, <2>2
<1>3. prior \in {NoRow} \cup Row
  BY DEF TablesAgree
<1>4. Evidence(claims)[c] = Believed(prior, judged)
  BY DEF Evidence
<1>5. CASE judged.status = "observed" /\ Outdated(prior, judged)
  <2>1. Believed(prior, judged) = [judged EXCEPT !.status = "unknown"]
    BY <1>5 DEF Believed
  <2>2. QED
    BY <1>1, <1>2, <1>4, <1>5, <2>1 DEF ClaimRecord
<1>6. CASE ~(judged.status = "observed" /\ Outdated(prior, judged))
  <2>1. Believed(prior, judged) = judged
    BY <1>6 DEF Believed
  <2>2. judged.status = "observed" /\ prior # NoRow => judged.epoch >= prior.observed
    BY <1>2, <1>3, <1>6, Bounds DEF Outdated, Row
  <2>3. QED
    BY <1>1, <1>2, <1>4, <2>1, <2>2
<1>7. QED
  BY <1>5, <1>6

\* The conditions that one sample moves are few, and their events get new ids in order.
LEMMA EventsGetNewIds ==
  ASSUME TablesAgree(journal), sample \in 0..MaxClock, NEW claims \in Sample
  PROVE  LET moved == Moved(Evidence(claims))
         IN  /\ moved \subseteq Check /\ IsFiniteSet(moved)
             /\ Cardinality(moved) \in 0..MaxSample
             /\ \A c \in moved :
                    EventId(moved, c) \in (journal.lastId + 1)..(journal.lastId + Cardinality(moved))
             /\ \A c, d \in moved : c < d => EventId(moved, c) < EventId(moved, d)
<1> DEFINE moved == Moved(Evidence(claims))
           mentioned == {c \in Check : claims[c] # Absent}
           upTo(c) == {d \in moved : d <= c}
<1>1. moved \subseteq Check /\ IsFiniteSet(moved) /\ moved \subseteq Nat
  BY Bounds, FS_Subset DEF Moved, Counted
<1>2. moved \subseteq mentioned
  BY EvidenceIsFresh DEF Moved, Counted
<1>3. IsFiniteSet(mentioned) /\ Cardinality(mentioned) <= MaxSample
  BY Bounds, FS_Subset DEF Sample
<1>4. Cardinality(moved) \in 0..MaxSample
  BY <1>1, <1>2, <1>3, Bounds, FS_Subset, FS_CardinalityType
<1>5. ASSUME NEW c \in moved
      PROVE  /\ IsFiniteSet(upTo(c)) /\ Cardinality(upTo(c)) \in 1..Cardinality(moved)
             /\ EventId(moved, c) = journal.lastId + Cardinality(upTo(c))
  <2>1. c \in upTo(c) /\ upTo(c) \in SUBSET moved
    BY <1>1
  <2>2. IsFiniteSet(upTo(c)) /\ Cardinality(upTo(c)) <= Cardinality(moved)
    BY <1>1, <2>1, FS_Subset
  <2>3. Cardinality(upTo(c)) \in Nat /\ Cardinality(upTo(c)) # 0
    BY <2>1, <2>2, FS_CardinalityType, FS_EmptySet
  <2>4. EventId(moved, c) = journal.lastId + Cardinality(upTo(c))
    BY DEF EventId
  <2> HIDE DEF upTo
  <2>5. QED
    BY <1>4, <2>2, <2>3, <2>4
<1>6. ASSUME NEW c \in moved, NEW d \in moved, c < d
      PROVE  Cardinality(upTo(c)) < Cardinality(upTo(d))
  <2>1. d \notin upTo(c) /\ upTo(c) \cup {d} \in SUBSET upTo(d)
    BY <1>1, <1>6
  <2>2. Cardinality(upTo(c) \cup {d}) = Cardinality(upTo(c)) + 1
    BY <1>5, <2>1, FS_AddElement
  <2>3. Cardinality(upTo(c) \cup {d}) <= Cardinality(upTo(d))
    BY <1>5, <2>1, FS_Subset
  <2> HIDE DEF upTo
  <2>4. QED
    BY <1>4, <1>5, <2>2, <2>3
<1>7. journal.lastId \in Nat
  BY DEF TablesAgree
<1>8. ASSUME NEW c \in moved
      PROVE  EventId(moved, c) \in (journal.lastId + 1)..(journal.lastId + Cardinality(moved))
  <2> HIDE DEF upTo
  <2>1. QED
    BY <1>4, <1>5, <1>7
<1>9. ASSUME NEW c \in moved, NEW d \in moved, c < d
      PROVE  EventId(moved, c) < EventId(moved, d)
  <2> HIDE DEF upTo
  <2>1. QED
    BY <1>4, <1>5, <1>6, <1>7, <1>9
<1>10. QED
  BY <1>1, <1>4, <1>8, <1>9

\* The event of a moved condition, its new row, and why the others keep theirs.
RecordTells(prior, claim, c, id) ==
    LET transition == Transition(prior, claim.severity)
        row == Condition(prior, claim)
        e == Record(c, id, prior, claim)
    IN  /\ row \in {NoRow} \cup Row
        /\ row # NoRow => /\ row.started = IF prior = NoRow THEN sample ELSE prior.started
                          /\ row.observed = claim.epoch
        /\ transition = "same" => /\ row = NoRow <=> prior = NoRow
                                  /\ prior # NoRow => row.severity = prior.severity
        /\ transition # "same" =>
               /\ e.transition = transition /\ transition \in {"raised", "changed", "recovered"}
               /\ e.id = id /\ e.check = c /\ e.at = sample /\ e.severity \in Severity
               /\ transition = "raised" <=> prior = NoRow
               /\ transition = "recovered" <=> row = NoRow
               /\ transition = "changed" => e.severity # prior.severity
               /\ e.started = IF prior = NoRow THEN sample ELSE prior.started
               /\ row # NoRow => row.severity = e.severity /\ row.started = e.started

\* The record of one claim tells its condition: it opens, continues or ends for the claim's reason.
LEMMA RecordTellsCondition ==
  ASSUME NEW prior \in {NoRow} \cup Row, NEW claim \in ClaimRecord, claim.status = "observed",
         claim.epoch \in 0..(MaxClock + Skew), sample \in 0..MaxClock, NEW c \in Check, NEW id \in Nat
  PROVE  RecordTells(prior, claim, c, id)
<1> USE DEF RecordTells
<1>1. prior # NoRow => prior \in Row /\ prior.severity \in Severity
  BY DEF Row
<1>2. NoRow \notin Row /\ NoRow.severity = Clear /\ Clear \notin Severity
  BY DEF NoRow, Row, Severity, Clear
<1>3. CASE claim.severity = Clear
  <2>1. Condition(prior, claim) = NoRow
    BY <1>3 DEF Condition
  <2>2. Transition(prior, claim.severity) = IF prior = NoRow THEN "same" ELSE "recovered"
    BY <1>3 DEF Transition
  <2>3. prior # NoRow =>
            Record(c, id, prior, claim) =
                [id |-> id, check |-> c, transition |-> "recovered", severity |-> prior.severity,
                 started |-> prior.started, at |-> sample]
    BY <2>2 DEF Record
  <2>4. QED
    BY <1>1, <1>2, <2>1, <2>2, <2>3
<1>4. CASE claim.severity # Clear
  <2> DEFINE start == IF prior = NoRow THEN sample ELSE prior.started
             row == [severity |-> claim.severity, observed |-> claim.epoch, started |-> start]
  <2>1. Condition(prior, claim) = row
    BY <1>4 DEF Condition
  <2>2. start \in 0..MaxClock /\ row \in Row
    BY <1>1, <1>4 DEF Row, ClaimRecord
  <2>3. Transition(prior, claim.severity) =
            IF prior = NoRow THEN "raised"
            ELSE IF claim.severity = prior.severity THEN "same" ELSE "changed"
    BY <1>4 DEF Transition
  <2>4. Transition(prior, claim.severity) # "same" =>
            Record(c, id, prior, claim) =
                [id |-> id, check |-> c, transition |-> Transition(prior, claim.severity),
                 severity |-> claim.severity, started |-> start, at |-> sample]
    BY <2>1, <2>3 DEF Record
  <2>5. claim.severity \in Severity
    BY <1>4 DEF ClaimRecord
  <2>6. QED
    BY <1>1, <1>2, <2>1, <2>2, <2>3, <2>4, <2>5
<1>5. QED
  BY <1>3, <1>4

\* What a sample says of a check, put together.
SampleTells(claims, c) ==
    LET evidence == Evidence(claims)
        prior == journal.active[c]
        row == Observed(claims).active[c]
    IN  /\ evidence[c] \in ClaimRecord
        /\ row \in {NoRow} \cup Row
        /\ c \notin Counted(evidence) => row = prior
        /\ c \in Counted(evidence) =>
               /\ evidence[c].epoch \in 0..(MaxClock + Skew)
               /\ evidence[c].epoch <= sample + Skew
               /\ sample - evidence[c].epoch <= FreshOf[c]
               /\ prior # NoRow => evidence[c].epoch >= prior.observed
               /\ row # NoRow => row.observed = evidence[c].epoch
        /\ c \notin Moved(evidence) =>
               /\ row = NoRow <=> prior = NoRow
               /\ prior # NoRow => row.severity = prior.severity /\ row.started = prior.started

\* The event e of a moved condition.
EventTells(claims, c, e) ==
    LET evidence == Evidence(claims)
        prior == journal.active[c]
        row == Observed(claims).active[c]
    IN  /\ e.check = c /\ e.at = sample /\ e.severity \in Severity
        /\ e.id \in (journal.lastId + 1)..(journal.lastId + Cardinality(Moved(evidence)))
        /\ e.transition \in {"raised", "changed", "recovered"}
        /\ e.transition = "raised" <=> prior = NoRow
        /\ e.transition = "recovered" <=> row = NoRow
        /\ e.transition = "changed" => e.severity # prior.severity
        /\ e.started = IF prior = NoRow THEN sample ELSE prior.started
        /\ row # NoRow => row.severity = e.severity /\ row.started = e.started

NewEvent(claims, c) ==
    Record(c, EventId(Moved(Evidence(claims)), c), journal.active[c], Evidence(claims)[c])

\* A sample tells every check it covers, and an event tells every condition it moves.
LEMMA SampleTellsChecks ==
  ASSUME TablesAgree(journal), sample \in 0..MaxClock, NEW claims \in Sample, NEW c \in Check
  PROVE  /\ SampleTells(claims, c)
         /\ c \in Moved(Evidence(claims)) => EventTells(claims, c, NewEvent(claims, c))
<1> DEFINE evidence == Evidence(claims)
           moved == Moved(evidence)
           prior == journal.active[c]
           row == Observed(claims).active[c]
           id == EventId(moved, c)
<1>1. /\ evidence[c] \in ClaimRecord
      /\ evidence[c].status = "observed" =>
             /\ evidence[c].epoch \in 0..(MaxClock + Skew)
             /\ evidence[c].epoch <= sample + Skew /\ sample - evidence[c].epoch <= FreshOf[c]
             /\ prior # NoRow => evidence[c].epoch >= prior.observed
  BY EvidenceIsFresh
<1>2. prior \in {NoRow} \cup Row /\ journal.lastId \in Nat
  BY DEF TablesAgree
<1>3. c \in Counted(evidence) <=> evidence[c].status = "observed"
  BY DEF Counted
<1>4. row = IF c \in Counted(evidence) THEN Condition(prior, evidence[c]) ELSE prior
  BY DEF Observed
<1>5. c \in moved <=> c \in Counted(evidence) /\ Transition(prior, evidence[c].severity) # "same"
  BY DEF Moved
<1>6. CASE c \notin Counted(evidence)
  <2>1. row = prior /\ c \notin moved
    BY <1>4, <1>5, <1>6
  <2>2. QED
    BY <1>1, <1>2, <1>6, <2>1 DEF SampleTells
<1>7. CASE c \in Counted(evidence)
  <2>1. evidence[c].status = "observed" /\ row = Condition(prior, evidence[c])
    BY <1>3, <1>4, <1>7
  <2> DEFINE transition == Transition(prior, evidence[c].severity)
  <2>2. ASSUME NEW n \in Nat
        PROVE  RecordTells(prior, evidence[c], c, n)
    BY <1>1, <1>2, <2>1, RecordTellsCondition
  <2>3. SampleTells(claims, c)
    <3>1. transition = "same" <=> c \notin moved
      BY <1>5, <1>7
    <3> HIDE DEF transition
    <3>2. QED
      BY <1>1, <1>7, <2>1, <2>2, <3>1 DEF SampleTells, RecordTells, transition
  <2>4. ASSUME c \in moved
        PROVE  EventTells(claims, c, NewEvent(claims, c))
    <3>1. id \in (journal.lastId + 1)..(journal.lastId + Cardinality(moved))
          /\ Cardinality(moved) \in Nat
      BY <2>4, EventsGetNewIds
    <3>2. id \in Nat
      BY <1>2, <3>1
    <3>3. NewEvent(claims, c) = Record(c, id, prior, evidence[c])
      BY DEF NewEvent
    <3>4. transition # "same"
      BY <1>5, <2>4
    <3> HIDE DEF transition, id, evidence, moved
    <3> USE DEF evidence
    <3>5. QED
      BY <2>1, <2>2, <3>1, <3>2, <3>3, <3>4 DEF EventTells, RecordTells, moved, transition
  <2>5. QED
    BY <2>3, <2>4
<1>8. QED
  BY <1>6, <1>7

\* The events of one sample.
NewEvents(claims) == {NewEvent(claims, c) : c \in Moved(Evidence(claims))}

\* What a sample makes of each table.
LEMMA ObservedParts ==
  ASSUME NEW claims
  PROVE  /\ Observed(claims).observed = sample
         /\ Observed(claims).lastId = journal.lastId + Cardinality(Moved(Evidence(claims)))
         /\ Observed(claims).events = journal.events \cup NewEvents(claims)
         /\ Observed(claims).checks = [c \in Check |-> Covered(Evidence(claims), c)]
         /\ Observed(claims).truncated = journal.truncated
         /\ Observed(claims).active \in [Check -> {Observed(claims).active[c] : c \in Check}]
  BY DEF Observed, NewEvents, NewEvent

\* The new events have ids above all others, one per moved condition.
LEMMA ObservedEvents ==
  ASSUME EventsAreOrdered(journal), TablesAgree(journal), sample \in 0..MaxClock, InOrder,
         NEW claims \in Sample
  PROVE  /\ EventsAreOrdered(Observed(claims))
         /\ IsFiniteSet(NewEvents(claims)) /\ Cardinality(NewEvents(claims)) <= MaxSample
         /\ \A e \in journal.events : e.id <= journal.lastId
         /\ \A e \in NewEvents(claims) : e.id > journal.lastId
<1> DEFINE evidence == Evidence(claims)
           moved == Moved(evidence)
           new == NewEvents(claims)
           next == Observed(claims)
           n == Cardinality(moved)
<1>1. /\ moved \subseteq Check /\ IsFiniteSet(moved) /\ n \in 0..MaxSample
      /\ \A c, d \in moved : c < d => EventId(moved, c) < EventId(moved, d)
      /\ \A c \in moved : EventId(moved, c) \in (journal.lastId + 1)..(journal.lastId + n)
  BY EventsGetNewIds
<1>2. next.observed = sample /\ next.lastId = journal.lastId + n /\ next.events = journal.events \cup new
  BY ObservedParts
<1>3. journal.lastId \in Nat /\ journal.observed \in Int /\ sample \in Nat /\ sample >= journal.observed
  BY Bounds DEF TablesAgree, InOrder, None
<1>4. IsFiniteSet(new) /\ Cardinality(new) <= MaxSample
  <2> DEFINE image == [c \in moved |-> NewEvent(claims, c)]
  <2>1. new = {image[c] : c \in moved} /\ image \in [moved -> new]
    BY DEF NewEvents
  <2>2. image \in Surjection(moved, new)
    BY <2>1 DEF Surjection
  <2>3. IsFiniteSet(new) /\ Cardinality(new) <= Cardinality(moved)
    BY <1>1, <2>2, FS_Surjection
  <2>4. Cardinality(new) \in Nat
    BY <2>3, FS_CardinalityType
  <2>5. QED
    BY <1>1, <2>3, <2>4, Bounds
<1>5. ASSUME NEW e \in new
      PROVE  \E c \in moved : e = NewEvent(claims, c) /\ EventTells(claims, c, e)
  BY <1>1, SampleTellsChecks DEF NewEvents
<1>6. ASSUME NEW e \in new
      PROVE  /\ e.id \in 1..next.lastId /\ e.id > journal.lastId
             /\ e.check \in Check /\ e.severity \in Severity
             /\ e.transition \in {"raised", "changed", "recovered"}
             /\ e.at = sample
             /\ e.started \in Nat /\ e.started <= e.at
  <2>1. PICK c \in moved : EventTells(claims, c, e)
    BY <1>5
  <2>2. e.id \in (journal.lastId + 1)..(journal.lastId + n)
    BY <2>1 DEF EventTells
  <2>3. journal.active[c] # NoRow => /\ journal.active[c].started \in Nat
                                     /\ journal.active[c].started <= journal.observed
    <3>1. c \in Check /\ journal.active[c] \in {NoRow} \cup Row
      BY <1>1 DEF TablesAgree
    <3>2. journal.active[c] # NoRow => journal.active[c].started <= journal.observed
      BY <3>1 DEF TablesAgree
    <3>3. journal.active[c] # NoRow => journal.active[c].started \in 0..MaxClock
      BY <3>1 DEF Row
    <3>4. QED
      BY <3>2, <3>3, Bounds
  <2>4. e.started = IF journal.active[c] = NoRow THEN sample ELSE journal.active[c].started
    BY <2>1 DEF EventTells
  <2>5. e.started \in Nat /\ e.started <= sample
    BY <1>3, <2>3, <2>4
  <2>6. e.id \in 1..next.lastId /\ e.id > journal.lastId
    BY <1>1, <1>2, <1>3, <2>2
  <2>7. QED
    BY <1>1, <2>1, <2>5, <2>6 DEF EventTells
<1>7. ASSUME NEW e \in journal.events
      PROVE  /\ e.id \in 1..next.lastId /\ e.id <= journal.lastId
             /\ e.check \in Check /\ e.severity \in Severity
             /\ e.transition \in {"raised", "changed", "recovered"}
             /\ e.at \in Nat /\ e.at <= sample
             /\ e.started \in Nat /\ e.started <= e.at
  <2>1. /\ e.id \in 1..journal.lastId
        /\ e.check \in Check /\ e.severity \in Severity
        /\ e.transition \in {"raised", "changed", "recovered"}
        /\ e.at \in Nat /\ e.at <= journal.observed
        /\ e.started \in Nat /\ e.started <= e.at
    BY DEF EventsAreOrdered
  <2>2. e.id \in 1..next.lastId /\ e.id <= journal.lastId
    BY <1>1, <1>2, <1>3, <2>1
  <2>3. e.at <= sample
    BY <1>3, <2>1
  <2>4. QED
    BY <2>1, <2>2, <2>3
<1>8. ASSUME NEW e \in new, NEW f \in new, e.id = f.id
      PROVE  e = f
  <2>1. PICK c \in moved, d \in moved : e = NewEvent(claims, c) /\ f = NewEvent(claims, d)
    BY <1>5
  <2>2. e.id = EventId(moved, c) /\ f.id = EventId(moved, d)
    BY <2>1 DEF NewEvent, Record
  <2>3. EventId(moved, c) \in Nat /\ EventId(moved, d) \in Nat
    BY <1>1, <1>3
  <2>4. c = d
    <3>1. c \in Nat /\ d \in Nat
      BY <1>1, Bounds
    <3>2. c < d \/ d < c \/ c = d
      BY <3>1
    <3>3. EventId(moved, c) = EventId(moved, d)
      BY <1>8, <2>2
    <3> HIDE DEF moved
    <3>4. ~(c < d) /\ ~(d < c)
      BY <1>1, <2>3, <3>3
    <3>5. QED
      BY <3>2, <3>4
  <2>5. QED
    BY <2>1, <2>4
<1>9. EventsAreOrdered(next)
  <2>1. IsFiniteSet(next.events)
    <3>1. IsFiniteSet(journal.events)
      BY DEF EventsAreOrdered
    <3>2. IsFiniteSet(journal.events \cup new)
      BY <1>4, <3>1, FS_Union
    <3>3. QED
      BY <1>2, <3>2
  <2>2. ASSUME NEW e \in next.events
        PROVE  /\ e.id \in 1..next.lastId /\ e.check \in Check /\ e.severity \in Severity
               /\ e.transition \in {"raised", "changed", "recovered"}
               /\ e.at \in Nat /\ e.at <= next.observed
               /\ e.started \in Nat /\ e.started <= e.at
    BY <1>2, <1>3, <1>6, <1>7
  <2>3. ASSUME NEW e \in next.events, NEW f \in next.events
        PROVE  /\ e.id = f.id => e = f
               /\ e.id < f.id => e.at <= f.at
    <3>1. CASE e \in journal.events /\ f \in journal.events
      BY <3>1 DEF EventsAreOrdered
    <3>2. CASE e \in new /\ f \in new
      BY <1>3, <1>6, <1>8, <3>2
    <3>3. CASE e \in journal.events /\ f \in new
      BY <1>3, <1>6, <1>7, <3>3
    <3>4. CASE e \in new /\ f \in journal.events
      BY <1>3, <1>6, <1>7, <3>4
    <3>5. QED
      BY <1>2, <3>1, <3>2, <3>3, <3>4
  <2>4. QED
    BY <2>1, <2>2, <2>3 DEF EventsAreOrdered
<1>10. QED
  BY <1>4, <1>6, <1>7, <1>9

\* The coverage that a sample writes: what it calls observed is the evidence that counts.
LEMMA CoverageTells ==
  ASSUME TablesAgree(journal), sample \in 0..MaxClock, NEW claims \in Sample, NEW c \in Check
  PROVE  LET evidence == Evidence(claims)
             covered == Covered(evidence, c)
         IN  /\ covered \in {NoCheck} \cup Coverage
             /\ covered = NoCheck => journal.checks[c] = NoCheck /\ c \notin Counted(evidence)
             /\ covered.status = "observed" <=> c \in Counted(evidence)
             /\ c \in Counted(evidence) => covered.seen = sample /\ covered.epoch = evidence[c].epoch
<1> DEFINE evidence == Evidence(claims)
           claim == evidence[c]
           prior == journal.checks[c]
           covered == Covered(evidence, c)
<1>1. claim \in ClaimRecord /\ (claim.status = "observed" => claim.epoch # None)
  BY EvidenceIsFresh, Bounds DEF None
<1>2. prior \in {NoCheck} \cup Coverage
  BY DEF TablesAgree
<1>3. c \in Counted(evidence) <=> claim.status = "observed"
  BY DEF Counted
<1>4. /\ NoCheck.epoch = None /\ NoCheck.status \notin {"observed", "unknown", "unobserved"}
      /\ prior.epoch \in {None} \cup 0..(MaxClock + Skew)
  <2>1. NoCheck.epoch = None /\ NoCheck.status = "no row"
    BY DEF NoCheck
  <2>2. QED
    BY <1>2, <2>1 DEF Coverage
<1>5. CASE claim.status = "absent"
  <2>1. covered = IF prior = NoCheck THEN NoCheck ELSE [prior EXCEPT !.status = "unobserved"]
    BY <1>5 DEF Covered, Unmentioned
  <2>2. CASE prior = NoCheck
    BY <1>3, <1>4, <1>5, <2>1, <2>2
  <2>3. CASE prior # NoCheck
    <3>1. covered = [prior EXCEPT !.status = "unobserved"] /\ prior \in Coverage
      BY <1>2, <2>1, <2>3
    <3>2. covered \in Coverage /\ covered.status = "unobserved"
      BY <3>1 DEF Coverage
    <3>3. QED
      BY <1>3, <1>4, <1>5, <3>2
  <2>4. QED
    BY <2>2, <2>3
<1>6. CASE claim.status # "absent"
  <2>1. covered = [status |-> claim.status, seen |-> sample,
                   epoch |-> IF claim.epoch = None THEN prior.epoch ELSE claim.epoch]
    BY <1>6 DEF Covered
  <2>2. covered \in Coverage /\ covered.status = claim.status /\ covered.seen = sample
    BY <1>1, <1>4, <1>6, <2>1 DEF Coverage, ClaimRecord
  <2>3. claim.epoch # None => covered.epoch = claim.epoch
    BY <2>1
  <2>4. covered # NoCheck
    BY <1>1, <1>4, <1>6, <2>2 DEF ClaimRecord
  <2>5. QED
    BY <1>1, <1>3, <2>2, <2>3, <2>4
<1>7. QED
  BY <1>5, <1>6

\* After a sample, events, conditions and checks agree.
LEMMA ObservedTables ==
  ASSUME TablesAgree(journal), sample \in 0..MaxClock, InOrder, NEW claims \in Sample
  PROVE  TablesAgree(Observed(claims))
<1> DEFINE evidence == Evidence(claims)
           next == Observed(claims)
           n == Cardinality(Moved(evidence))
<1>1. /\ next.observed = sample /\ next.lastId = journal.lastId + n
      /\ next.truncated = journal.truncated
      /\ next.checks = [c \in Check |-> Covered(evidence, c)]
      /\ next.active \in [Check -> {next.active[c] : c \in Check}]
  BY ObservedParts
<1>2. n \in Nat
  BY EventsGetNewIds, Bounds
<1>3. next.observed \in 0..MaxClock \cup {None} /\ next.lastId \in Nat /\ next.truncated \in BOOLEAN
  BY <1>1, <1>2 DEF TablesAgree
<1>4. next.active \in [Check -> {NoRow} \cup Row]
  BY <1>1, SampleTellsChecks DEF SampleTells
<1>5. next.checks \in [Check -> {NoCheck} \cup Coverage]
  BY <1>1, CoverageTells
<1>6. ASSUME NEW c \in Check
      PROVE  /\ next.active[c] # NoRow => /\ next.active[c].started <= next.observed
                                          /\ next.checks[c] # NoCheck
             /\ next.checks[c].status = "observed" =>
                  /\ next.checks[c].seen = next.observed
                  /\ next.active[c] # NoRow => next.checks[c].epoch >= next.active[c].observed
  <2> DEFINE prior == journal.active[c]
             row == next.active[c]
             covered == next.checks[c]
  <2>1. SampleTells(claims, c) /\ (c \in Moved(evidence) => EventTells(claims, c, NewEvent(claims, c)))
    BY SampleTellsChecks
  <2>2. /\ covered = NoCheck => journal.checks[c] = NoCheck /\ c \notin Counted(evidence)
        /\ covered.status = "observed" <=> c \in Counted(evidence)
        /\ c \in Counted(evidence) => covered.seen = sample /\ covered.epoch = evidence[c].epoch
    BY <1>1, CoverageTells
  <2>3. prior # NoRow => /\ prior.started <= journal.observed /\ journal.checks[c] # NoCheck
                         /\ prior.started \in Nat
    <3>1. prior \in {NoRow} \cup Row
      BY DEF TablesAgree
    <3>2. prior # NoRow => prior.started <= journal.observed /\ journal.checks[c] # NoCheck
      BY DEF TablesAgree
    <3>3. prior # NoRow => prior.started \in 0..MaxClock
      BY <3>1 DEF Row
    <3>4. QED
      BY <3>2, <3>3, Bounds
  <2>4. journal.observed \in Int /\ sample \in Nat /\ sample >= journal.observed
    BY Bounds DEF TablesAgree, InOrder, None
  <2>5. ASSUME row # NoRow
        PROVE  row.started <= sample
    <3>1. CASE c \in Moved(evidence)
      <4>1. row.started = IF prior = NoRow THEN sample ELSE prior.started
        BY <2>1, <2>5, <3>1 DEF EventTells
      <4>2. QED
        BY <2>3, <2>4, <4>1
    <3>2. CASE c \notin Moved(evidence)
      <4>1. prior # NoRow /\ row.started = prior.started
        BY <2>1, <2>5, <3>2 DEF SampleTells
      <4>2. QED
        BY <2>3, <2>4, <4>1
    <3>3. QED
      BY <3>1, <3>2
  <2>6. ASSUME row # NoRow
        PROVE  covered # NoCheck
    BY <2>1, <2>2, <2>3, <2>6 DEF SampleTells
  <2>7. ASSUME covered.status = "observed"
        PROVE  /\ covered.seen = sample
               /\ row # NoRow => covered.epoch >= row.observed
    <3>1. c \in Counted(evidence) /\ covered.seen = sample /\ covered.epoch = evidence[c].epoch
      BY <2>2, <2>7
    <3>2. evidence[c].epoch \in 0..(MaxClock + Skew) /\ (row # NoRow => row.observed = evidence[c].epoch)
      BY <2>1, <3>1 DEF SampleTells
    <3>3. QED
      BY <3>1, <3>2, Bounds
  <2>8. QED
    BY <1>1, <2>5, <2>6, <2>7
<1>7. QED
  BY <1>3, <1>4, <1>5, <1>6 DEF TablesAgree

--------------------------------------------------------------------------------
(* Retention after the sample. *)

\* What k keeps of j: the newest events, and the tables but for what is over their caps.
Keeps(j, k) ==
    /\ k.observed = j.observed /\ k.lastId = j.lastId
    /\ k.events \subseteq j.events
    /\ \A e \in k.events, f \in j.events : Newer(f, e) => f \in k.events
    /\ j.truncated => k.truncated
    /\ \A c \in Check :
           /\ \/ k.active[c] = j.active[c]
              \/ k.active[c] = NoRow /\ k.truncated /\ Cardinality(OpenIn(k)) = MaxActive
           /\ k.checks[c] \in {j.checks[c], NoCheck}
           /\ j.checks[c] # NoCheck /\ j.checks[c].seen >= sample =>
                  \/ k.checks[c] = j.checks[c]
                  \/ k.checks[c] = NoCheck /\ Cardinality(CheckRows(k)) = MaxChecks

\* What the retention leaves of each table.
LEMMA RetainParts ==
  ASSUME NEW claims
  PROVE  LET j == Observed(claims)
             k == Retain(j)
             open == KeptConditions(j)
             covered == KeptChecks(j, open)
             events == FirstOf({e \in j.events : e.at >= sample - Retention}, MaxEvents, Newer)
         IN  /\ k.observed = j.observed /\ k.lastId = j.lastId
             /\ k.events = events
             /\ k.active = [c \in Check |-> IF c \in open THEN j.active[c] ELSE NoRow]
             /\ k.checks = [c \in Check |-> IF c \in covered THEN j.checks[c] ELSE NoCheck]
             /\ k.truncated = (j.truncated \/ events # j.events
                               \/ \E c \in Check \ open : j.active[c] # NoRow)
<1> DEFINE j == Observed(claims)
           events == FirstOf({e \in j.events : e.at >= sample - Retention}, MaxEvents, Newer)
           open == KeptConditions(j)
           covered == KeptChecks(j, open)
<1>1. j = [observed |-> j.observed, lastId |-> j.lastId, events |-> j.events,
           active |-> j.active, checks |-> j.checks, truncated |-> j.truncated]
  BY DEF Observed
<1>2. Retain(j) = [j EXCEPT
          !.events = events,
          !.active = [c \in Check |-> IF c \in open THEN @[c] ELSE NoRow],
          !.checks = [c \in Check |-> IF c \in covered THEN @[c] ELSE NoCheck],
          !.truncated = @ \/ events # j.events \/ \E c \in Check \ open : j.active[c] # NoRow]
  BY Zenon DEF Retain
<1> HIDE DEF j, events, open, covered
<1>3. QED
  BY <1>1, <1>2 DEF j, events, open, covered

\* The retention leaves an ordered history that agrees with the tables, within the caps.
LEMMA RetainKeeps ==
  ASSUME NEW claims, EventsAreOrdered(Observed(claims)), TablesAgree(Observed(claims)),
         sample \in 0..MaxClock
  PROVE  LET j == Observed(claims)
             k == Retain(j)
         IN  EventsAreOrdered(k) /\ TablesAgree(k) /\ WithinCaps(k) /\ Keeps(j, k)
<1> DEFINE j == Observed(claims)
           k == Retain(j)
           open == KeptConditions(j)
           covered == KeptChecks(j, open)
           recent == {e \in j.events : e.at >= sample - Retention}
           events == FirstOf(recent, MaxEvents, Newer)
<1>1. /\ k.observed = j.observed /\ k.lastId = j.lastId
      /\ k.events = events
      /\ k.active = [c \in Check |-> IF c \in open THEN j.active[c] ELSE NoRow]
      /\ k.checks = [c \in Check |-> IF c \in covered THEN j.checks[c] ELSE NoCheck]
      /\ k.truncated = (j.truncated \/ events # j.events
                        \/ \E c \in Check \ open : j.active[c] # NoRow)
  BY RetainParts
<1> HIDE DEF j, k
<1> USE DEF j
<1>2. j.events \in SUBSET j.events /\ IsFiniteSet(j.events)
      /\ \A e, f \in j.events : e.id = f.id => e = f
  BY DEF EventsAreOrdered
<1>3. \A e \in j.events : e.id \in Int /\ e.at \in Int
  BY DEF EventsAreOrdered
<1>4. /\ events \subseteq j.events /\ IsFiniteSet(events) /\ Cardinality(events) <= MaxEvents
      /\ \A e \in events, f \in j.events : Newer(f, e) => f \in events
  <2>1. IsFiniteSet(recent) /\ recent \subseteq j.events
    BY <1>2, FS_Subset
  <2>2. /\ events \subseteq recent /\ IsFiniteSet(events) /\ Cardinality(events) <= MaxEvents
        /\ \A e \in events, f \in recent : Newer(f, e) => f \in events
    BY <1>2, <1>3, <2>1, NewestEvents, Bounds
  <2>3. ASSUME NEW e \in events, NEW f \in j.events, Newer(f, e)
        PROVE  f \in events
    <3>1. e \in recent /\ e \in j.events
      BY <2>1, <2>2
    <3>2. f.at >= e.at
      <4>1. e.at \in Int /\ f.at \in Int
        BY <1>3, <3>1
      <4>2. f.at > e.at \/ f.at = e.at
        BY <2>3 DEF Newer
      <4>3. QED
        BY <4>1, <4>2
    <3>3. f \in recent
      BY <1>3, <3>1, <3>2, Bounds
    <3>4. QED
      BY <2>2, <2>3, <3>3
  <2>4. QED
    BY <2>1, <2>2, <2>3
<1> HIDE DEF events, recent
<1>5. EventsAreOrdered(k)
  <2>1. k.events \subseteq j.events /\ IsFiniteSet(k.events)
    BY <1>1, <1>4
  <2>2. QED
    BY <1>1, <2>1 DEF EventsAreOrdered
<1>6. /\ j.active \in [Check -> {NoRow} \cup Row] /\ j.checks \in [Check -> {NoCheck} \cup Coverage]
      /\ j.observed \in 0..MaxClock \cup {None} /\ j.lastId \in Nat /\ j.truncated \in BOOLEAN
      /\ \A c \in Check :
           /\ j.active[c] # NoRow => /\ j.active[c].started <= j.observed
                                     /\ j.checks[c] # NoCheck
           /\ j.checks[c].status = "observed" =>
                  /\ j.checks[c].seen = j.observed
                  /\ j.active[c] # NoRow => j.checks[c].epoch >= j.active[c].observed
  BY Zenon DEF TablesAgree
<1>7. /\ open \subseteq OpenIn(j) /\ IsFiniteSet(open) /\ Cardinality(open) <= MaxActive
      /\ open # OpenIn(j) => Cardinality(open) = MaxActive
  BY <1>6, ConditionsKept
<1>8. open \subseteq CheckRows(j) /\ open \subseteq Check
  BY <1>6, <1>7 DEF OpenIn, CheckRows
<1>9. /\ open \subseteq covered /\ covered \subseteq CheckRows(j) /\ Cardinality(covered) <= MaxChecks
      /\ \A c \in CheckRows(j) \ covered : j.checks[c].seen >= sample => Cardinality(covered) = MaxChecks
  <2>1. Cardinality(open) <= MaxChecks /\ sample \in Nat
    BY <1>7, Bounds, FS_CardinalityType
  <2>2. QED
    BY <1>6, <1>8, <2>1, CoverageKept
<1> HIDE DEF open, covered
<1>10. OpenIn(k) = open /\ CheckRows(k) = covered
  BY <1>1, <1>7, <1>8, <1>9 DEF OpenIn, CheckRows
<1>11. WithinCaps(k)
  BY <1>1, <1>4, <1>7, <1>9, <1>10 DEF WithinCaps
<1>12. TablesAgree(k)
  <2>1. k.active \in [Check -> {NoRow} \cup Row] /\ k.checks \in [Check -> {NoCheck} \cup Coverage]
    BY <1>1, <1>6
  <2>2. k.truncated \in BOOLEAN
    BY <1>1, <1>6
  <2>3. ASSUME NEW c \in Check
        PROVE  /\ k.active[c] # NoRow => k.active[c] = j.active[c] /\ k.checks[c] = j.checks[c]
               /\ k.checks[c] \in {j.checks[c], NoCheck}
    BY <1>1, <1>9
  <2>4. NoCheck.status # "observed"
    BY DEF NoCheck
  <2>5. ASSUME NEW c \in Check
        PROVE  /\ k.active[c] # NoRow => /\ k.active[c].started <= k.observed
                                         /\ k.checks[c] # NoCheck
               /\ k.checks[c].status = "observed" =>
                      /\ k.checks[c].seen = k.observed
                      /\ k.active[c] # NoRow => k.checks[c].epoch >= k.active[c].observed
    BY <1>1, <1>6, <2>3, <2>4
  <2>6. QED
    BY <1>1, <1>6, <2>1, <2>2, <2>5 DEF TablesAgree
<1>13. Keeps(j, k)
  <2>1. j.truncated => k.truncated
    BY <1>1
  <2>2. ASSUME NEW c \in Check
        PROVE  \/ k.active[c] = j.active[c]
               \/ k.active[c] = NoRow /\ k.truncated /\ Cardinality(OpenIn(k)) = MaxActive
    <3>1. CASE c \in open \/ j.active[c] = NoRow
      BY <1>1, <3>1
    <3>2. CASE c \notin open /\ j.active[c] # NoRow
      <4>1. open # OpenIn(j)
        BY <3>2 DEF OpenIn
      <4>2. QED
        BY <1>1, <1>7, <1>10, <3>2, <4>1
    <3>3. QED
      BY <3>1, <3>2
  <2>3. ASSUME NEW c \in Check
        PROVE  /\ k.checks[c] \in {j.checks[c], NoCheck}
               /\ j.checks[c] # NoCheck /\ j.checks[c].seen >= sample =>
                      \/ k.checks[c] = j.checks[c]
                      \/ k.checks[c] = NoCheck /\ Cardinality(CheckRows(k)) = MaxChecks
    BY <1>1, <1>9, <1>10 DEF CheckRows
  <2> HIDE DEF j
  <2>4. k.events \subseteq j.events /\ \A e \in k.events, f \in j.events : Newer(f, e) => f \in k.events
    BY <1>1, <1>4
  <2>5. k.observed = j.observed /\ k.lastId = j.lastId
    BY <1>1
  <2>6. QED
    BY <2>1, <2>2, <2>3, <2>4, <2>5 DEF Keeps
<1>14. QED
  BY <1>5, <1>11, <1>12, <1>13 DEF k

\* The content after a sample that is applied; the sample's own events are all kept.
LEMMA AppliedSample ==
  ASSUME EventsAreOrdered(journal), TablesAgree(journal), sample \in 0..MaxClock, InOrder,
         NEW claims \in Sample
  PROVE  LET j == Observed(claims)
             k == Retain(j)
         IN  /\ EventsAreOrdered(k) /\ TablesAgree(k) /\ WithinCaps(k) /\ Keeps(j, k)
             /\ k.events \subseteq journal.events \cup NewEvents(claims)
             /\ NewEvents(claims) \subseteq k.events
             /\ \A e \in journal.events : e.id <= journal.lastId
             /\ \A e \in NewEvents(claims) : e.id > journal.lastId
<1> DEFINE j == Observed(claims)
           k == Retain(j)
           new == NewEvents(claims)
           recent == {e \in j.events : e.at >= sample - Retention}
<1>1. /\ EventsAreOrdered(j)
      /\ IsFiniteSet(new) /\ Cardinality(new) <= MaxSample
      /\ \A e \in journal.events : e.id <= journal.lastId
      /\ \A e \in new : e.id > journal.lastId
  BY ObservedEvents
<1>2. EventsAreOrdered(k) /\ TablesAgree(k) /\ WithinCaps(k) /\ Keeps(j, k)
  BY <1>1, ObservedTables, RetainKeeps
<1>3. j.events = journal.events \cup new /\ j.observed = sample
  BY ObservedParts
<1>4. \A e \in j.events : e.at \in Nat /\ e.at <= sample /\ e.id \in Int
  BY <1>1, <1>3 DEF EventsAreOrdered
<1>5. journal.lastId \in Nat
  BY DEF TablesAgree
<1>6. ASSUME NEW e \in new
      PROVE  e \in k.events
  <2>1. e \in j.events /\ e.at = sample
    <3>1. PICK c \in Moved(Evidence(claims)) : e = NewEvent(claims, c)
      BY DEF NewEvents
    <3>2. e.at = sample
      BY <3>1 DEF NewEvent, Record
    <3>3. QED
      BY <1>3, <3>2
  <2>2. e \in recent
    BY <1>4, <2>1, Bounds
  <2> DEFINE before == {f \in recent : Newer(f, e)}
  <2>3. before \subseteq new \ {e}
    <3> SUFFICES ASSUME NEW f \in before
                 PROVE  f \in new \ {e}
      OBVIOUS
    <3>1. f \in j.events /\ Newer(f, e)
      OBVIOUS
    <3>2. f.at \in Nat /\ f.at <= sample /\ f.id \in Int /\ e.at = sample /\ e.id \in Int /\ sample \in Nat
      BY <1>4, <2>1, <3>1, Bounds
    <3>3. f.id > e.id
      BY <3>1, <3>2 DEF Newer
    <3>4. f.id > journal.lastId
      BY <1>1, <1>5, <3>2, <3>3
    <3>5. f \notin journal.events
      BY <1>1, <1>5, <3>2, <3>4
    <3>6. QED
      BY <1>3, <3>1, <3>2, <3>3, <3>5
  <2>4. IsFiniteSet(new \ {e}) /\ Cardinality(new \ {e}) = Cardinality(new) - 1
    BY <1>1, FS_RemoveElement
  <2>5. IsFiniteSet(before) /\ Cardinality(before) <= Cardinality(new \ {e})
    BY <2>3, <2>4, FS_Subset
  <2>6. Cardinality(before) \in Nat /\ Cardinality(new) \in Nat
    BY <1>1, <2>5, FS_CardinalityType
  <2>7. Cardinality(before) < MaxEvents
    <3> HIDE DEF before, new
    <3>1. QED
      BY <1>1, <2>4, <2>5, <2>6, Bounds
  <2>8. k.events = FirstOf(recent, MaxEvents, Newer)
    BY RetainParts
  <2> HIDE DEF recent
  <2>9. e \in FirstOf(recent, MaxEvents, Newer)
    BY <2>2, <2>7 DEF FirstOf
  <2>10. QED
    BY <2>8, <2>9
<1>7. k.events \subseteq j.events
  BY <1>2 DEF Keeps
<1>8. QED
  BY <1>1, <1>2, <1>3, <1>6, <1>7

\* A commit tells each moved condition's transition, and no other.
LEMMA CommitTells ==
  ASSUME EventsAreOrdered(journal), TablesAgree(journal), sample \in 0..MaxClock, InOrder,
         NEW claims \in Sample, Commit(claims)
  PROVE  /\ journal' = Retain(Observed(claims))
         /\ told' = [c \in Check |-> IF c \in Moved(Evidence(claims))
                                     THEN NewEvent(claims, c).transition ELSE told[c]]
<1> DEFINE moved == Moved(Evidence(claims))
           of(c) == {e \in journal'.events : e.id > journal.lastId /\ e.check = c}
<1>1. journal' = Retain(Observed(claims))
  BY DEF Commit
<1>2. /\ journal'.events \subseteq journal.events \cup NewEvents(claims)
      /\ NewEvents(claims) \subseteq journal'.events
      /\ \A e \in journal.events : e.id <= journal.lastId
      /\ \A e \in NewEvents(claims) : e.id > journal.lastId
  BY <1>1, AppliedSample
<1>3. \A e \in journal.events : e.id \in Nat
  BY DEF EventsAreOrdered
<1>4. journal.lastId \in Nat
  BY DEF TablesAgree
<1>5. \A e \in journal'.events : e.id > journal.lastId <=> e \in NewEvents(claims)
  BY <1>2, <1>3, <1>4
<1>6. \A c \in moved : NewEvent(claims, c) \in NewEvents(claims) /\ NewEvent(claims, c).check = c
  BY DEF NewEvents, NewEvent, Record
<1>7. \A e \in NewEvents(claims) : \E c \in moved : e = NewEvent(claims, c)
  BY DEF NewEvents
<1>8. ASSUME NEW c \in Check
      PROVE  of(c) = IF c \in moved THEN {NewEvent(claims, c)} ELSE {}
  BY <1>2, <1>5, <1>6, <1>7
<1>9. told' = [c \in Check |-> IF of(c) = {} THEN told[c] ELSE (CHOOSE e \in of(c) : TRUE).transition]
  BY DEF Commit
<1>10. ASSUME NEW c \in Check
       PROVE  (IF of(c) = {} THEN told[c] ELSE (CHOOSE e \in of(c) : TRUE).transition)
              = IF c \in moved THEN NewEvent(claims, c).transition ELSE told[c]
  <2>1. CASE c \in moved
    <3>1. of(c) = {NewEvent(claims, c)}
      BY <1>8, <2>1
    <3> HIDE DEF of, moved
    <3>2. (CHOOSE e \in of(c) : TRUE) = NewEvent(claims, c)
      BY <3>1
    <3>3. of(c) # {}
      BY <3>1
    <3>4. QED
      BY <2>1, <3>2, <3>3
  <2>2. CASE c \notin moved
    BY <1>8, <2>2
  <2>3. QED
    BY <2>1, <2>2
<1> HIDE DEF of, moved
<1>11. QED
  BY <1>1, <1>9, <1>10 DEF moved

--------------------------------------------------------------------------------
(* The invariant. *)

\* The last event that is kept of a check still tells its condition.
LEMMA LastEventsFollow ==
  ASSUME EventsAreOrdered(journal), TablesAgree(journal), sample \in 0..MaxClock, InOrder,
         LastEventTells(journal, told), NEW claims \in Sample, Commit(claims)
  PROVE  LastEventTells(journal', told')
<1> DEFINE moved == Moved(Evidence(claims))
           new == NewEvents(claims)
           next == Observed(claims)
<1>1. /\ journal' = Retain(next)
      /\ told' = [c \in Check |-> IF c \in moved THEN NewEvent(claims, c).transition ELSE told[c]]
  BY CommitTells
<1>2. /\ Keeps(next, journal')
      /\ journal'.events \subseteq journal.events \cup new
      /\ new \subseteq journal'.events
      /\ \A e \in journal.events : e.id <= journal.lastId
      /\ \A e \in new : e.id > journal.lastId
  BY <1>1, AppliedSample
<1>3. /\ journal.lastId \in Nat
      /\ \A e \in journal.events : e.id \in Nat /\ e.at \in Nat /\ e.check \in Check
      /\ \A e, f \in journal.events : e.id < f.id => e.at <= f.at
  BY DEF EventsAreOrdered, TablesAgree
<1>4. ASSUME NEW c \in moved
      PROVE  /\ c \in Check /\ NewEvent(claims, c) \in new /\ NewEvent(claims, c).check = c
             /\ NewEvent(claims, c).id \in Nat
  <2>1. c \in Check
    BY EventsGetNewIds
  <2>2. EventId(moved, c) \in (journal.lastId + 1)..(journal.lastId + Cardinality(moved))
        /\ Cardinality(moved) \in 0..MaxSample
    BY EventsGetNewIds
  <2>3. EventId(moved, c) \in Nat
    BY <1>3, <2>2, Bounds
  <2>4. QED
    BY <2>1, <2>3 DEF NewEvents, NewEvent, Record
<1>5. \A e \in new : e.check \in moved /\ e = NewEvent(claims, e.check)
  BY <1>4 DEF NewEvents
<1> SUFFICES ASSUME NEW e \in journal'.events, LastOf(journal', e)
             PROVE  /\ told'[e.check] = e.transition
                    /\ journal'.active[e.check] # NoRow =>
                           /\ journal'.active[e.check].severity = e.severity
                           /\ journal'.active[e.check].started = e.started
  BY DEF LastEventTells
<1> DEFINE c == e.check
           row == next.active[c]
<1>6. c \in Check
  BY <1>2, <1>3, <1>4, <1>5
<1>7. journal'.active[c] # NoRow => journal'.active[c] = row /\ row # NoRow
  BY <1>2, <1>6 DEF Keeps
<1>8. SampleTells(claims, c) /\ (c \in moved => EventTells(claims, c, NewEvent(claims, c)))
  BY <1>6, SampleTellsChecks
<1>9. CASE c \in moved
  <2>1. NewEvent(claims, c).id <= e.id
    BY <1>2, <1>4, <1>9 DEF LastOf
  <2>2. e \in new
    BY <1>2, <1>3, <1>4, <1>9, <2>1
  <2>3. e = NewEvent(claims, c)
    BY <1>5, <2>2
  <2>4. row # NoRow => row.severity = e.severity /\ row.started = e.started
    BY <1>8, <1>9, <2>3 DEF EventTells
  <2>5. told'[c] = e.transition
    BY <1>1, <1>6, <1>9, <2>3
  <2>6. QED
    BY <1>7, <2>4, <2>5
<1>10. CASE c \notin moved
  <2>1. e \in journal.events
    BY <1>2, <1>5, <1>10
  <2>2. LastOf(journal, e)
    <3> SUFFICES ASSUME NEW f \in journal.events, f.check = c, f.id > e.id
                 PROVE  FALSE
      BY <1>3, <2>1 DEF LastOf
    <3>1. Newer(f, e)
      BY <1>3, <2>1 DEF Newer
    <3>2. f \in next.events
      BY ObservedParts
    <3>3. f \in journal'.events
      BY <1>2, <3>1, <3>2 DEF Keeps
    <3>4. f.id <= e.id
      BY <3>3 DEF LastOf
    <3>5. QED
      BY <1>3, <2>1, <3>4
  <2>3. /\ told[c] = e.transition
        /\ journal.active[c] # NoRow => /\ journal.active[c].severity = e.severity
                                        /\ journal.active[c].started = e.started
    BY <2>1, <2>2 DEF LastEventTells
  <2>4. told'[c] = e.transition
    BY <1>1, <1>6, <1>10, <2>3
  <2>5. row # NoRow => row.severity = e.severity /\ row.started = e.started
    BY <1>8, <1>10, <2>3 DEF SampleTells
  <2>6. QED
    BY <1>7, <2>4, <2>5
<1>11. QED
  BY <1>9, <1>10

\* The last transitions and the silent drops still account for what is open.
LEMMA HistoryFollows ==
  ASSUME EventsAreOrdered(journal), TablesAgree(journal), sample \in 0..MaxClock, InOrder,
         History(journal, told, capped), NEW claims \in Sample, Commit(claims)
  PROVE  History(journal', told', capped')
<1> DEFINE moved == Moved(Evidence(claims))
           next == Observed(claims)
<1>1. /\ journal' = Retain(next)
      /\ told' = [c \in Check |-> IF c \in moved THEN NewEvent(claims, c).transition ELSE told[c]]
  BY CommitTells
<1>2. Keeps(next, journal')
  BY <1>1, AppliedSample
<1>3. capped' = {c \in Check : /\ journal'.active[c] = NoRow
                               /\ told'[c] \in Raised
                               /\ c \in capped \/ Cardinality(OpenIn(journal')) = MaxActive}
  BY DEF Commit, Raised
<1>4. journal.truncated => journal'.truncated
  BY <1>2, ObservedParts DEF Keeps
<1> SUFFICES ASSUME NEW c \in Check
             PROVE  /\ journal'.active[c] # NoRow <=> told'[c] \in Raised /\ c \notin capped'
                    /\ c \in capped' => journal'.truncated /\ told'[c] \in Raised
  BY DEF History
<1> DEFINE row == next.active[c]
<1>5. \/ journal'.active[c] = row
      \/ /\ journal'.active[c] = NoRow /\ journal'.truncated
         /\ Cardinality(OpenIn(journal')) = MaxActive
  BY <1>2 DEF Keeps
<1>6. /\ journal.active[c] # NoRow <=> told[c] \in Raised /\ c \notin capped
      /\ c \in capped => journal.truncated /\ told[c] \in Raised
  BY DEF History
<1>7. row # NoRow => told'[c] \in Raised
  <2>1. CASE c \in moved
    <3>1. EventTells(claims, c, NewEvent(claims, c)) /\ told'[c] = NewEvent(claims, c).transition
      BY <1>1, <2>1, SampleTellsChecks
    <3>2. QED
      BY <3>1 DEF EventTells, Raised
  <2>2. CASE c \notin moved
    BY <1>1, <1>6, <2>2, SampleTellsChecks DEF SampleTells
  <2>3. QED
    BY <2>1, <2>2
<1>8. row = NoRow /\ told'[c] \in Raised => c \in capped
  <2>1. CASE c \in moved
    <3>1. EventTells(claims, c, NewEvent(claims, c)) /\ told'[c] = NewEvent(claims, c).transition
      BY <1>1, <2>1, SampleTellsChecks
    <3>2. QED
      BY <3>1 DEF EventTells, Raised
  <2>2. CASE c \notin moved
    BY <1>1, <1>6, <2>2, SampleTellsChecks DEF SampleTells
  <2>3. QED
    BY <2>1, <2>2
<1>9. c \in capped' <=> /\ journal'.active[c] = NoRow
                        /\ told'[c] \in Raised
                        /\ c \in capped \/ Cardinality(OpenIn(journal')) = MaxActive
  BY <1>3
<1> HIDE DEF row
<1>10. QED
  BY <1>4, <1>5, <1>6, <1>7, <1>8, <1>9

\* A sample from before the latest one leaves everything as it was.
LEMMA IgnoredSample ==
  ASSUME EventsAreOrdered(journal), History(journal, told, capped), TablesAgree(journal),
         told \in [Check -> {"nothing", "raised", "changed", "recovered"}], capped \subseteq Check,
         ~InOrder, NEW claims, Commit(claims)
  PROVE  journal' = journal /\ told' = told /\ capped' = capped
<1> DEFINE of(c) == {e \in journal'.events : e.id > journal.lastId /\ e.check = c}
<1>1. journal' = journal
  BY DEF Commit
<1>2. \A c : of(c) = {}
  <2>1. \A e \in journal.events : e.id \in 1..journal.lastId
    BY DEF EventsAreOrdered
  <2>2. journal.lastId \in Nat
    BY DEF TablesAgree
  <2>3. QED
    BY <1>1, <2>1, <2>2
<1>3. told' = [c \in Check |-> IF of(c) = {} THEN told[c] ELSE (CHOOSE e \in of(c) : TRUE).transition]
  BY DEF Commit
<1> HIDE DEF of
<1>4. told' = told
  BY <1>2, <1>3
<1>5. capped' = {c \in Check : /\ journal.active[c] = NoRow
                               /\ told[c] \in Raised
                               /\ c \in capped \/ Cardinality(OpenIn(journal)) = MaxActive}
  BY <1>1, <1>4 DEF Commit, Raised
<1>6. \A c \in Check : /\ journal.active[c] # NoRow <=> told[c] \in Raised /\ c \notin capped
                       /\ c \in capped => told[c] \in Raised
  BY DEF History
<1>7. capped' = capped
  BY <1>5, <1>6
<1>8. QED
  BY <1>1, <1>4, <1>7

\* A commit, observation and retention together, keeps the invariant.
LEMMA CommitKeepsIInv ==
  ASSUME IInv, NEW claims \in Sample, Commit(claims)
  PROVE  IInv'
<1>1. /\ Surroundings /\ EventsAreOrdered(journal) /\ TablesAgree(journal) /\ WithinCaps(journal)
      /\ LastEventTells(journal, told) /\ History(journal, told, capped) /\ ReaderIsCurrent
  BY DEF IInv
<1>2. sample \in 0..MaxClock /\ sample' = None /\ ~Reading /\ reader' = reader
      /\ clock' = clock /\ hot' = hot /\ samples' = samples /\ steps' = steps
  BY <1>1 DEF Commit, Surroundings, NoSharedLock, bounds
<1>3. ReaderIsCurrent'
  BY <1>2 DEF ReaderIsCurrent, Reading
<1>4. capped' \subseteq Check
  BY DEF Commit
<1>5. CASE InOrder
  <2>1. /\ journal' = Retain(Observed(claims))
        /\ told' = [c \in Check |-> IF c \in Moved(Evidence(claims))
                                    THEN NewEvent(claims, c).transition ELSE told[c]]
    BY <1>1, <1>2, <1>5, CommitTells
  <2>2. EventsAreOrdered(journal') /\ TablesAgree(journal') /\ WithinCaps(journal')
    BY <1>1, <1>2, <1>5, <2>1, AppliedSample
  <2>3. LastEventTells(journal', told')
    BY <1>1, <1>2, <1>5, LastEventsFollow
  <2>4. History(journal', told', capped')
    BY <1>1, <1>2, <1>5, HistoryFollows
  <2>5. told' \in [Check -> {"nothing", "raised", "changed", "recovered"}]
    <3>1. \A c \in Moved(Evidence(claims)) :
              c \in Check /\ NewEvent(claims, c).transition \in {"raised", "changed", "recovered"}
      BY <1>1, <1>2, EventsGetNewIds, SampleTellsChecks DEF EventTells
    <3>2. QED
      BY <1>1, <2>1, <3>1 DEF Surroundings
  <2>6. Surroundings'
    BY <1>1, <1>2, <1>4, <2>5 DEF Surroundings
  <2>7. QED
    BY <1>3, <2>2, <2>3, <2>4, <2>6 DEF IInv, EventsAreOrdered, TablesAgree, WithinCaps,
       LastEventTells, History, OpenIn, CheckRows, LastOf
<1>6. CASE ~InOrder
  <2>1. journal' = journal /\ told' = told /\ capped' = capped
    BY <1>1, <1>6, IgnoredSample DEF Surroundings
  <2>2. Surroundings'
    BY <1>1, <1>2, <2>1 DEF Surroundings
  <2>3. QED
    BY <1>1, <1>3, <2>1, <2>2 DEF IInv, EventsAreOrdered, TablesAgree, WithinCaps,
       LastEventTells, History, OpenIn, CheckRows, LastOf
<1>7. QED
  BY <1>5, <1>6

\* Initially; and in any other step the journal and what was told of it stay as they were.
LEMMA InitIsConsistent == Init => IInv
<1> SUFFICES ASSUME Init
             PROVE  IInv
  OBVIOUS
<1>1. /\ journal.observed = None /\ journal.lastId = 0 /\ journal.events = {}
      /\ journal.active = [c \in Check |-> NoRow] /\ journal.checks = [c \in Check |-> NoCheck]
      /\ journal.truncated = FALSE
  BY DEF Init, Empty
<1>2. EventsAreOrdered(journal) /\ LastEventTells(journal, told)
  BY <1>1, FS_EmptySet DEF EventsAreOrdered, LastEventTells
<1>3. TablesAgree(journal)
  <2>1. NoCheck.status = "no row"
    BY DEF NoCheck
  <2>2. journal.truncated \in BOOLEAN
    BY <1>1
  <2>3. /\ journal.active \in [Check -> {NoRow} \cup Row]
        /\ journal.checks \in [Check -> {NoCheck} \cup Coverage]
    BY <1>1
  <2>4. \A c \in Check : journal.active[c] = NoRow /\ journal.checks[c] = NoCheck
    BY <1>1
  <2>5. journal.observed \in 0..MaxClock \cup {None} /\ journal.lastId \in Nat
    BY <1>1
  <2>6. QED
    BY <2>1, <2>2, <2>3, <2>4, <2>5 DEF TablesAgree
<1>4. WithinCaps(journal)
  <2>1. OpenIn(journal) = {} /\ CheckRows(journal) = {}
    BY <1>1 DEF OpenIn, CheckRows
  <2>2. QED
    BY <1>1, <2>1, FS_EmptySet, Bounds DEF WithinCaps
<1>5. History(journal, told, capped)
  BY <1>1 DEF History, Init, Raised
<1>6. Surroundings /\ ReaderIsCurrent
  <2>1. clock \in 0..MaxClock /\ samples \in 0..MaxSamples /\ steps \in 0..MaxSteps
    BY Bounds DEF Init
  <2>2. hot \in BOOLEAN /\ sample = None /\ capped = {} /\ ~Reading
    BY DEF Init, Reading
  <2>3. told \in [Check -> {"nothing", "raised", "changed", "recovered"}]
    BY DEF Init
  <2>4. QED
    BY <2>1, <2>2, <2>3 DEF Surroundings, ReaderIsCurrent
<1>7. QED
  BY <1>2, <1>3, <1>4, <1>5, <1>6 DEF IInv

\* Every step keeps it: one case per action.
LEMMA StepKeepsIInv == IInv /\ [Next]_vars => IInv'
<1> SUFFICES ASSUME IInv, [Next]_vars
             PROVE  IInv'
  OBVIOUS
<1>1. /\ Surroundings /\ EventsAreOrdered(journal) /\ TablesAgree(journal) /\ WithinCaps(journal)
      /\ LastEventTells(journal, told) /\ History(journal, told, capped) /\ ReaderIsCurrent
  BY DEF IInv
<1>2. ASSUME journal' = journal, told' = told, capped' = capped, Surroundings', ReaderIsCurrent'
      PROVE  IInv'
  BY <1>1, <1>2 DEF IInv, EventsAreOrdered, TablesAgree, WithinCaps, LastEventTells, History,
     OpenIn, CheckRows, LastOf
<1>3. CASE Tick
  <2>1. Surroundings'
    BY <1>1, <1>3, Bounds DEF Tick, Surroundings, bounds
  <2>2. QED
    BY <1>1, <1>2, <1>3, <2>1 DEF Tick, ReaderIsCurrent, Reading
<1>4. CASE StepBack
  <2>1. Surroundings'
    BY <1>1, <1>4, Bounds DEF StepBack, Surroundings
  <2>2. QED
    BY <1>1, <1>2, <1>4, <2>1 DEF StepBack, ReaderIsCurrent, Reading
<1>5. CASE BeginWrite
  <2>1. Surroundings'
    <3>1. samples' \in 0..MaxSamples
      BY <1>1, <1>5, Bounds DEF BeginWrite, Surroundings
    <3>2. hot' \in BOOLEAN
      BY <1>5 DEF BeginWrite
    <3>3. QED
      BY <1>1, <1>5, <3>1, <3>2 DEF BeginWrite, Surroundings
  <2>2. QED
    BY <1>1, <1>2, <1>5, <2>1 DEF BeginWrite, ReaderIsCurrent, Reading
<1>6. CASE \E claims \in Sample : Commit(claims)
  BY <1>6, CommitKeepsIInv
<1>7. CASE WriteFails \/ Crash
  <2>1. Surroundings'
    BY <1>1, <1>7, Bounds DEF WriteFails, Crash, Rollback, Surroundings, bounds, NoSharedLock
  <2>2. QED
    BY <1>1, <1>2, <1>7, <2>1 DEF WriteFails, Crash, Rollback, ReaderIsCurrent, Reading
<1>8. CASE BeginQuery
  <2>1. Surroundings'
    BY <1>1, <1>8 DEF BeginQuery, Surroundings, bounds
  <2>2. ReaderIsCurrent'
    BY <1>1, <1>8, Bounds DEF BeginQuery, ReaderIsCurrent, Reading, Surroundings
  <2>3. QED
    BY <1>2, <1>8, <2>1, <2>2 DEF BeginQuery
<1>9. CASE EndQuery
  <2>1. Surroundings'
    BY <1>1, <1>9 DEF EndQuery, Surroundings, bounds
  <2>2. QED
    BY <1>1, <1>2, <1>9, <2>1 DEF EndQuery, ReaderIsCurrent, Reading
<1>10. CASE UNCHANGED vars
  <2>1. Surroundings'
    BY <1>1, <1>10 DEF vars, Surroundings
  <2>2. QED
    BY <1>1, <1>2, <1>10, <2>1 DEF vars, ReaderIsCurrent, Reading
<1>11. QED
  BY <1>3, <1>4, <1>5, <1>6, <1>7, <1>8, <1>9, <1>10 DEF Next

\* The journal keeps its invariant through samples in any order, failed writes, crashes,
\* readers and steps of the clock, for any number of checks (observe_projection, query).
THEOREM JournalInvariance == Spec => []IInv
  BY InitIsConsistent, StepKeepsIInv, PTL DEF Spec

\* Types and caps of the journal, in every reachable state: no sample, however many checks
\* move in it, leaves more events, conditions or rows than the caps allow.
THEOREM JournalTypes == Spec => []TypeOK
<1>1. IInv => TypeOK
  <2> SUFFICES ASSUME IInv
               PROVE  TypeOK
    OBVIOUS
  <2>1. Surroundings /\ EventsAreOrdered(journal) /\ TablesAgree(journal) /\ WithinCaps(journal)
    BY DEF IInv
  <2>2. \A e \in journal.events :
           /\ e.id \in 1..journal.lastId /\ e.check \in Check /\ e.severity \in Severity
           /\ e.transition \in {"raised", "changed", "recovered"}
           /\ e.started <= e.at
    BY <2>1 DEF EventsAreOrdered
  <2>3. QED
    BY <2>1, <2>2 DEF TypeOK, Surroundings, TablesAgree, WithinCaps, Row, Coverage
<1>2. QED
  BY <1>1, JournalInvariance, PTL

\* The history never contradicts the open conditions (observe_projection and _retain in one
\* transaction): a condition is open exactly while its last transition was a raise or a
\* change, unless the cap dropped it; and what is open is covered.
THEOREM HistoryIsConsistent == Spec => []HistoryMatchesConditions
<1>1. IInv => HistoryMatchesConditions
  <2> SUFFICES ASSUME IInv, NEW c \in Check
               PROVE  /\ Open(c) => journal.checks[c] # NoCheck
                      /\ Open(c) <=> told[c] \in {"raised", "changed"} /\ c \notin capped
                      /\ c \in capped => journal.truncated
    BY DEF HistoryMatchesConditions
  <2>1. /\ journal.active[c] # NoRow <=> told[c] \in Raised /\ c \notin capped
        /\ c \in capped => journal.truncated
    BY DEF IInv, History
  <2>2. journal.active[c] # NoRow => journal.checks[c] # NoCheck
    BY DEF IInv, TablesAgree
  <2>3. QED
    BY <2>1, <2>2 DEF Open, Raised
<1>2. QED
  BY <1>1, JournalInvariance, PTL

\* An answer of query() is one committed state: its events tell the conditions it lists,
\* though the reader, the sampler and the clock go on between its statements.
THEOREM AnswersAreConsistent == Spec => []AnswersAreSnapshots
<1>1. IInv => AnswersAreSnapshots
  <2> SUFFICES ASSUME IInv, Reading, reader.now >= journal.observed,
                      NEW e \in AnswerEvents,
                      \A f \in AnswerEvents : f.check = e.check => f.id <= e.id
               PROVE  IF e.transition = "recovered" THEN reader.active[e.check] = NoRow
                      ELSE \/ e.check \in capped
                           \/ /\ reader.active[e.check].severity = e.severity
                              /\ reader.active[e.check].started = e.started
    BY DEF AnswersAreSnapshots
  <2> DEFINE S == {f \in journal.events : reader.now - Retention <= f.at /\ f.at <= reader.now}
  <2>1. /\ EventsAreOrdered(journal) /\ LastEventTells(journal, told)
        /\ History(journal, told, capped) /\ journal.observed \in Int
        /\ reader.now \in Nat /\ reader.active = journal.active
    BY Bounds DEF IInv, ReaderIsCurrent, TablesAgree, None
  <2>2. /\ IsFiniteSet(journal.events)
        /\ \A f \in journal.events :
               f.id \in Int /\ f.at \in Int /\ f.at <= journal.observed /\ f.check \in Check
               /\ f.transition \in {"raised", "changed", "recovered"}
        /\ \A f, g \in journal.events : f.id = g.id => f = g
        /\ \A f, g \in journal.events : f.id < g.id => f.at <= g.at
    BY <2>1 DEF EventsAreOrdered
  <2>3. S \subseteq journal.events /\ IsFiniteSet(S)
    BY <2>2, FS_Subset
  <2>4. /\ AnswerEvents \subseteq S
        /\ \A f \in AnswerEvents, g \in S : Newer(g, f) => g \in AnswerEvents
    <3>1. AnswerEvents = FirstOf(S, Limit, Newer)
      BY DEF AnswerEvents
    <3> HIDE DEF S
    <3>2. QED
      BY <2>2, <2>3, <3>1, NewestEvents, Bounds
  <2>5. LastOf(journal, e)
    <3> SUFFICES ASSUME NEW f \in journal.events, f.check = e.check, f.id > e.id
                 PROVE  FALSE
      BY <2>2, <2>3, <2>4 DEF LastOf
    <3>1. e \in journal.events /\ reader.now - Retention <= e.at
      BY <2>4
    <3>2. f.at >= e.at /\ f.at <= journal.observed /\ f.at \in Int /\ e.at \in Int
          /\ e.id \in Int /\ f.id \in Int
      BY <2>2, <3>1
    <3>3. f \in S
      BY <2>1, <3>1, <3>2, Bounds
    <3>4. Newer(f, e)
      BY <3>2 DEF Newer
    <3>5. f \in AnswerEvents
      BY <2>4, <3>3, <3>4
    <3>6. QED
      BY <3>2, <3>5
  <2>6. /\ told[e.check] = e.transition
        /\ journal.active[e.check] # NoRow => /\ journal.active[e.check].severity = e.severity
                                              /\ journal.active[e.check].started = e.started
    BY <2>1, <2>3, <2>4, <2>5 DEF LastEventTells
  <2>7. journal.active[e.check] # NoRow <=> told[e.check] \in Raised /\ e.check \notin capped
    BY <2>1, <2>2, <2>3, <2>4 DEF History
  <2>8. e.transition \in {"raised", "changed", "recovered"}
    BY <2>2, <2>3, <2>4
  <2>9. QED
    BY <2>1, <2>6, <2>7, <2>8 DEF Raised
<1>2. QED
  BY <1>1, JournalInvariance, PTL

\* What an answer calls observed is fresh at the time of the answer, comes from the latest
\* sample, and is not older than the evidence of the open condition.
THEOREM ObservedIsFresh == Spec => []ObservedMeansNow
<1>1. IInv => ObservedMeansNow
  <2> SUFFICES ASSUME IInv, Reading, NEW c \in Check, AnswerStatus(c) = "observed"
               PROVE  /\ reader.checks[c].seen = journal.observed
                      /\ reader.now - reader.checks[c].epoch <= FreshOf[c]
                      /\ reader.active[c] # NoRow => reader.checks[c].epoch >= reader.active[c].observed
    BY DEF ObservedMeansNow
  <2> DEFINE row == journal.checks[c]
             age == reader.now - row.epoch
  <2>1. reader.now \in Nat /\ reader.active = journal.active /\ reader.checks = journal.checks
    BY DEF IInv, ReaderIsCurrent
  <2>2. row \in {NoCheck} \cup Coverage
    BY DEF IInv, TablesAgree
  <2>3. row.status = "observed" =>
            /\ row.seen = journal.observed
            /\ journal.active[c] # NoRow => row.epoch >= journal.active[c].observed
    BY DEF IInv, TablesAgree
  <2>4. AnswerStatus(c) = IF row = NoCheck THEN "unobserved"
                          ELSE IF row.status = "observed" /\ (age > FreshOf[c] \/ age < -Skew)
                               THEN "unknown" ELSE row.status
    BY <2>1 DEF AnswerStatus
  <2>5. row # NoCheck /\ row.status = "observed" /\ ~(age > FreshOf[c])
    BY <2>4
  <2>6. row \in Coverage /\ row.epoch \in Int /\ FreshOf[c] \in Nat
    BY <2>2, <2>5, Bounds DEF Coverage, None
  <2>7. age <= FreshOf[c]
    BY <2>1, <2>5, <2>6
  <2>8. QED
    BY <2>1, <2>3, <2>5, <2>7
<1>2. QED
  BY <1>1, JournalInvariance, PTL

\* Every occurrence is told once: of what a commit adds to the history, a raise starts a
\* condition that was not open, a change is of another severity, and both a change and a
\* recovery carry the start of the condition they continue.
THEOREM OccurrencesOnce == Spec => OccurrencesAreToldOnce
<1> DEFINE Once == \A e \in journal'.events \ journal.events :
           LET prior == journal.active[e.check]
           IN  /\ (e.transition = "raised") <=> (prior = NoRow)
               /\ e.transition = "changed" => e.severity # prior.severity
               /\ e.transition # "raised" => e.started = prior.started
<1>1. IInv /\ [Next]_vars => [Once]_vars
  <2> SUFFICES ASSUME IInv, Next, NEW e \in journal'.events \ journal.events
               PROVE  LET prior == journal.active[e.check]
                      IN  /\ (e.transition = "raised") <=> (prior = NoRow)
                          /\ e.transition = "changed" => e.severity # prior.severity
                          /\ e.transition # "raised" => e.started = prior.started
    OBVIOUS
  <2>1. journal' # journal
    OBVIOUS
  <2>2. PICK claims \in Sample : Commit(claims)
    BY <2>1 DEF Next, Tick, StepBack, BeginWrite, WriteFails, Crash, Rollback, BeginQuery, EndQuery
  <2>3. /\ EventsAreOrdered(journal) /\ TablesAgree(journal) /\ sample \in 0..MaxClock
        /\ InOrder /\ journal' = Retain(Observed(claims))
    BY <2>1, <2>2 DEF IInv, Surroundings, Commit
  <2>4. e \in NewEvents(claims)
    BY <2>3, AppliedSample
  <2>5. PICK c \in Moved(Evidence(claims)) : e = NewEvent(claims, c)
    BY <2>4 DEF NewEvents
  <2>6. EventTells(claims, c, e)
    BY <2>3, <2>5, EventsGetNewIds, SampleTellsChecks
  <2>7. QED
    BY <2>6 DEF EventTells
<1>2. QED
  BY <1>1, JournalInvariance, PTL DEF Spec, OccurrencesAreToldOnce

\* A missing, disabled, stale or failing source never ends or changes a condition: only fresh
\* evidence, not older than what the condition rests on, or a full table does.
THEOREM EndsForCause == Spec => ConditionsEndForCause
<1> DEFINE Cause == \A c \in Check : Open(c) =>
           LET prior == journal.active[c]
               row == journal'.checks[c]
               now == journal'.observed
           IN  \/ journal'.active[c] = prior
               \/ /\ row.status = "observed" /\ row.seen = now
                  /\ row.epoch >= prior.observed
                  /\ now - row.epoch <= FreshOf[c] /\ row.epoch - now <= Skew
               \/ row = NoCheck /\ Cardinality(CheckRows(journal')) = MaxChecks
               \/ Cardinality(OpenIn(journal')) = MaxActive
<1>1. IInv /\ [Next]_vars => [Cause]_vars
  <2> SUFFICES ASSUME IInv, Next, NEW c \in Check, Open(c),
                      journal'.active[c] # journal.active[c],
                      Cardinality(OpenIn(journal')) # MaxActive
               PROVE  LET row == journal'.checks[c]
                          now == journal'.observed
                      IN  \/ /\ row.status = "observed" /\ row.seen = now
                             /\ row.epoch >= journal.active[c].observed
                             /\ now - row.epoch <= FreshOf[c] /\ row.epoch - now <= Skew
                          \/ row = NoCheck /\ Cardinality(CheckRows(journal')) = MaxChecks
    OBVIOUS
  <2>1. journal' # journal
    OBVIOUS
  <2>2. PICK claims \in Sample : Commit(claims)
    BY <2>1 DEF Next, Tick, StepBack, BeginWrite, WriteFails, Crash, Rollback, BeginQuery, EndQuery
  <2> DEFINE j == Observed(claims)
             evidence == Evidence(claims)
  <2>3. /\ EventsAreOrdered(journal) /\ TablesAgree(journal) /\ sample \in 0..MaxClock
        /\ InOrder /\ journal' = Retain(j)
    BY <2>1, <2>2 DEF IInv, Surroundings, Commit
  <2>4. Keeps(j, journal')
    BY <2>3, AppliedSample
  <2>5. SampleTells(claims, c)
    BY <2>3, SampleTellsChecks
  <2>6. journal'.active[c] = j.active[c]
    BY <2>4 DEF Keeps
  <2>7. c \in Counted(evidence)
    BY <2>5, <2>6 DEF SampleTells
  <2>8. /\ evidence[c].epoch \in 0..(MaxClock + Skew)
        /\ evidence[c].epoch <= sample + Skew /\ sample - evidence[c].epoch <= FreshOf[c]
        /\ evidence[c].epoch >= journal.active[c].observed
    BY <2>5, <2>7 DEF SampleTells, Open
  <2>9. /\ j.checks[c] # NoCheck /\ j.checks[c].status = "observed"
        /\ j.checks[c].seen = sample /\ j.checks[c].epoch = evidence[c].epoch
    <3>1. j.checks[c] = Covered(evidence, c)
      <4>1. j.checks = [d \in Check |-> Covered(evidence, d)]
        BY ObservedParts
      <4>2. QED
        BY <4>1
    <3>2. /\ Covered(evidence, c) = NoCheck => c \notin Counted(evidence)
          /\ Covered(evidence, c).status = "observed" <=> c \in Counted(evidence)
          /\ c \in Counted(evidence) => /\ Covered(evidence, c).seen = sample
                                        /\ Covered(evidence, c).epoch = evidence[c].epoch
      BY <2>3, CoverageTells
    <3>3. QED
      BY <2>7, <3>1, <3>2
  <2>10. journal'.observed = sample
    BY <2>4, ObservedParts DEF Keeps
  <2>11. \/ journal'.checks[c] = j.checks[c]
         \/ journal'.checks[c] = NoCheck /\ Cardinality(CheckRows(journal')) = MaxChecks
    BY <2>3, <2>4, <2>9 DEF Keeps
  <2>12. evidence[c].epoch - sample <= Skew
    BY <2>3, <2>8, Bounds
  <2>13. QED
    BY <2>8, <2>9, <2>10, <2>11, <2>12
<1>2. QED
  BY <1>1, JournalInvariance, PTL DEF Spec, ConditionsEndForCause

================================================================================
