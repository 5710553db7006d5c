--------------------------- MODULE DiagnosticJournal ---------------------------
(***************************************************************************)
(* The diagnostic journal: one transaction per sample that turns what the  *)
(* sources claim into open conditions, coverage and a history of           *)
(* transitions (metrics/diagnostics.py, the staleness rules of             *)
(* core/diagnostics.py), and the readers that open the same SQLite file    *)
(* from the command thread and from other processes.                       *)
(*                                                                         *)
(* The file is in rollback-journal mode: a reader shares it with an open   *)
(* transaction but not with a commit, and one that finds the leavings of a *)
(* commit that died cannot open it before the writer has rolled it back.   *)
(***************************************************************************)
EXTENDS Integers, FiniteSets

CONSTANTS
    Check,         \* diagnostic ids, in the order of a sample and of the tables
    FreshOf,       \* [Check -> Nat]: how long its evidence stays usable
    Skew,          \* how far in the future evidence may lie
    Retention, MaxEvents, MaxActive, MaxChecks, \* what _retain keeps
    MaxSample,     \* checks that one sample can hold
    Limit,         \* events in an answer
    MaxClock, MaxSamples, MaxSteps \* bounds

ASSUME ConstantsAssumption ==
    /\ Check \subseteq Nat \ {0} /\ IsFiniteSet(Check)
    /\ FreshOf \in [Check -> Nat]
    /\ {Skew, Retention, MaxEvents, MaxActive, MaxChecks, MaxSample, Limit} \subseteq Nat
    /\ MaxActive + MaxSample <= MaxChecks /\ MaxSample <= MaxEvents
    /\ {MaxClock, MaxSamples, MaxSteps} \subseteq Nat

None == -1
Clear == "none"
Severity == {"warning", "critical"}

NoRow == [severity |-> Clear, observed |-> None, started |-> None]
NoCheck == [status |-> "no row", epoch |-> None, seen |-> None]

\* What a projection says of a check, if it says anything: that nothing is
\* known (the source is disabled, failing or still confirming), or what was
\* observed and when.
Absent == [status |-> "absent", severity |-> Clear, epoch |-> None]
Unknown == [status |-> "unknown", severity |-> Clear, epoch |-> None]
Claim ==
    {Absent, Unknown}
    \cup [status : {"observed"}, severity : Severity \cup {Clear}, epoch : 0..(MaxClock + Skew)]
Sample ==
    {claims \in [Check -> Claim] :
        Cardinality({c \in Check : claims[c] # Absent}) <= MaxSample}

VARIABLES
    clock,   \* the wall clock, which may step back
    sample,  \* the sampler's transaction: the time of its sample, or None
    journal, \* the committed content of the file
    hot,     \* a commit died: its rollback journal is still there
    reader,  \* a query between its reads of the conditions and of the events
    \* Observers and bounds.
    told,    \* [Check -> the last transition recorded of it, retained still or not]
    capped,  \* open conditions that the cap dropped without a transition
    samples, steps

bounds == <<samples, steps>>
vars == <<clock, sample, journal, hot, reader, told, capped, samples, steps>>

Empty ==
    [observed |-> None, \* metadata: the latest sample
     lastId |-> 0, events |-> {},
     active |-> [c \in Check |-> NoRow],
     checks |-> [c \in Check |-> NoCheck],
     truncated |-> FALSE]

NoReader == [now |-> None, active |-> Empty.active, checks |-> Empty.checks]

Init ==
    /\ clock = 0
    /\ sample = None
    /\ journal = Empty
    /\ hot = FALSE
    /\ reader = NoReader
    /\ told = [c \in Check |-> "nothing"]
    /\ capped = {}
    /\ samples = 0 /\ steps = 0

Tick ==
    /\ clock < MaxClock
    /\ clock' = clock + 1
    /\ UNCHANGED <<sample, journal, hot, reader, told, capped, bounds>>

StepBack ==
    /\ clock > 0
    /\ steps < MaxSteps
    /\ steps' = steps + 1
    /\ clock' = clock - 1
    /\ UNCHANGED <<sample, journal, hot, reader, told, capped, samples>>

--------------------------------------------------------------------------------
(* observe_projection. *)

\* _Checks.add: evidence from the future, or too old, says nothing.
Judge(c, claim) ==
    IF claim.epoch > sample + Skew \/ (claim.epoch # None /\ sample - claim.epoch > FreshOf[c])
    THEN [claim EXCEPT !.status = "unknown", !.severity = Clear]
    ELSE claim

\* Cached evidence older than what an open condition rests on says nothing.
AnyAge(prior, claim) == FALSE \* mutant: its age is not compared
Outdated(prior, claim) == prior # NoRow /\ claim.epoch < prior.observed

Believed(prior, claim) ==
    IF claim.status = "observed" /\ Outdated(prior, claim)
    THEN [claim EXCEPT !.status = "unknown"] ELSE claim

\* The transition that evidence makes of an open (or absent) condition.
EveryTime(prior, severity) == \* mutant: an unresolved condition is raised again
    IF severity # Clear THEN "raised" ELSE IF prior # NoRow THEN "recovered" ELSE "same"
Transition(prior, severity) ==
    CASE prior = NoRow /\ severity # Clear -> "raised"
      [] prior # NoRow /\ severity = Clear -> "recovered"
      [] prior # NoRow /\ severity \notin {Clear, prior.severity} -> "changed"
      [] OTHER -> "same"

Condition(prior, claim) ==
    IF claim.severity = Clear THEN NoRow
    ELSE [severity |-> claim.severity, observed |-> claim.epoch,
          started |-> IF prior = NoRow THEN sample ELSE prior.started]

\* A recovery is recorded with the condition that ended.
Record(c, id, prior, claim) ==
    LET transition == Transition(prior, claim.severity)
        row == IF transition = "recovered" THEN prior ELSE Condition(prior, claim)
    IN  [id |-> id, check |-> c, transition |-> transition, severity |-> row.severity,
         started |-> row.started, at |-> sample]

OpenIn(j) == {c \in Check : j.active[c] # NoRow}

\* The first n elements of a set, when Before orders it.
FirstOf(S, n, Before(_, _)) == {x \in S : Cardinality({y \in S : Before(y, x)}) < n}

Newer(e, f) == e.at > f.at \/ (e.at = f.at /\ e.id > f.id)

\* _retain: by age and by number; the conditions still open survive any age,
\* and so does their coverage.
DropOldConditions(j) == \* mutant: conditions age like events
    {c \in OpenIn(j) : j.active[c].observed >= sample - Retention}
KeptConditions(j) ==
    FirstOf(OpenIn(j), MaxActive,
            LAMBDA c, d : \/ j.active[c].observed > j.active[d].observed
                          \/ j.active[c].observed = j.active[d].observed /\ c < d)

CheckRows(j) == {c \in Check : j.checks[c] # NoCheck}
KeptChecks(j, open) ==
    open \cup FirstOf({c \in CheckRows(j) \ open : j.checks[c].seen >= sample - Retention},
                      MaxChecks - Cardinality(open),
                      LAMBDA c, d : \/ j.checks[c].seen > j.checks[d].seen
                                    \/ j.checks[c].seen = j.checks[d].seen /\ c < d)

Retain(j) ==
    LET events == FirstOf({e \in j.events : e.at >= sample - Retention}, MaxEvents, Newer)
        open == KeptConditions(j)
        covered == KeptChecks(j, open)
    IN  [j EXCEPT !.events = events,
                  !.active = [c \in Check |-> IF c \in open THEN @[c] ELSE NoRow],
                  !.checks = [c \in Check |-> IF c \in covered THEN @[c] ELSE NoCheck],
                  !.truncated = @ \/ events # j.events \/ \E c \in Check \ open : j.active[c] # NoRow]

\* A check that the sample does not mention.
StillObserved(row) == row \* mutant: the last status is kept
Unmentioned(row) == IF row = NoCheck THEN NoCheck ELSE [row EXCEPT !.status = "unobserved"]

\* What a sample establishes of each check, and the conditions it raises, changes or ends.
Evidence(claims) == [c \in Check |-> Believed(journal.active[c], Judge(c, claims[c]))]
Counted(evidence) == {c \in Check : evidence[c].status = "observed"}
Moved(evidence) ==
    {c \in Counted(evidence) : Transition(journal.active[c], evidence[c].severity) # "same"}
EventId(moved, c) == journal.lastId + Cardinality({d \in moved : d <= c})

Covered(evidence, c) ==
    IF evidence[c].status = "absent" THEN Unmentioned(journal.checks[c])
    ELSE [status |-> evidence[c].status, seen |-> sample,
          epoch |-> IF evidence[c].epoch = None THEN journal.checks[c].epoch ELSE evidence[c].epoch]

\* The content after one sample.
Observed(claims) ==
    LET evidence == Evidence(claims)
        moved == Moved(evidence)
    IN  [observed |-> sample,
         lastId |-> journal.lastId + Cardinality(moved),
         events |-> journal.events \cup
             {Record(c, EventId(moved, c), journal.active[c], evidence[c]) : c \in moved},
         active |-> [c \in Check |-> IF c \in Counted(evidence)
                                     THEN Condition(journal.active[c], evidence[c])
                                     ELSE journal.active[c]],
         checks |-> [c \in Check |-> Covered(evidence, c)],
         truncated |-> journal.truncated]

\* BEGIN IMMEDIATE.  The writer rolls back what a dead commit has left.
BeginWrite ==
    /\ sample = None
    /\ samples < MaxSamples
    /\ samples' = samples + 1
    /\ sample' = clock
    /\ hot' = FALSE
    /\ UNCHANGED <<clock, journal, reader, told, capped, steps>>

Reading == reader # NoReader

\* A commit waits for the readers.
ReadersDoNotShare == TRUE \* mutant: a commit does not wait for readers
NoSharedLock == ~Reading

\* A sample from before the latest one is ignored.
AnyOrder == TRUE \* mutant: an older sample is applied
InOrder == sample >= journal.observed

\* The transaction is committed as a whole.
Commit(claims) ==
    /\ sample # None
    /\ NoSharedLock
    /\ sample' = None
    /\ journal' = IF InOrder THEN Retain(Observed(claims)) ELSE journal
    /\ LET of(c) == {e \in journal'.events : e.id > journal.lastId /\ e.check = c}
       IN  told' = [c \in Check |-> IF of(c) = {} THEN told[c]
                                     ELSE (CHOOSE e \in of(c) : TRUE).transition]
    /\ capped' = {c \in Check : /\ journal'.active[c] = NoRow
                                /\ told'[c] \in {"raised", "changed"}
                                /\ c \in capped \/ Cardinality(OpenIn(journal')) = MaxActive}
    /\ UNCHANGED <<clock, hot, reader, bounds>>

Rollback ==
    /\ sample # None
    /\ sample' = None
    /\ UNCHANGED <<clock, journal, reader, told, capped, bounds>>

\* A storage error, or a reader that outlasts the busy timeout: the sample goes
\* on without the journal.
WriteFails == Rollback /\ UNCHANGED hot

\* The Agent dies before its commit or, without readers, within it.
Crash ==
    /\ hot' \in {FALSE, NoSharedLock}
    /\ Rollback

--------------------------------------------------------------------------------
(* query, in one read transaction. *)

BeginQuery ==
    /\ ~Reading
    /\ journal.observed # None
    /\ ~hot
    /\ reader' = [now |-> clock, active |-> journal.active, checks |-> journal.checks]
    /\ UNCHANGED <<clock, sample, journal, hot, told, capped, bounds>>

\* The answer is complete, or the reader fails or dies.
EndQuery ==
    /\ Reading
    /\ reader' = NoReader
    /\ UNCHANGED <<clock, sample, journal, hot, told, capped, bounds>>

\* Its events: those of the last thirty days, the newest first.
AnswerEvents ==
    FirstOf({e \in journal.events : reader.now - Retention <= e.at /\ e.at <= reader.now},
            Limit, Newer)

\* Evidence that is no longer fresh does not count as observed.
AnswerStatus(c) ==
    LET row == reader.checks[c]
        age == reader.now - row.epoch
    IN  IF row = NoCheck THEN "unobserved"
        ELSE IF row.status = "observed" /\ (age > FreshOf[c] \/ age < -Skew) THEN "unknown"
        ELSE row.status

Next ==
    \/ Tick \/ StepBack
    \/ BeginWrite
    \/ \E claims \in Sample : Commit(claims)
    \/ WriteFails \/ Crash
    \/ BeginQuery \/ EndQuery

Spec == Init /\ [][Next]_vars

--------------------------------------------------------------------------------
(* Properties. *)

\* The values of the journal (metrics/diagnostics.py), its tables within their caps.
TypeOK ==
    /\ clock \in 0..MaxClock
    /\ sample \in (0..MaxClock) \cup {None}
    /\ journal.observed \in (0..MaxClock) \cup {None} /\ journal.lastId \in Nat
    /\ \A e \in journal.events :
           /\ e.id \in 1..journal.lastId /\ e.check \in Check /\ e.severity \in Severity
           /\ e.transition \in {"raised", "changed", "recovered"}
           /\ e.started <= e.at
    /\ journal.active \in [Check -> {NoRow} \cup
           [severity : Severity, observed : 0..(MaxClock + Skew), started : 0..MaxClock]]
    /\ journal.checks \in [Check -> {NoCheck} \cup
           [status : {"observed", "unknown", "unobserved"},
            epoch : {None} \cup 0..(MaxClock + Skew), seen : 0..MaxClock]]
    /\ Cardinality(journal.events) <= MaxEvents
    /\ Cardinality(OpenIn(journal)) <= MaxActive
    /\ Cardinality(CheckRows(journal)) <= MaxChecks
    /\ journal.truncated \in BOOLEAN
    /\ hot \in BOOLEAN
    /\ told \in [Check -> {"nothing", "raised", "changed", "recovered"}]
    /\ capped \subseteq Check
    /\ samples \in 0..MaxSamples /\ steps \in 0..MaxSteps

Open(c) == journal.active[c] # NoRow

\* The history never contradicts the open conditions: through failed writes,
\* crashes, restarts and samples out of order, a condition is open exactly
\* while its last transition was a raise or a change.  Only the cap on open
\* conditions drops one silently, and the journal then says it is truncated.
\* An open condition is never without its coverage, however old it is.
HistoryMatchesConditions ==
    \A c \in Check :
        /\ Open(c) => journal.checks[c] # NoCheck
        /\ Open(c) <=> told[c] \in {"raised", "changed"} /\ c \notin capped
        /\ c \in capped => journal.truncated

\* Every occurrence is told once: raised, then changed between different
\* severities, then recovered, all with one start.
OccurrencesAreToldOnce ==
    [][\A e \in journal'.events \ journal.events :
           LET prior == journal.active[e.check]
           IN  /\ (e.transition = "raised") <=> (prior = NoRow)
               /\ e.transition = "changed" => e.severity # prior.severity
               /\ e.transition # "raised" => e.started = prior.started]_vars

\* "Missing, disabled, stale, and unavailable sources cannot confirm recovery":
\* an open condition ends or changes only on fresh evidence that is not older
\* than the evidence it rests on (of which a full table may drop the coverage in
\* the same commit), or, at the cap, for newer conditions.
ConditionsEndForCause ==
    [][\A c \in Check : Open(c) =>
           LET prior == journal.active[c]
               row == journal'.checks[c]
               now == journal'.observed
           IN  \/ journal'.active[c] = prior
               \/ /\ row.status = "observed" /\ row.seen = now
                  /\ row.epoch >= prior.observed
                  /\ now - row.epoch <= FreshOf[c] /\ row.epoch - now <= Skew
               \/ row = NoCheck /\ Cardinality(CheckRows(journal')) = MaxChecks
               \/ Cardinality(OpenIn(journal')) = MaxActive]_vars

\* An answer is one committed state: unless the clock has stepped back behind
\* the journal, the last transition it shows of a condition is the one that its
\* list of open conditions reflects.
AnswersAreSnapshots ==
    (Reading /\ reader.now >= journal.observed) =>
        \A e \in AnswerEvents :
            (\A f \in AnswerEvents : f.check = e.check => f.id <= e.id) =>
                IF e.transition = "recovered" THEN reader.active[e.check] = NoRow
                ELSE \/ e.check \in capped
                     \/ /\ reader.active[e.check].severity = e.severity
                        /\ reader.active[e.check].started = e.started

\* What an answer calls observed rests on evidence that is fresh when it is
\* read, from the latest sample, and not older than the open condition's.
ObservedMeansNow ==
    Reading => \A c \in Check : AnswerStatus(c) = "observed" =>
        /\ reader.checks[c].seen = journal.observed
        /\ reader.now - reader.checks[c].epoch <= FreshOf[c]
        /\ reader.active[c] # NoRow => reader.checks[c].epoch >= reader.active[c].observed

================================================================================
