--------------------------- MODULE UsageSourcesProofs ---------------------------
(***************************************************************************)
(* Day counters: for any requests, models, days and number of faults, the  *)
(* increments that the OpenCode, Antigravity and Infer Runtime collectors  *)
(* hand over add up to the usage that was read.                            *)
(* Codex migration: for any rollouts, scan budget and number of faults,    *)
(* the old rows of the history are removed only when a complete backup and *)
(* a rebuilt ledger are on disk, and no later step takes the rebuilt       *)
(* ledger away.                                                            *)
(* Codex usage: for any rollouts whose counters tell their requests, the   *)
(* ledger and the rows hold each request once, in whatever order and in    *)
(* however many polls the files are read.                                  *)
(* Telemetry: for any batches, a published rate times one request.         *)
(* DSH: for logs whose markers tell their calls, a call is stored once.    *)
(***************************************************************************)
EXTENDS UsageSources, SumTheorems, TLAPS

-------------------------------------------------------------------------------
(* The Codex migration. *)

\* The fields that the argument reads exist.
Shape ==
    /\ "mode" \in DOMAIN scan
    /\ "rebuilt" \in DOMAIN ledger /\ "rebuilt" \in DOMAIN stored

\* Whatever is saved is a rebuilt ledger: an update scans one, and a rebuild marks its own
\* before it is saved.
SavesAreRebuilt ==
    /\ codexPc = "scan" /\ scan.mode = "update" => ledger.rebuilt
    /\ codexPc = "save" => ledger.rebuilt

\* What each step of the migration finds on disk.
StartIsOrdered ==
    /\ codexPc = "backup" => stored.rebuilt
    /\ codexPc = "replace" => backup /\ stored.rebuilt

MigrationInv == Shape /\ SavesAreRebuilt /\ StartIsOrdered /\ MigrationKeepsHistory

-------------------------------------------------------------------------------
\* The invariant holds initially.
LEMMA InitMigrationInv == CodexInit => MigrationInv
  BY DEF CodexInit, MigrationInv, Shape, SavesAreRebuilt, StartIsOrdered, MigrationKeepsHistory,
         EmptyLedger, NoScan

\* The files change and a scan reads them: the steps of the migration do not move.
LEMMA ScanKeepsInv ==
  ASSUME MigrationInv, NEW f \in Rollout,
         SkipFile(f) \/ IngestFile(f) \/ ReadRolloutFails(f) \/ WriteRollout(f) \/ MoveRollout(f)
  PROVE  MigrationInv'
<1> USE DEF MigrationInv, Shape, SavesAreRebuilt, StartIsOrdered, MigrationKeepsHistory, files, store
<1>1. CASE SkipFile(f)
  BY <1>1 DEF SkipFile
<1>2. CASE IngestFile(f)
  BY <1>2 DEF IngestFile
<1>3. CASE ReadRolloutFails(f)
  BY <1>3 DEF ReadRolloutFails
<1>4. CASE WriteRollout(f)
  BY <1>4 DEF WriteRollout
<1>5. CASE MoveRollout(f)
  BY <1>5 DEF MoveRollout
<1>6. QED
  BY <1>1, <1>2, <1>3, <1>4, <1>5

\* A poll, from its scan to its report, saves only rebuilt ledgers.
LEMMA PollKeepsInv ==
  ASSUME MigrationInv, Poll \/ EndScan \/ Save \/ SaveFails \/ ReportPoints \/ CachedReport
  PROVE  MigrationInv'
<1> USE DEF MigrationInv, Shape, SavesAreRebuilt, StartIsOrdered, MigrationKeepsHistory, files, store
<1>1. CASE Poll
  <2>1. CASE ledger.rebuilt
    <3>1. "mode" \in DOMAIN scan' /\ ledger' = ledger
      BY <1>1, <2>1 DEF Poll, NoScan
    <3>2. QED
      BY <1>1, <2>1, <3>1 DEF Poll
  <2>2. CASE ~ledger.rebuilt
    <3>1. scan' = [NoScan EXCEPT !.mode = "rebuild", !.sizes = Sizes]
      BY <1>1, <2>2 DEF Poll
    <3>2. "mode" \in DOMAIN scan' /\ scan'.mode = "rebuild"
      BY <3>1 DEF NoScan
    <3>3. "rebuilt" \in DOMAIN ledger'
      BY <1>1, <2>2 DEF Poll, EmptyLedger
    <3>4. QED
      BY <1>1, <2>2, <3>2, <3>3 DEF Poll
  <2>3. QED
    BY <2>1, <2>2
<1>2. CASE EndScan
  BY <1>2 DEF EndScan
<1>3. CASE Save
  BY <1>3 DEF Save
<1>4. CASE SaveFails
  BY <1>4 DEF SaveFails
<1>5. CASE ReportPoints
  BY <1>5 DEF ReportPoints, NoScan
<1>6. CASE CachedReport
  BY <1>6 DEF CachedReport
<1>7. QED
  BY <1>1, <1>2, <1>3, <1>4, <1>5, <1>6

\* The steps of a start, and the end of the process between any two of them.
LEMMA StartKeepsInv ==
  ASSUME MigrationInv,
         StartMigration \/ Backup \/ ReplaceHistory \/ Load \/ LoadFails \/ CodexCrash
  PROVE  MigrationInv'
<1> USE DEF MigrationInv, Shape, SavesAreRebuilt, StartIsOrdered, MigrationKeepsHistory, files, store
<1>1. CASE StartMigration
  <2>1. CASE (migrated /\ stored.rebuilt) \/ ~RootsExist
    BY <1>1, <2>1 DEF StartMigration
  <2>2. CASE ~((migrated /\ stored.rebuilt) \/ ~RootsExist) /\ stored.rebuilt
    BY <1>1, <2>2 DEF StartMigration
  <2>3. CASE ~((migrated /\ stored.rebuilt) \/ ~RootsExist) /\ ~stored.rebuilt
    <3>1. scan' = [NoScan EXCEPT !.mode = "migrate", !.sizes = Sizes]
      BY <1>1, <2>3 DEF StartMigration
    <3>2. "mode" \in DOMAIN scan' /\ scan'.mode = "migrate"
      BY <3>1 DEF NoScan
    <3>3. "rebuilt" \in DOMAIN ledger'
      BY <1>1, <2>3 DEF StartMigration, EmptyLedger
    <3>4. QED
      BY <1>1, <2>3, <3>2, <3>3 DEF StartMigration
  <2>4. QED
    BY <2>1, <2>2, <2>3
<1>2. CASE Backup
  BY <1>2 DEF Backup
<1>3. CASE ReplaceHistory
  BY <1>3 DEF ReplaceHistory, NoScan
<1>4. CASE Load
  BY <1>4 DEF Load
<1>5. CASE LoadFails
  BY <1>5 DEF LoadFails, EmptyLedger
<1>6. CASE CodexCrash
  BY <1>6 DEF CodexCrash, NoScan, EmptyLedger
<1>7. QED
  BY <1>1, <1>2, <1>3, <1>4, <1>5, <1>6

\* Every step keeps it: one case per action.
LEMMA NextMigrationInv == MigrationInv /\ [CodexNext]_codexVars => MigrationInv'
<1> SUFFICES ASSUME MigrationInv, [CodexNext]_codexVars PROVE MigrationInv'
  OBVIOUS
<1>1. CASE CodexNext
  BY <1>1, ScanKeepsInv, PollKeepsInv, StartKeepsInv DEF CodexNext
<1>2. CASE UNCHANGED codexVars
  BY <1>2 DEF codexVars, MigrationInv, Shape, SavesAreRebuilt, StartIsOrdered, MigrationKeepsHistory
<1>3. QED
  BY <1>1, <1>2

\* The inductive invariant of the migration and of the saves that follow it.
THEOREM MigrationInvariance == CodexSpec => []MigrationInv
<1>1. QED
  BY InitMigrationInv, NextMigrationInv, PTL DEF CodexSpec

\* The old history goes only when it is backed up and rebuilt (codex_migration.py:66).
THEOREM HistoryIsKept == CodexSpec => []MigrationKeepsHistory
<1>1. MigrationInv => MigrationKeepsHistory
  BY DEF MigrationInv
<1>2. QED
  BY <1>1, MigrationInvariance, PTL

-------------------------------------------------------------------------------
(* The Codex ledger: each request counts once, in the ledger and in the rows. *)

KeyValues == ({"total"} \X Nat) \cup ({"at"} \X Nat \X Nat)
DedupKeys == SessionIds \X KeyValues
ParserState == [session : SessionIds, parent : Names, child : Names,
                childAt : Nat, waiting : BOOLEAN, replaySeen : BOOLEAN, userFork : BOOLEAN,
                tasks : SUBSET Nat, baseline : Nat, previous : Nat]
Parse == [state : ParserState, keys : SUBSET DedupKeys, tokens : Nat, found : Seq(SUBSET Requests)]
Ledger == [entry : [Rollout -> [offset : Nat, state : ParserState]], keys : SUBSET DedupKeys,
           tokens : Nat, rebuilt : BOOLEAN]
Scan == [mode : {"none", "rebuild", "update", "migrate"}, sizes : UNION {[s -> Nat] : s \in SUBSET Rollout},
         left : Nat, read : Nat, found : Seq(SUBSET Requests)]

\* The records from one position of a file to another: their keys, their requests, and the
\* requests of those whose keys are not among some others.
KeysOf(f, from, to) == UNION {Increment(script[f], i).keys : i \in from .. to}
RequestsOf(f, from, to) == UNION {script[f][i].requests : i \in from .. to}
NewIn(f, from, to, keys) ==
    UNION {script[f][i].requests : i \in {j \in from .. to : ~(Increment(script[f], j).keys \subseteq keys)}}

Disjoint(sets) == \A i, j \in DOMAIN sets : i # j => sets[i] \cap sets[j] = {}

\* What one record makes of what was known, its file read from some position.
RecordAdds(now, was, f, from, p, keys) ==
    LET old == NewIn(f, from, p - 1, keys)
    IN  /\ now.state = Parsed(script[f], p).state
        /\ now.keys = keys \cup KeysOf(f, from, p)
        /\ \E more \in SUBSET Requests :
             /\ more \cap old = {} /\ NewIn(f, from, p, keys) = old \cup more
             /\ now.tokens = was.tokens + SumFunctionOnSet(Weight, more)
             /\ now.found = Append(was.found, more) \/ (more = {} /\ now.found = was.found)

\* n records of a file after its first o, and what reading them makes of what was known.
Reading(acc, f, o, n) == FoldLeft(Consume, acc, SubSeq(script[f], o + 1, o + n))
IsReadFrom(t, acc, f, o, n) ==
    LET new == NewIn(f, o + 1, o + n, acc.keys)
    IN  /\ t \in Parse /\ t.state = Parsed(script[f], o + n).state
        /\ t.keys = acc.keys \cup KeysOf(f, o + 1, o + n)
        /\ new \in SUBSET Requests /\ t.tokens = acc.tokens + SumFunctionOnSet(Weight, new)
        /\ acc.found = <<>> => UNION ToSet(t.found) = new /\ Disjoint(t.found)

\* The keys and the requests of the first records of each file; the keys of the records a
\* ledger has consumed, and the requests that some keys stand for.
KeysUpTo(upto) == UNION {KeysOf(f, 1, upto[f]) : f \in Rollout}
RequestsUpTo(upto) == UNION {RequestsOf(f, 1, upto[f]) : f \in Rollout}
Offsets(l) == [f \in Rollout |-> l.entry[f].offset]
KeysIn(l) == KeysUpTo(Offsets(l))
ToldBy(keys) ==
    {r \in Requests : \E f \in Rollout : \E i \in DOMAIN script[f] :
        r \in script[f][i].requests /\ Increment(script[f], i).keys \subseteq keys}

FoundNow == UNION ToSet(scan.found)

LedgerTypes ==
    /\ script \in Scripts
    /\ written \in [Rollout -> Nat] /\ visible \in [Rollout -> Nat]
    /\ \A f \in Rollout : visible[f] <= written[f] /\ written[f] <= 2 * Len(script[f])
    /\ ledger \in Ledger /\ stored \in Ledger
    /\ codexPc \in {"start", "backup", "replace", "load", "idle", "scan", "save", "report"}
    /\ scan \in Scan
    /\ availability \in Window!Stabilizer /\ shown \in {"available", "error"}
    /\ rows \in [Requests -> Nat] /\ historic \subseteq Requests
    /\ codexCause \subseteq {"misread", "dropped", "withheld", "lost", "migrated"}

\* A file's entry is what parsing it alone up to its offset gives.
ReadInOrder(l) ==
    \A f \in Rollout : l.entry[f].offset <= Len(script[f])
                       /\ l.entry[f].state = Parsed(script[f], l.entry[f].offset).state

\* The keys are those of the records consumed, and the tokens those of their requests.
Counts(l) == l.keys = KeysIn(l) /\ l.tokens = SumFunctionOnSet(Weight, RequestsIn(l))

LedgersAreRead ==
    /\ ReadInOrder(ledger) /\ ReadInOrder(stored)
    /\ "misread" \notin codexCause => Counts(ledger) /\ Counts(stored)

Loaded == codexPc \in {"idle", "scan", "save", "report"}

\* What is on disk, in memory and found at each step of a poll and of a start.
StepsAreOrdered ==
    /\ ~stored.rebuilt => \A f \in Rollout : stored.entry[f].offset = 0
    /\ codexPc \in {"save", "report"} => ledger.rebuilt
    /\ codexPc = "scan" => scan.mode # "none" /\ (scan.mode = "update" => ledger.rebuilt)
    /\ codexPc = "idle" /\ ~ledger.rebuilt /\ "lost" \notin codexCause => ~stored.rebuilt
    /\ codexPc = "scan" /\ scan.mode # "update" /\ "lost" \notin codexCause => ~stored.rebuilt
    /\ ~Loaded \/ codexPc = "idle" => scan.found = <<>>
    /\ codexPc = "scan" /\ scan.read = 0 => scan.found = <<>>
    /\ codexPc = "save" /\ scan.mode # "update" => scan.found = <<>>
    /\ codexPc = "report" /\ scan.found # <<>> => stored = ledger

\* A request is stored or found once, and then told by the keys of the ledger.
RowsAreNew ==
    "lost" \notin codexCause =>
        /\ \A r \in Requests : rows[r] <= 1
        /\ \A r \in Requests : rows[r] = 1 => stored.rebuilt /\ r \in ToldBy(stored.keys)
        /\ Loaded => /\ \A r \in Requests : rows[r] = 1 => r \in ToldBy(ledger.keys)
                     /\ \A r \in FoundNow : rows[r] = 0 /\ r \in ToldBy(ledger.keys)
                     /\ Disjoint(scan.found)

\* A request of the ledger is stored, found or was there at its rebuild.
NoneIsMissed ==
    codexCause = {} =>
        /\ \A r \in RequestsIn(stored) \ historic : rows[r] = 1 \/ (codexPc = "report" /\ r \in FoundNow)
        /\ codexPc \in {"idle", "save", "report"} \/ (codexPc = "scan" /\ scan.mode = "update") =>
            \A r \in RequestsIn(ledger) \ historic : rows[r] = 1 \/ r \in FoundNow

LedgerInv == LedgerTypes /\ LedgersAreRead /\ StepsAreOrdered /\ RowsAreNew /\ NoneIsMissed

\* The fields of a header.
LEMMA HeadersAreTyped ==
  ASSUME NEW h \in Header
  PROVE  /\ h.session \in SessionIds /\ h.session \in Names /\ h.parent \in Names /\ h.turn \in Nat
         /\ h.user \in BOOLEAN
<1>1. h.session \in SessionIds /\ h.parent \in Names /\ h.turn \in Nat /\ h.user \in BOOLEAN
  BY DEF Header
<1>2. h.session \in Names
  BY <1>1 DEF Names
<1>3. QED
  BY <1>1, <1>2

\* What the assumption says of a file, and of a record of it.
LEMMA ScriptsAreTyped ==
  ASSUME NEW s \in Scripts, NEW f \in Rollout
  PROVE  /\ s[f] \in Seq(Record) /\ Len(s[f]) \in Nat /\ Len(s[f]) >= 1 /\ DOMAIN s[f] = 1 .. Len(s[f])
         /\ \A i \in DOMAIN s[f] : s[f][i] \in Record /\ s[f][i].requests \in SUBSET Requests
         /\ HeadState(s[f]) \in ParserState
<1>1. s[f] \in Seq(Record) /\ s[f] # <<>> /\ s[f][1] \in Header
  BY CodexAssumption
<1>2. Len(s[f]) \in Nat /\ Len(s[f]) >= 1 /\ DOMAIN s[f] = 1 .. Len(s[f])
  BY <1>1
<1>3. \A i \in DOMAIN s[f] : s[f][i] \in Record
  BY <1>1
<1>4. \A rec \in Record : rec.requests \in SUBSET Requests
  BY DEF Record, Header
<1>5. HeadState(s[f]) \in ParserState
  <2> DEFINE head == s[f][1]
  <2>1. head \in Header
    BY <1>1
  <2> HIDE DEF head
  <2>2. /\ head.session \in SessionIds /\ head.parent \in Names
        /\ None \in Names
    <3>1. head.session \in SessionIds /\ head.parent \in Names
      BY <2>1, HeadersAreTyped
    <3>2. None \in Names
      BY DEF Names
    <3>3. QED
      BY <3>1, <3>2
  <2>3. HeadState(s[f]) = [session |-> head.session, parent |-> head.parent, child |-> None, childAt |-> 0,
           waiting |-> FALSE, replaySeen |-> FALSE, userFork |-> FALSE, tasks |-> {},
           baseline |-> 0, previous |-> 0]
    BY DEF HeadState, head
  <2>4. QED
    BY <2>2, <2>3 DEF ParserState
<1>6. QED
  BY <1>1, <1>2, <1>3, <1>4, <1>5

\* While a fork waits for its own turn, records change the state alone.
LEMMA WaitingIsTyped ==
  ASSUME NEW st \in ParserState, NEW rec \in Record
  PROVE  WhileWaiting(st, rec) \in ParserState
<1> USE DEF ParserState
<1>1. CASE rec.kind = "turn" /\ ForkTurnStartsChild(st, rec.turn)
  <2>1. WhileWaiting(st, rec) = [st EXCEPT !.waiting = FALSE, !.replaySeen = FALSE, !.tasks = {},
           !.userFork = FALSE, !.session = IF st.child = None THEN st.session ELSE st.child]
    BY <1>1 DEF WhileWaiting
  <2>2. st.child # None => st.child \in SessionIds
    BY DEF Names
  <2>3. (IF st.child = None THEN st.session ELSE st.child) \in SessionIds
    BY <2>2
  <2> DEFINE one == [st EXCEPT !.waiting = FALSE, !.replaySeen = FALSE, !.tasks = {}, !.userFork = FALSE]
  <2>4. one \in ParserState
    OBVIOUS
  <2>5. WhileWaiting(st, rec) = [one EXCEPT !.session = IF st.child = None THEN st.session ELSE st.child]
    BY <2>1
  <2> HIDE DEF one
  <2>6. QED
    BY <2>3, <2>4, <2>5
<1>2. CASE rec.kind = "task"
  <2>1. rec.turn \in Nat
    BY <1>2 DEF Record, Header
  <2>2. WhileWaiting(st, rec) \in {[st EXCEPT !.tasks = @ \cup {rec.turn}], st}
    BY <1>2 DEF WhileWaiting
  <2>3. QED
    BY <2>1, <2>2
<1>3. CASE rec.kind = "meta"
  <2>1. WhileWaiting(st, rec) \in {[st EXCEPT !.replaySeen = TRUE], st}
    BY <1>3 DEF WhileWaiting
  <2>2. QED
    BY <2>1
<1>4. CASE rec.kind = "token"
  <2>1. rec.total \in Nat
    BY <1>4 DEF Record, Header
  <2>2. WhileWaiting(st, rec) \in {[st EXCEPT !.previous = rec.total, !.baseline = rec.total], st}
    BY <1>4 DEF WhileWaiting
  <2>3. QED
    BY <2>1, <2>2
<1>5. CASE rec.kind = "turn" /\ ~ForkTurnStartsChild(st, rec.turn)
  <2>1. WhileWaiting(st, rec) = st
    BY <1>5 DEF WhileWaiting
  <2>2. QED
    BY <2>1
<1>6. QED
  BY <1>1, <1>2, <1>3, <1>4, <1>5 DEF Record, Header

\* A header names a session and perhaps starts to wait.
LEMMA SessionIsTyped ==
  ASSUME NEW st \in ParserState, NEW rec \in Record, rec.kind = "meta"
  PROVE  SessionMeta(st, rec) \in ParserState
<1>1. rec \in Header
  BY DEF Record
<1> DEFINE named == [st EXCEPT !.session = rec.session, !.parent = rec.parent,
                               !.child = rec.session, !.childAt = rec.turn]
<1>2. /\ rec.session \in SessionIds /\ rec.parent \in Names /\ rec.turn \in Nat
      /\ rec.user \in BOOLEAN /\ rec.session \in Names
  BY <1>1, HeadersAreTyped
<1>3. named \in ParserState
  <2> DEFINE one == [st EXCEPT !.session = rec.session, !.parent = rec.parent]
  <2>1. one \in ParserState
    BY <1>2 DEF ParserState
  <2>2. named = [one EXCEPT !.child = rec.session, !.childAt = rec.turn]
    OBVIOUS
  <2> HIDE DEF one
  <2>3. [one EXCEPT !.child = rec.session, !.childAt = rec.turn] \in ParserState
    BY <1>2, <2>1 DEF ParserState
  <2>4. QED
    BY <2>2, <2>3
<1>4. [named EXCEPT !.waiting = TRUE, !.replaySeen = FALSE, !.baseline = 0, !.tasks = {},
                    !.userFork = rec.user] \in ParserState
  <2> HIDE DEF named
  <2>1. QED
    BY <1>2, <1>3 DEF ParserState
<1>5. [st EXCEPT !.session = rec.session] \in ParserState
  BY <1>2 DEF ParserState
<1>6. QED
  BY <1>3, <1>4, <1>5 DEF SessionMeta

\* The tokens of a record are a number, and so is the counter to compare with.
LEMMA UsageIsTyped ==
  ASSUME NEW st \in ParserState, NEW rec \in Record, rec.kind = "token"
  PROVE  TokenUsage(st, rec).tokens \in Nat /\ TokenUsage(st, rec).previous \in Nat
<1>1. rec.total \in Nat /\ rec.last \in Nat /\ st.previous \in Nat
  BY DEF Record, Header, ParserState
<1> DEFINE use(n, previous) == [tokens |-> n, previous |-> previous]
<1>2. /\ \A n, p \in Nat : use(n, p).tokens \in Nat /\ use(n, p).previous \in Nat
  OBVIOUS
<1>3. \E n, p \in Nat : TokenUsage(st, rec) = use(n, p)
  <2>1. CASE rec.total > 0 /\ rec.last > 0
    BY <1>1, <2>1 DEF TokenUsage
  <2>2. CASE rec.total > 0 /\ ~(rec.last > 0)
    <3>1. ~(rec.total < st.previous) => rec.total - st.previous \in Nat
      BY <1>1
    <3>2. QED
      BY <1>1, <2>2, <3>1 DEF TokenUsage
  <2>3. CASE ~(rec.total > 0)
    <3>1. st.previous + rec.last \in Nat
      BY <1>1
    <3>2. QED
      BY <1>1, <2>3, <3>1 DEF TokenUsage
  <2>4. QED
    BY <2>1, <2>2, <2>3
<1>4. QED
  BY <1>2, <1>3

\* What a token record adds to what is known, and what it does to nothing.
LEMMA TokensAdd ==
  ASSUME NEW acc \in Parse, NEW rec \in Record, rec.kind = "token"
  PROVE  LET one == CountTokens(Alone(acc.state), rec)
         IN  /\ one \in Parse
             /\ one.keys = {} \/ \E k : one.keys = {k}
             /\ CountTokens(acc, rec) =
                  [state |-> one.state, keys |-> acc.keys \cup one.keys,
                   tokens |-> acc.tokens + (IF one.keys \subseteq acc.keys THEN 0 ELSE one.tokens),
                   found |-> IF one.keys \subseteq acc.keys THEN acc.found ELSE Append(acc.found, rec.requests)]
<1> DEFINE st == acc.state
           none == Alone(st)
           past == [st EXCEPT !.baseline = 0]
           inherited == rec.total > 0 /\ st.baseline > 0 /\ rec.total <= st.baseline
           u == TokenUsage(past, rec)
           key == DedupKey(past, rec)
           next == [past EXCEPT !.previous = u.previous]
           one == CountTokens(none, rec)
<1>1. /\ acc = [state |-> st, keys |-> acc.keys, tokens |-> acc.tokens, found |-> acc.found]
      /\ st \in ParserState /\ acc.keys \in SUBSET DedupKeys /\ acc.tokens \in Nat
      /\ acc.found \in Seq(SUBSET Requests)
  BY DEF Parse
<1>2. none.state = st /\ none.keys = {} /\ none.tokens = 0 /\ none.found = <<>>
      /\ none = [state |-> st, keys |-> {}, tokens |-> 0, found |-> <<>>]
  BY DEF Alone
<1>3. past \in ParserState
  BY <1>1 DEF ParserState
<1>4. u.tokens \in Nat /\ u.previous \in Nat
  BY <1>3, UsageIsTyped
<1>5. next \in ParserState
  <2> HIDE DEF past, u
  <2>1. QED
    BY <1>3, <1>4 DEF ParserState
<1>6. key \in DedupKeys
  <2>1. rec.total \in Nat /\ rec.last \in Nat /\ rec.at \in Nat
    BY DEF Record, Header
  <2> HIDE DEF past
  <2>2. past.parent \in Names /\ past.session \in SessionIds
    BY <1>3 DEF ParserState, Names
  <2>3. <<"total", rec.total>> \in KeyValues /\ <<"at", rec.at, rec.last>> \in KeyValues
    BY <2>1 DEF KeyValues
  <2>4. QED
    BY <2>2, <2>3 DEF DedupKey, DedupKeys, Names
<1>7. rec.requests \in SUBSET Requests
  BY DEF Record, Header
<1> HIDE DEF next, key, none, one
<1>8. <<>> \in Seq(SUBSET Requests)
  OBVIOUS
<1>9. CASE inherited
  <2>1. one = none /\ CountTokens(acc, rec) = acc
    BY <1>2, <1>9 DEF CountTokens, one
  <2>2. one \in Parse /\ one.state = st /\ one.keys = {} /\ acc.tokens + 0 = acc.tokens
    BY <1>1, <1>2, <1>8, <2>1 DEF Parse
  <2>3. CountTokens(acc, rec) = [state |-> one.state, keys |-> acc.keys \cup one.keys,
                                 tokens |-> acc.tokens + 0, found |-> acc.found]
    BY <1>1, <2>1, <2>2
  <2>4. QED
    BY <2>2, <2>3 DEF one, none
<1>10. CASE ~inherited /\ u.tokens = 0
  <2>1. one = [none EXCEPT !.state = next] /\ CountTokens(acc, rec) = [acc EXCEPT !.state = next]
    BY <1>2, <1>10 DEF CountTokens, next, one
  <2>2. one = [state |-> next, keys |-> {}, tokens |-> 0, found |-> <<>>]
    BY <1>2, <2>1
  <2>3. CountTokens(acc, rec) = [state |-> next, keys |-> acc.keys, tokens |-> acc.tokens, found |-> acc.found]
    BY <1>1, <2>1
  <2>4. one \in Parse /\ one.state = next /\ one.keys = {} /\ acc.tokens + 0 = acc.tokens
    BY <1>1, <1>5, <1>8, <2>2 DEF Parse
  <2>5. CountTokens(acc, rec) = [state |-> one.state, keys |-> acc.keys \cup one.keys,
                                 tokens |-> acc.tokens + 0, found |-> acc.found]
    BY <2>3, <2>4
  <2>6. QED
    BY <2>4, <2>5 DEF one, none
<1>11. CASE ~inherited /\ u.tokens # 0
  <2>1. one = [state |-> next, keys |-> {key}, tokens |-> u.tokens, found |-> <<rec.requests>>]
    <3>1. one = [state |-> next, keys |-> none.keys \cup {key},
                 tokens |-> none.tokens + (IF key \in none.keys THEN 0 ELSE u.tokens),
                 found |-> IF key \in none.keys THEN none.found ELSE Append(none.found, rec.requests)]
      BY <1>2, <1>11 DEF CountTokens, next, key, one
    <3>2. 0 + u.tokens = u.tokens /\ Append(<<>>, rec.requests) = <<rec.requests>>
      BY <1>4
    <3>3. QED
      BY <1>2, <3>1, <3>2
  <2>2. CountTokens(acc, rec) =
          [state |-> next, keys |-> acc.keys \cup {key},
           tokens |-> acc.tokens + (IF key \in acc.keys THEN 0 ELSE u.tokens),
           found |-> IF key \in acc.keys THEN acc.found ELSE Append(acc.found, rec.requests)]
    BY <1>11 DEF CountTokens, next, key
  <2>3. one \in Parse
    BY <1>4, <1>5, <1>6, <1>7, <2>1 DEF Parse
  <2>4. {key} \subseteq acc.keys <=> key \in acc.keys
    OBVIOUS
  <2>5. one.state = next /\ one.keys = {key} /\ one.tokens = u.tokens
    BY <2>1
  <2>6. CountTokens(acc, rec) =
          [state |-> one.state, keys |-> acc.keys \cup one.keys,
           tokens |-> acc.tokens + (IF one.keys \subseteq acc.keys THEN 0 ELSE one.tokens),
           found |-> IF one.keys \subseteq acc.keys THEN acc.found ELSE Append(acc.found, rec.requests)]
    BY <2>2, <2>4, <2>5
  <2>7. QED
    BY <2>3, <2>5, <2>6 DEF one, none
<1>12. QED
  BY <1>9, <1>10, <1>11

\* What one record adds by itself, and what it adds to what was known before.
ByItself(st, rec) == Consume(Alone(st), rec)
Joined(acc, one, more) ==
    [state |-> one.state, keys |-> acc.keys \cup one.keys,
     tokens |-> acc.tokens + (IF one.keys \subseteq acc.keys THEN 0 ELSE one.tokens),
     found |-> IF one.keys \subseteq acc.keys THEN acc.found ELSE Append(acc.found, more)]

\* What any record adds to what is known is what it does to nothing, unless its key is known.
LEMMA ConsumeAdds ==
  ASSUME NEW acc \in Parse, NEW rec \in Record
  PROVE  /\ ByItself(acc.state, rec) \in Parse
         /\ ByItself(acc.state, rec).keys = {} \/ \E k : ByItself(acc.state, rec).keys = {k}
         /\ Consume(acc, rec) = Joined(acc, ByItself(acc.state, rec), rec.requests)
         /\ Consume(acc, rec) \in Parse
<1> DEFINE st == acc.state
           none == Alone(st)
           one == Consume(none, rec)
<1>1. /\ acc = [state |-> st, keys |-> acc.keys, tokens |-> acc.tokens, found |-> acc.found]
      /\ st \in ParserState /\ acc.keys \in SUBSET DedupKeys /\ acc.tokens \in Nat
      /\ acc.found \in Seq(SUBSET Requests) /\ rec.requests \in SUBSET Requests
  BY DEF Parse, Record, Header
<1>2. none = [state |-> st, keys |-> {}, tokens |-> 0, found |-> <<>>] /\ none.state = st
  BY DEF Alone
<1> DEFINE Adds == /\ one \in Parse
                   /\ one.keys = {} \/ \E k : one.keys = {k}
                   /\ Consume(acc, rec) =
                        [state |-> one.state, keys |-> acc.keys \cup one.keys,
                         tokens |-> acc.tokens + (IF one.keys \subseteq acc.keys THEN 0 ELSE one.tokens),
                         found |-> IF one.keys \subseteq acc.keys THEN acc.found
                                   ELSE Append(acc.found, rec.requests)]
<1>3. ASSUME NEW next \in ParserState, one = [none EXCEPT !.state = next],
             Consume(acc, rec) = [acc EXCEPT !.state = next]
      PROVE  Adds
  <2> HIDE DEF none, one
  <2>1. one = [state |-> next, keys |-> {}, tokens |-> 0, found |-> <<>>]
    BY <1>2, <1>3
  <2>2. Consume(acc, rec) = [state |-> next, keys |-> acc.keys, tokens |-> acc.tokens, found |-> acc.found]
    BY <1>1, <1>3
  <2>3. one \in Parse
    <3>1. <<>> \in Seq(SUBSET Requests)
      OBVIOUS
    <3>2. QED
      BY <2>1, <3>1 DEF Parse
  <2>4. one.keys = {} /\ one.state = next /\ acc.tokens + 0 = acc.tokens
    BY <1>1, <2>1
  <2>5. QED
    BY <2>2, <2>3, <2>4
<1>4. Adds
  <2>1. CASE st.waiting
    <3>1. WhileWaiting(st, rec) \in ParserState
      BY <1>1, WaitingIsTyped
    <3>2. /\ one = [none EXCEPT !.state = WhileWaiting(st, rec)]
          /\ Consume(acc, rec) = [acc EXCEPT !.state = WhileWaiting(st, rec)]
      BY <1>2, <2>1 DEF Consume
    <3>3. QED
      BY <1>3, <3>1, <3>2
  <2>2. CASE ~st.waiting /\ rec.kind = "meta"
    <3>1. SessionMeta(st, rec) \in ParserState
      BY <1>1, <2>2, SessionIsTyped
    <3>2. /\ one = [none EXCEPT !.state = SessionMeta(st, rec)]
          /\ Consume(acc, rec) = [acc EXCEPT !.state = SessionMeta(st, rec)]
      BY <1>2, <2>2 DEF Consume
    <3>3. QED
      BY <1>3, <3>1, <3>2
  <2>3. CASE ~st.waiting /\ rec.kind = "token" /\ rec.total + rec.last > 0
    <3>1. one = CountTokens(none, rec) /\ Consume(acc, rec) = CountTokens(acc, rec)
      BY <1>2, <2>3 DEF Consume
    <3> DEFINE sole == CountTokens(Alone(acc.state), rec)
    <3>2. /\ sole \in Parse
          /\ sole.keys = {} \/ \E k : sole.keys = {k}
          /\ CountTokens(acc, rec) =
               [state |-> sole.state, keys |-> acc.keys \cup sole.keys,
                tokens |-> acc.tokens + (IF sole.keys \subseteq acc.keys THEN 0 ELSE sole.tokens),
                found |-> IF sole.keys \subseteq acc.keys THEN acc.found ELSE Append(acc.found, rec.requests)]
      BY <2>3, TokensAdd
    <3>3. one = sole
      BY <3>1
    <3> HIDE DEF one, sole
    <3>4. QED
      BY <3>1, <3>2, <3>3
  <2>4. CASE ~st.waiting /\ rec.kind # "meta" /\ ~(rec.kind = "token" /\ rec.total + rec.last > 0)
    <3>1. one = none /\ Consume(acc, rec) = acc
      BY <1>2, <2>4 DEF Consume
    <3>2. one = [none EXCEPT !.state = st] /\ acc = [acc EXCEPT !.state = st]
      BY <1>1, <1>2, <3>1
    <3>3. QED
      BY <1>1, <1>3, <3>1, <3>2
  <2>5. QED
    BY <2>1, <2>2, <2>3, <2>4
<1> HIDE DEF one
<1>5. Consume(acc, rec) \in Parse
  <2>1. /\ one.state \in ParserState /\ acc.keys \cup one.keys \in SUBSET DedupKeys
        /\ acc.tokens + (IF one.keys \subseteq acc.keys THEN 0 ELSE one.tokens) \in Nat
        /\ (IF one.keys \subseteq acc.keys THEN acc.found ELSE Append(acc.found, rec.requests)) \in Seq(SUBSET Requests)
    BY <1>1, <1>4 DEF Parse
  <2>2. QED
    BY <1>4, <2>1 DEF Parse
<1>6. ByItself(acc.state, rec) = one
  BY DEF one, none, ByItself
<1>7. Consume(acc, rec) = Joined(acc, one, rec.requests)
  BY <1>4 DEF Joined
<1>8. QED
  BY <1>4, <1>5, <1>6, <1>7

\* Records consumed one after the other.
LEMMA ConsumeSteps ==
  ASSUME NEW acc \in Parse, NEW seq \in Seq(Record)
  PROVE  \E h : /\ h[0] = acc /\ \A k \in 0 .. Len(seq) : h[k] \in Parse
                /\ \A k \in 1 .. Len(seq) : h[k] = Consume(h[k - 1], seq[k])
                /\ FoldLeft(Consume, acc, seq) = h[Len(seq)]
<1> DEFINE D == DOMAIN seq
           n == Len(seq)
           step == [x \in Parse \X Record |-> Consume(x[1], x[2])]
           Folds(g) == g = [s \in SUBSET D |-> IF s = {} THEN acc
                                               ELSE Consume(g[s \ {Max(s)}], seq[Max(s)])]
           h == CHOOSE g : Folds(g)
<1>1. FoldLeft(Consume, acc, seq) = h[D]
  BY DEF FoldLeft, MapThenFoldSet
<1>2. n \in Nat /\ D = 1 .. n /\ \A i \in D : seq[i] \in Record
  OBVIOUS
<1>3. \A x \in Parse, r \in Record : Consume(x, r) \in Parse
  BY ConsumeAdds
<1>4. /\ step \in [Parse \X Record -> Parse]
      /\ \A x \in Parse, r \in Record : step[<<x, r>>] = Consume(x, r)
  <2>1. step \in [Parse \X Record -> Parse]
    BY <1>3
  <2>2. ASSUME NEW x \in Parse, NEW r \in Record PROVE step[<<x, r>>] = Consume(x, r)
    BY <2>1
  <2>3. QED
    BY <2>1, <2>2
<1> HIDE DEF step
<1>5. PICK g : FoldsAll(step, acc, seq, Parse, g)
  BY <1>4, FoldExists
<1>6. ASSUME NEW s \in SUBSET D, s # {} PROVE g[s] = Consume(g[s \ {Max(s)}], seq[Max(s)])
  <2>1. Max(s) \in s
    BY <1>2, <1>6, LastPosition
  <2>2. g[s \ {Max(s)}] \in Parse /\ seq[Max(s)] \in Record
    BY <1>2, <1>5, <2>1 DEF FoldsAll
  <2>3. QED
    BY <1>4, <1>5, <1>6, <2>2 DEF FoldsAll
<1>7. Folds(h)
  <2>1. Folds(g)
    BY <1>5, <1>6 DEF FoldsAll
  <2>2. QED
    BY <2>1
<1> HIDE DEF h
<1>8. h[{}] = acc /\ \A k \in 1 .. n : h[1 .. k] = Consume(h[1 .. (k - 1)], seq[k])
  <2>1. h[{}] = acc
    BY <1>7
  <2>2. ASSUME NEW k \in 1 .. n PROVE h[1 .. k] = Consume(h[1 .. (k - 1)], seq[k])
    <3> DEFINE s == 1 .. k
    <3>1. s \in SUBSET D /\ s # {} /\ Max(s) = k /\ s \ {k} = 1 .. (k - 1)
      BY <1>2, PrefixEnds
    <3> HIDE DEF s
    <3>2. h[s] = Consume(h[s \ {Max(s)}], seq[Max(s)])
      BY <1>7, <3>1
    <3>3. QED
      BY <3>1, <3>2 DEF s
  <2>3. QED
    BY <2>1, <2>2
<1> DEFINE at == [k \in 0 .. n |-> h[1 .. k]]
           G == {k \in 0 .. n : at[k] \in Parse}
<1>9. at[0] = acc /\ \A k \in 1 .. n : at[k] = Consume(at[k - 1], seq[k])
  <2>1. 1 .. 0 = {} /\ 0 \in 0 .. n /\ \A k \in 1 .. n : k - 1 \in 0 .. n /\ k \in 0 .. n
    BY <1>2
  <2>2. QED
    BY <1>8, <2>1
<1> HIDE DEF at
<1>10. \A k \in 0 .. n : k \in G
  <2>1. 0 \in G
    BY <1>2, <1>9
  <2>2. \A k \in 1 .. n : k - 1 \in G => k \in G
    BY <1>2, <1>3, <1>9
  <2> HIDE DEF G
  <2>3. QED
    BY <1>2, <2>1, <2>2, Stepwise
<1>11. at[n] = FoldLeft(Consume, acc, seq)
  <2>1. n \in 0 .. n
    BY <1>2
  <2>2. QED
    BY <1>1, <1>2, <2>1 DEF at
<1>12. QED
  BY <1>9, <1>10, <1>11

\* One record more.
LEMMA ConsumeAppends ==
  ASSUME NEW acc \in Parse, NEW seq \in Seq(Record)
  PROVE  /\ FoldLeft(Consume, acc, <<>>) = acc /\ FoldLeft(Consume, acc, seq) \in Parse
         /\ \A rec \in Record :
              FoldLeft(Consume, acc, Append(seq, rec)) = Consume(FoldLeft(Consume, acc, seq), rec)
<1> DEFINE n == Len(seq)
<1>1. n \in Nat
  OBVIOUS
<1>2. PICK h : /\ h[0] = acc /\ \A k \in 0 .. n : h[k] \in Parse
               /\ \A k \in 1 .. n : h[k] = Consume(h[k - 1], seq[k])
               /\ FoldLeft(Consume, acc, seq) = h[n]
  BY ConsumeSteps
<1>3. FoldLeft(Consume, acc, <<>>) = acc
  <2>1. <<>> \in Seq(Record) /\ Len(<<>>) = 0
    OBVIOUS
  <2>2. PICK g : /\ g[0] = acc /\ \A k \in 0 .. Len(<<>>) : g[k] \in Parse
                 /\ \A k \in 1 .. Len(<<>>) : g[k] = Consume(g[k - 1], <<>>[k])
                 /\ FoldLeft(Consume, acc, <<>>) = g[Len(<<>>)]
    BY <2>1, ConsumeSteps
  <2>3. QED
    BY <2>1, <2>2
<1>4. ASSUME NEW rec \in Record
      PROVE  FoldLeft(Consume, acc, Append(seq, rec)) = Consume(FoldLeft(Consume, acc, seq), rec)
  <2> DEFINE more == Append(seq, rec)
  <2>1. /\ more \in Seq(Record) /\ Len(more) = n + 1 /\ more[n + 1] = rec
        /\ \A k \in 1 .. n : more[k] = seq[k]
    OBVIOUS
  <2> HIDE DEF more, n
  <2>2. PICK g : /\ g[0] = acc /\ \A k \in 0 .. Len(more) : g[k] \in Parse
                 /\ \A k \in 1 .. Len(more) : g[k] = Consume(g[k - 1], more[k])
                 /\ FoldLeft(Consume, acc, more) = g[Len(more)]
    BY <2>1, ConsumeSteps
  <2> DEFINE G == {k \in 0 .. n : g[k] = h[k]}
  <2>3. 0 \in G
    BY <1>1, <1>2, <2>2
  <2>4. ASSUME NEW k \in 1 .. n, k - 1 \in G PROVE k \in G
    <3>1. k \in 1 .. Len(more) /\ k \in 0 .. n /\ more[k] = seq[k] /\ g[k - 1] = h[k - 1]
      BY <1>1, <2>1, <2>4
    <3>2. g[k] = Consume(g[k - 1], more[k]) /\ h[k] = Consume(h[k - 1], seq[k])
      BY <1>2, <2>2, <3>1
    <3>3. QED
      BY <3>1, <3>2
  <2>5. \A k \in 0 .. n : k \in G
    <3> HIDE DEF G
    <3>1. QED
      BY <1>1, <2>3, <2>4, Stepwise
  <2>6. g[n] = h[n] /\ n + 1 \in 1 .. Len(more) /\ (n + 1) - 1 = n
    <3>1. n \in 0 .. n
      BY <1>1
    <3>2. QED
      BY <1>1, <2>1, <2>5, <3>1
  <2>7. g[n + 1] = Consume(g[n], rec)
    BY <2>1, <2>2, <2>6
  <2>8. QED
    BY <1>2, <2>1, <2>2, <2>6, <2>7 DEF more
<1>5. FoldLeft(Consume, acc, seq) \in Parse
  <2>1. n \in 0 .. n
    BY <1>1
  <2>2. QED
    BY <1>2, <2>1
<1>6. QED
  BY <1>3, <1>4, <1>5

\* A tail of a file, read record by record.
ReadTo(acc, seq, o, m) == FoldLeft(Consume, acc, SubSeq(seq, o + 1, o + m))

LEMMA TailGrows ==
  ASSUME NEW acc \in Parse, NEW seq \in Seq(Record), NEW o \in Nat, NEW m \in Nat, o + m <= Len(seq)
  PROVE  /\ ReadTo(acc, seq, o, 0) = acc
         /\ ReadTo(acc, seq, o, m) \in Parse
         /\ o + m + 1 <= Len(seq) => ReadTo(acc, seq, o, m + 1) = Consume(ReadTo(acc, seq, o, m), seq[o + m + 1])
<1> DEFINE part == SubSeq(seq, o + 1, o + m)
<1>1. SubSeq(seq, o + 1, o + 0) = <<>>
  OBVIOUS
<1>2. part \in Seq(Record)
  OBVIOUS
<1>3. ASSUME o + m + 1 <= Len(seq)
      PROVE  SubSeq(seq, o + 1, o + (m + 1)) = Append(part, seq[o + m + 1]) /\ seq[o + m + 1] \in Record
  BY <1>3
<1> HIDE DEF part
<1>4. /\ FoldLeft(Consume, acc, <<>>) = acc /\ FoldLeft(Consume, acc, part) \in Parse
      /\ \A rec \in Record :
           FoldLeft(Consume, acc, Append(part, rec)) = Consume(FoldLeft(Consume, acc, part), rec)
  BY <1>2, ConsumeAppends
<1>5. ReadTo(acc, seq, o, m) = FoldLeft(Consume, acc, part)
  BY DEF ReadTo, part
<1>6. ReadTo(acc, seq, o, 0) = acc
  BY <1>1, <1>4 DEF ReadTo
<1>7. o + m + 1 <= Len(seq) => ReadTo(acc, seq, o, m + 1) = Consume(ReadTo(acc, seq, o, m), seq[o + m + 1])
  BY <1>3, <1>4, <1>5 DEF ReadTo
<1>8. QED
  BY <1>4, <1>5, <1>6, <1>7

\* Parsing a file alone, up to each of its records.
LEMMA ParsedIs ==
  ASSUME NEW s \in Scripts, NEW f \in Rollout
  PROVE  /\ Parsed(s[f], 0).state = HeadState(s[f])
         /\ \A n \in 0 .. Len(s[f]) : Parsed(s[f], n) \in Parse /\ Parsed(s[f], n).state \in ParserState
         /\ \A i \in DOMAIN s[f] :
              /\ Increment(s[f], i) \in Parse /\ Parsed(s[f], i).state = Increment(s[f], i).state
              /\ Increment(s[f], i).keys = {} \/ \E k : Increment(s[f], i).keys = {k}
<1> DEFINE seq == s[f]
           acc == Alone(HeadState(seq))
<1>1. seq \in Seq(Record) /\ Len(seq) \in Nat /\ DOMAIN seq = 1 .. Len(seq) /\ HeadState(seq) \in ParserState
  BY ScriptsAreTyped
<1>2. acc \in Parse /\ acc.state = HeadState(seq)
  <2>1. <<>> \in Seq(SUBSET Requests)
    OBVIOUS
  <2>2. QED
    BY <1>1, <2>1 DEF Alone, Parse
<1> HIDE DEF acc, seq
<1>3. ASSUME NEW n \in 0 .. Len(seq)
      PROVE  /\ Parsed(seq, n) \in Parse /\ Parsed(seq, n).state \in ParserState
             /\ n = 0 => Parsed(seq, n) = acc
             /\ n + 1 <= Len(seq) => Parsed(seq, n + 1) = Consume(Parsed(seq, n), seq[n + 1])
  <2>1. /\ n \in Nat /\ 0 \in Nat /\ 0 + n <= Len(seq) /\ 0 + n + 1 = n + 1
        /\ 0 + 1 = 1 /\ 0 + n = n /\ 0 + 0 = 0 /\ 0 + (n + 1) = n + 1
    BY <1>1
  <2>2. /\ ReadTo(acc, seq, 0, 0) = acc /\ ReadTo(acc, seq, 0, n) \in Parse
        /\ 0 + n + 1 <= Len(seq) => ReadTo(acc, seq, 0, n + 1) = Consume(ReadTo(acc, seq, 0, n), seq[0 + n + 1])
    BY <1>1, <1>2, <2>1, TailGrows
  <2>3. Parsed(seq, n) = ReadTo(acc, seq, 0, n) /\ Parsed(seq, n + 1) = ReadTo(acc, seq, 0, n + 1)
    BY <2>1 DEF Parsed, ReadTo, acc
  <2>4. n = 0 => Parsed(seq, n) = acc
    BY <2>2, <2>3
  <2>5. Parsed(seq, n) \in Parse
    BY <2>2, <2>3
  <2>6. Parsed(seq, n).state \in ParserState
    BY <2>5 DEF Parse
  <2>7. QED
    BY <2>1, <2>2, <2>3, <2>4, <2>5, <2>6
<1>4. Parsed(seq, 0).state = HeadState(seq)
  <2>1. 0 \in 0 .. Len(seq)
    BY <1>1
  <2>2. QED
    BY <1>2, <1>3, <2>1
<1>5. ASSUME NEW i \in DOMAIN seq
      PROVE  /\ Increment(seq, i) \in Parse /\ Parsed(seq, i).state = Increment(seq, i).state
             /\ Increment(seq, i).keys = {} \/ \E k : Increment(seq, i).keys = {k}
  <2> DEFINE was == Parsed(seq, i - 1)
  <2>1. i - 1 \in 0 .. Len(seq) /\ (i - 1) + 1 = i /\ i <= Len(seq) /\ seq[i] \in Record
    BY <1>1
  <2>2. was \in Parse /\ Parsed(seq, i) = Consume(was, seq[i])
    BY <1>3, <2>1
  <2> HIDE DEF was
  <2> DEFINE one == ByItself(was.state, seq[i])
  <2>3. /\ one \in Parse /\ (one.keys = {} \/ \E k : one.keys = {k})
        /\ Consume(was, seq[i]) = Joined(was, one, seq[i].requests)
    BY <2>1, <2>2, ConsumeAdds
  <2>4. Increment(seq, i) = one
    BY DEF Increment, ByItself, was
  <2> HIDE DEF one
  <2>5. Parsed(seq, i).state = one.state
    BY <2>2, <2>3 DEF Joined
  <2>6. QED
    BY <2>3, <2>4, <2>5
<1>6. QED
  BY <1>3, <1>4, <1>5 DEF seq

\* What the assumption says of two records.
LEMMA RecordsAreTold ==
  ASSUME script \in Scripts, NEW f \in Rollout, NEW g \in Rollout,
         NEW i \in DOMAIN script[f], NEW j \in DOMAIN script[g]
  PROVE  LET a == Increment(script[f], i)
             b == Increment(script[g], j)
         IN  /\ a.tokens = SumFunctionOnSet(Weight, script[f][i].requests)
             /\ a.keys = {} => script[f][i].requests = {}
             /\ a.keys = b.keys => script[f][i].requests = script[g][j].requests
             /\ a.keys # b.keys => script[f][i].requests \cap script[g][j].requests = {}
<1>1. CountersTellRequests(script)
  BY CodexAssumption
<1>2. QED
  BY <1>1 DEF CountersTellRequests

\* Some of the requests have a weight, which adds up.
LEMMA WeightsAddUp ==
  ASSUME NEW S \in SUBSET Requests, NEW T \in SUBSET Requests
  PROVE  /\ IsFiniteSet(S) /\ SumFunctionOnSet(Weight, S) \in Nat /\ SumFunctionOnSet(Weight, {}) = 0
         /\ S \cap T = {} => SumFunctionOnSet(Weight, S \cup T)
                               = SumFunctionOnSet(Weight, S) + SumFunctionOnSet(Weight, T)
<1>1. /\ IsFiniteSet(S) /\ IsFiniteSet(T)
      /\ \A r \in S \cup T : Weight[r] \in Nat
  BY CodexAssumption, FS_Subset
<1>2. S \cap T = {} => SumFunctionOnSet(Weight, S \cup T)
                         = SumFunctionOnSet(Weight, S) + SumFunctionOnSet(Weight, T)
  BY <1>1, SumOfUnion
<1>3. SumFunctionOnSet(Weight, S) \in Nat
  BY <1>1, SumIsNatural
<1>4. QED
  BY <1>1, <1>2, <1>3, SumOfNone

\* What one record of a tail adds: nothing that an earlier one did, under whatever key.
LEMMA RecordIsRead ==
  ASSUME script \in Scripts, NEW f \in Rollout, NEW p \in DOMAIN script[f], NEW from \in 1 .. p,
         NEW keys, NEW was \in Parse, was.keys = keys \cup KeysOf(f, from, p - 1),
         was.state = Parsed(script[f], p - 1).state
  PROVE  RecordAdds(Consume(was, script[f][p]), was, f, from, p, keys)
<1> DEFINE rec == script[f][p]
           one == Increment(script[f], p)
           new == Consume(was, rec)
           old == NewIn(f, from, p - 1, keys)
           At(i) == Increment(script[f], i)
<1>1. /\ DOMAIN script[f] = 1 .. Len(script[f]) /\ Len(script[f]) \in Nat
      /\ rec \in Record /\ rec.requests \in SUBSET Requests
  BY ScriptsAreTyped
<1>2. /\ p \in Nat /\ from \in Nat /\ \A i \in from .. p : i \in from .. p - 1 \/ i = p
      /\ p \in from .. p /\ (from .. p - 1) \subseteq (from .. p) /\ (from .. p) \subseteq DOMAIN script[f]
  BY <1>1
<1>3. /\ one = Consume(Alone(was.state), rec) /\ one \in Parse /\ one.state = Parsed(script[f], p).state
      /\ \A i \in from .. p : At(i).keys = {} \/ \E k : At(i).keys = {k}
  <2>1. one = Consume(Alone(was.state), rec)
    BY DEF Increment
  <2>2. \A i \in DOMAIN script[f] : At(i).keys = {} \/ \E k : At(i).keys = {k}
    BY ParsedIs
  <2>3. one \in Parse /\ one.state = Parsed(script[f], p).state
    BY ParsedIs
  <2>4. QED
    BY <1>2, <2>1, <2>2, <2>3
<1>4. new = [state |-> one.state, keys |-> was.keys \cup one.keys,
             tokens |-> was.tokens + (IF one.keys \subseteq was.keys THEN 0 ELSE one.tokens),
             found |-> IF one.keys \subseteq was.keys THEN was.found ELSE Append(was.found, rec.requests)]
  <2>1. Consume(was, rec) = Joined(was, ByItself(was.state, rec), rec.requests)
    BY <1>1, ConsumeAdds
  <2>2. ByItself(was.state, rec) = one
    BY <1>3 DEF ByItself
  <2>3. QED
    BY <2>1, <2>2 DEF Joined
<1>5. KeysOf(f, from, p) = KeysOf(f, from, p - 1) \cup one.keys
  BY <1>2 DEF KeysOf
<1>6. NewIn(f, from, p, keys) = old \cup (IF one.keys \subseteq keys THEN {} ELSE rec.requests)
  BY <1>2 DEF NewIn
<1>7. \A i \in from .. p - 1 :
        /\ At(i).keys \subseteq was.keys
        /\ At(i).keys = one.keys => script[f][i].requests = rec.requests
        /\ At(i).keys # one.keys => script[f][i].requests \cap rec.requests = {}
  <2>1. \A i \in from .. p - 1 : At(i).keys \subseteq was.keys
    BY DEF KeysOf
  <2>2. \A i \in from .. p - 1 : i \in DOMAIN script[f]
    BY <1>2
  <2>3. QED
    BY <2>1, <2>2, RecordsAreTold
<1>8. new.state = Parsed(script[f], p).state /\ new.keys = keys \cup KeysOf(f, from, p)
  BY <1>3, <1>4, <1>5
<1> DEFINE Grows(more) == /\ more \cap old = {} /\ NewIn(f, from, p, keys) = old \cup more
                          /\ new.tokens = was.tokens + SumFunctionOnSet(Weight, more)
                          /\ new.found = Append(was.found, more) \/ (more = {} /\ new.found = was.found)
<1>9. ASSUME one.keys \subseteq was.keys PROVE \E more \in SUBSET Requests : Grows(more)
  <2>1. NewIn(f, from, p, keys) = old
    <3>1. CASE one.keys \subseteq keys
      BY <1>6, <3>1
    <3>2. CASE ~(one.keys \subseteq keys)
      <4>1. PICK k : one.keys = {k} /\ k \notin keys
        BY <1>2, <1>3, <3>2
      <4>2. k \in KeysOf(f, from, p - 1)
        BY <1>9, <4>1
      <4>3. PICK i \in from .. p - 1 : k \in At(i).keys
        BY <4>2 DEF KeysOf
      <4>4. At(i).keys = one.keys /\ ~(At(i).keys \subseteq keys)
        BY <1>2, <1>3, <4>1, <4>3
      <4>5. rec.requests \subseteq old
        BY <1>7, <4>4 DEF NewIn
      <4>6. QED
        BY <1>6, <3>2, <4>5
    <3>3. QED
      BY <3>1, <3>2
  <2>2. new.tokens = was.tokens + 0 /\ new.found = was.found
    BY <1>4, <1>9
  <2>3. SumFunctionOnSet(Weight, {}) = 0
    BY SumOfNone
  <2>4. Grows({})
    BY <2>1, <2>2, <2>3
  <2>5. QED
    BY <2>4
<1>10. ASSUME ~(one.keys \subseteq was.keys) PROVE \E more \in SUBSET Requests : Grows(more)
  <2>1. ~(one.keys \subseteq keys)
    BY <1>10
  <2>2. rec.requests \cap old = {}
    <3>1. \A i \in from .. p - 1 : script[f][i].requests \cap rec.requests = {}
      BY <1>7, <1>10
    <3>2. QED
      BY <3>1 DEF NewIn
  <2>3. one.tokens = SumFunctionOnSet(Weight, rec.requests)
    BY RecordsAreTold
  <2>4. new.tokens = was.tokens + one.tokens /\ new.found = Append(was.found, rec.requests)
    BY <1>4, <1>10
  <2>5. NewIn(f, from, p, keys) = old \cup rec.requests
    BY <1>6, <2>1
  <2> HIDE DEF new, old, rec, one
  <2>6. Grows(rec.requests)
    BY <2>2, <2>3, <2>4, <2>5
  <2>7. QED
    BY <1>1, <2>6 DEF rec
<1>11. new.state = Parsed(script[f], p).state /\ new.keys = keys \cup KeysOf(f, from, p)
       /\ \E more \in SUBSET Requests : Grows(more)
  BY <1>8, <1>9, <1>10
<1>12. QED
  BY <1>11 DEF RecordAdds

\* A sequence of sets that gets one more.
LEMMA OneMoreSet ==
  ASSUME NEW sets \in Seq(SUBSET Requests), NEW more \in SUBSET Requests, more \cap UNION ToSet(sets) = {}, Disjoint(sets)
  PROVE  LET all == Append(sets, more)
         IN  /\ all \in Seq(SUBSET Requests) /\ UNION ToSet(all) = (UNION ToSet(sets)) \cup more /\ Disjoint(all)
<1> DEFINE n == Len(sets)
           all == Append(sets, more)
<1>1. /\ n \in Nat /\ all \in Seq(SUBSET Requests) /\ DOMAIN all = 1 .. n + 1 /\ DOMAIN sets = 1 .. n
      /\ all[n + 1] = more /\ \A i \in 1 .. n : all[i] = sets[i]
  OBVIOUS
<1>2. /\ \A i \in 1 .. n + 1 : i \in 1 .. n \/ i = n + 1
      /\ n + 1 \in 1 .. n + 1 /\ n + 1 \notin 1 .. n /\ 1 .. n \subseteq 1 .. n + 1
  BY <1>1
<1> HIDE DEF n, all
<1>3. ToSet(all) = ToSet(sets) \cup {more}
  BY <1>1, <1>2 DEF ToSet
<1>4. \A i \in 1 .. n : sets[i] \cap more = {}
  BY <1>1 DEF ToSet
<1>5. Disjoint(all)
  <2>1. ASSUME NEW i \in 1 .. n + 1, NEW j \in 1 .. n + 1, i # j PROVE all[i] \cap all[j] = {}
    <3>1. CASE i \in 1 .. n /\ j \in 1 .. n
      BY <1>1, <2>1, <3>1 DEF Disjoint
    <3>2. CASE i = n + 1
      <4>1. j \in 1 .. n
        BY <1>2, <2>1, <3>2
      <4>2. QED
        BY <1>1, <1>4, <3>2, <4>1
    <3>3. CASE j = n + 1
      <4>1. i \in 1 .. n
        BY <1>2, <2>1, <3>3
      <4>2. QED
        BY <1>1, <1>4, <3>3, <4>1
    <3>4. QED
      BY <1>2, <3>1, <3>2, <3>3
  <2>2. QED
    BY <1>1, <2>1 DEF Disjoint
<1>6. UNION ToSet(all) = (UNION ToSet(sets)) \cup more
  BY <1>3
<1>7. QED
  BY <1>1, <1>5, <1>6 DEF all

\* Reading some records of a file, one by one.
LEMMA ReadingGrows ==
  ASSUME script \in Scripts, NEW f \in Rollout, NEW o \in Nat, NEW n \in Nat, o + n <= Len(script[f]),
         NEW acc \in Parse
  PROVE  /\ Reading(acc, f, o, 0) = acc
         /\ \A k \in 0 .. n : Reading(acc, f, o, k) \in Parse
         /\ \A k \in 1 .. n : Reading(acc, f, o, k) = Consume(Reading(acc, f, o, k - 1), script[f][o + k])
<1>1. script[f] \in Seq(Record) /\ Len(script[f]) \in Nat
  BY ScriptsAreTyped
<1>2. \A k : Reading(acc, f, o, k) = ReadTo(acc, script[f], o, k)
  BY DEF Reading, ReadTo
<1>3. ASSUME NEW k \in 0 .. n
      PROVE  /\ Reading(acc, f, o, 0) = acc /\ Reading(acc, f, o, k) \in Parse
             /\ o + k + 1 <= Len(script[f]) =>
                  Reading(acc, f, o, k + 1) = Consume(Reading(acc, f, o, k), script[f][o + k + 1])
  <2> DEFINE seq == script[f]
  <2>1. k \in Nat /\ o + k <= Len(seq) /\ seq \in Seq(Record)
    BY <1>1
  <2> HIDE DEF seq
  <2>2. /\ ReadTo(acc, seq, o, 0) = acc /\ ReadTo(acc, seq, o, k) \in Parse
        /\ o + k + 1 <= Len(seq) => ReadTo(acc, seq, o, k + 1) = Consume(ReadTo(acc, seq, o, k), seq[o + k + 1])
    BY <2>1, TailGrows
  <2>3. QED
    BY <1>2, <2>2 DEF seq
<1>4. Reading(acc, f, o, 0) = acc
  <2>1. 0 \in 0 .. n
    OBVIOUS
  <2>2. QED
    BY <1>3, <2>1
<1>5. ASSUME NEW k \in 1 .. n
      PROVE  Reading(acc, f, o, k) = Consume(Reading(acc, f, o, k - 1), script[f][o + k])
  <2>1. k - 1 \in 0 .. n /\ o + (k - 1) + 1 = o + k /\ (k - 1) + 1 = k /\ o + k <= Len(script[f])
    BY <1>1
  <2>2. o + (k - 1) + 1 <= Len(script[f]) =>
          Reading(acc, f, o, (k - 1) + 1) = Consume(Reading(acc, f, o, k - 1), script[f][o + (k - 1) + 1])
    BY <1>3, <2>1
  <2>3. QED
    BY <2>1, <2>2
<1>6. QED
  BY <1>3, <1>4, <1>5

\* What reading a tail does: the state follows the file, each key is remembered, and what the
\* new keys stand for is counted and found once.
LEMMA TailIsRead ==
  ASSUME script \in Scripts, NEW f \in Rollout, NEW o \in Nat, NEW n \in Nat, o + n <= Len(script[f]),
         NEW acc \in Parse, acc.state = Parsed(script[f], o).state
  PROVE  IsReadFrom(Reading(acc, f, o, n), acc, f, o, n) /\ (n = 0 => Reading(acc, f, o, n) = acc)
<1> DEFINE at(k) == Reading(acc, f, o, k)
           G == {k \in 0 .. n : IsReadFrom(at(k), acc, f, o, k)}
<1>1. /\ Len(script[f]) \in Nat /\ DOMAIN script[f] = 1 .. Len(script[f])
      /\ \A i \in DOMAIN script[f] : script[f][i] \in Record /\ script[f][i].requests \in SUBSET Requests
  BY ScriptsAreTyped
<1>2. /\ at(0) = acc /\ \A k \in 0 .. n : at(k) \in Parse
      /\ \A k \in 1 .. n : at(k) = Consume(at(k - 1), script[f][o + k])
  BY ReadingGrows
<1> HIDE DEF at
<1>3. 0 \in G
  <2>1. o + 0 = o /\ 0 \in 0 .. n /\ o + 1 .. o = {}
    OBVIOUS
  <2>2. KeysOf(f, o + 1, o) = {} /\ NewIn(f, o + 1, o, acc.keys) = {}
    BY <2>1 DEF KeysOf, NewIn
  <2>3. acc.tokens = acc.tokens + SumFunctionOnSet(Weight, {})
    BY SumOfNone DEF Parse
  <2>4. UNION ToSet(<<>>) = {} /\ Disjoint(<<>>)
    <3>1. DOMAIN <<>> = {}
      OBVIOUS
    <3>2. QED
      BY <3>1 DEF ToSet, Disjoint
  <2>5. IsReadFrom(at(0), acc, f, o, 0)
    BY <1>2, <2>1, <2>2, <2>3, <2>4 DEF IsReadFrom
  <2>6. QED
    BY <2>1, <2>5
<1>4. ASSUME NEW k \in 1 .. n, k - 1 \in G PROVE k \in G
  <2> DEFINE p == o + k
             from == o + 1
             keys == acc.keys
             was == at(k - 1)
             now == at(k)
             old == NewIn(f, from, p - 1, keys)
             new == NewIn(f, from, p, keys)
  <2>1. /\ p \in DOMAIN script[f] /\ from \in 1 .. p /\ o + (k - 1) = p - 1 /\ k \in 0 .. n
        /\ k - 1 \in 0 .. n
    BY <1>1
  <2>2. /\ was \in Parse /\ was.state = Parsed(script[f], p - 1).state
        /\ was.keys = keys \cup KeysOf(f, from, p - 1)
        /\ old \in SUBSET Requests /\ was.tokens = acc.tokens + SumFunctionOnSet(Weight, old)
        /\ acc.found = <<>> => UNION ToSet(was.found) = old /\ Disjoint(was.found)
    BY <1>4, <2>1 DEF IsReadFrom
  <2>3. acc.tokens \in Nat /\ was.found \in Seq(SUBSET Requests)
    BY <2>2 DEF Parse
  <2>4. now = Consume(was, script[f][p]) /\ now \in Parse
    BY <1>2, <2>1
  <2> HIDE DEF was, p, now, from, keys
  <2>5. RecordAdds(now, was, f, from, p, keys)
    BY <2>1, <2>2, <2>4, RecordIsRead
  <2>6. PICK more \in SUBSET Requests :
             /\ more \cap old = {} /\ new = old \cup more
             /\ now.tokens = was.tokens + SumFunctionOnSet(Weight, more)
             /\ now.found = Append(was.found, more) \/ (more = {} /\ now.found = was.found)
    BY <2>5 DEF RecordAdds, old, new
  <2> HIDE DEF old, new
  <2>7. now.tokens = acc.tokens + SumFunctionOnSet(Weight, new)
    <3>1. /\ SumFunctionOnSet(Weight, old) \in Nat /\ SumFunctionOnSet(Weight, more) \in Nat
          /\ old \cap more = {}
      BY <2>2, <2>6, WeightsAddUp
    <3>2. SumFunctionOnSet(Weight, old \cup more) = SumFunctionOnSet(Weight, old) + SumFunctionOnSet(Weight, more)
      BY <2>2, <2>6, <3>1, WeightsAddUp
    <3>3. QED
      BY <2>2, <2>3, <2>6, <3>1, <3>2
  <2>8. ASSUME acc.found = <<>> PROVE UNION ToSet(now.found) = new /\ Disjoint(now.found)
    <3>1. UNION ToSet(was.found) = old /\ Disjoint(was.found) /\ more \cap UNION ToSet(was.found) = {}
      BY <2>2, <2>6, <2>8
    <3> DEFINE all == Append(was.found, more)
    <3>2. UNION ToSet(all) = (UNION ToSet(was.found)) \cup more /\ Disjoint(all)
      BY <2>3, <3>1, OneMoreSet
    <3> HIDE DEF all
    <3>3. QED
      BY <2>6, <3>1, <3>2 DEF all
  <2>9. new \in SUBSET Requests
    BY <2>2, <2>6
  <2>10. now.state = Parsed(script[f], p).state /\ now.keys = keys \cup KeysOf(f, from, p)
    BY <2>5 DEF RecordAdds
  <2>11. IsReadFrom(now, acc, f, o, k)
    BY <2>4, <2>7, <2>8, <2>9, <2>10 DEF IsReadFrom, new, p, from, keys
  <2>12. QED
    BY <2>1, <2>11 DEF now
<1>5. n \in G
  <2>1. \A k \in 1 .. n : k - 1 \in G => k \in G
    BY <1>4
  <2> HIDE DEF G
  <2>2. n \in 0 .. n
    OBVIOUS
  <2>3. QED
    BY <1>3, <2>1, <2>2, Stepwise
<1>6. QED
  BY <1>2, <1>5 DEF at

Positions(upto) == upto \in [Rollout -> Nat] /\ \A f \in Rollout : upto[f] <= Len(script[f])
CountsUpTo(acc, upto) ==
    acc.keys = KeysUpTo(upto) /\ acc.tokens = SumFunctionOnSet(Weight, RequestsUpTo(upto))

\* What the ledger's requests are.
LEMMA RequestsAreThose ==
  ASSUME NEW l
  PROVE  RequestsIn(l) = RequestsUpTo(Offsets(l))
BY DEF RequestsIn, RequestsUpTo, RequestsOf, Offsets

\* A key that some records have tells their requests.
LEMMA KeysTell ==
  ASSUME script \in Scripts, NEW upto, Positions(upto), NEW f \in Rollout, NEW i \in DOMAIN script[f]
  PROVE  LET one == Increment(script[f], i)
             rec == script[f][i]
         IN  /\ one.keys \subseteq KeysUpTo(upto) => rec.requests \subseteq RequestsUpTo(upto)
             /\ ~(one.keys \subseteq KeysUpTo(upto)) => rec.requests \cap RequestsUpTo(upto) = {}
<1> DEFINE one == Increment(script[f], i)
           At(g, j) == Increment(script[g], j)
<1>1. \A g \in Rollout : \A j \in 1 .. upto[g] : j \in DOMAIN script[g]
  <2>1. \A g \in Rollout : DOMAIN script[g] = 1 .. Len(script[g]) /\ Len(script[g]) \in Nat
    BY ScriptsAreTyped
  <2>2. QED
    BY <2>1 DEF Positions
<1>2. \A g \in Rollout : \A j \in 1 .. upto[g] :
        /\ At(g, j).keys \subseteq KeysUpTo(upto) /\ script[g][j].requests \subseteq RequestsUpTo(upto)
  BY DEF KeysUpTo, KeysOf, RequestsUpTo, RequestsOf
<1>3. \A g \in Rollout : \A j \in 1 .. upto[g] :
        /\ one.keys = At(g, j).keys => script[f][i].requests = script[g][j].requests
        /\ one.keys # At(g, j).keys => script[f][i].requests \cap script[g][j].requests = {}
  <2>1. TAKE g \in Rollout
  <2>2. TAKE j \in 1 .. upto[g]
  <2>3. j \in DOMAIN script[g]
    BY <1>1
  <2>4. QED
    BY <2>3, RecordsAreTold
<1>4. one.keys = {} \/ \E k : one.keys = {k}
  BY ParsedIs
<1>5. \A g \in Rollout : \A j \in 1 .. upto[g] : At(g, j).keys = {} \/ \E k : At(g, j).keys = {k}
  <2>1. TAKE g \in Rollout
  <2>2. TAKE j \in 1 .. upto[g]
  <2>3. j \in DOMAIN script[g]
    BY <1>1
  <2>4. QED
    BY <2>3, ParsedIs
<1>6. ASSUME one.keys \subseteq KeysUpTo(upto) PROVE script[f][i].requests \subseteq RequestsUpTo(upto)
  <2>1. CASE one.keys = {}
    <3>1. script[f][i].requests = {}
      BY <2>1, RecordsAreTold
    <3>2. QED
      BY <3>1
  <2>2. CASE one.keys # {}
    <3>1. PICK k : one.keys = {k}
      BY <1>4, <2>2
    <3>2. PICK g \in Rollout : k \in KeysOf(g, 1, upto[g])
      BY <1>6, <3>1 DEF KeysUpTo
    <3>3. PICK j \in 1 .. upto[g] : k \in At(g, j).keys
      BY <3>2 DEF KeysOf
    <3>4. At(g, j).keys = one.keys
      BY <1>5, <3>1, <3>3
    <3>5. QED
      BY <1>2, <1>3, <3>4
  <2>3. QED
    BY <2>1, <2>2
<1>7. ASSUME ~(one.keys \subseteq KeysUpTo(upto)) PROVE script[f][i].requests \cap RequestsUpTo(upto) = {}
  <2>1. \A g \in Rollout : \A j \in 1 .. upto[g] : one.keys # At(g, j).keys
    BY <1>2, <1>7
  <2>2. QED
    BY <1>3, <2>1 DEF RequestsUpTo, RequestsOf
<1>8. QED
  BY <1>6, <1>7

TailIsCounted(acc, upto, f, n, t, more) ==
    LET new == NewIn(f, upto[f] + 1, upto[f] + n, acc.keys)
    IN  /\ IsReadFrom(t, acc, f, upto[f], n) /\ Positions(more) /\ CountsUpTo(t, more)
        /\ RequestsUpTo(more) = RequestsUpTo(upto) \cup new /\ new \cap RequestsUpTo(upto) = {}

\* Reading on in one file counts the requests that come with it, each once.
LEMMA TailCounts ==
  ASSUME script \in Scripts, NEW upto, Positions(upto), NEW f \in Rollout, NEW n \in Nat,
         upto[f] + n <= Len(script[f]), NEW acc \in Parse, CountsUpTo(acc, upto),
         acc.state = Parsed(script[f], upto[f]).state,
         NEW t, t = Reading(acc, f, upto[f], n), NEW more, more = [upto EXCEPT ![f] = upto[f] + n]
  PROVE  TailIsCounted(acc, upto, f, n, t, more)
<1> DEFINE o == upto[f]
           new == NewIn(f, o + 1, o + n, acc.keys)
           K == KeysUpTo(upto)
           R == RequestsUpTo(upto)
<1>1. o \in Nat /\ upto \in [Rollout -> Nat] /\ acc.keys = K /\ acc.tokens = SumFunctionOnSet(Weight, R)
  BY DEF Positions, CountsUpTo
<1>2. /\ Len(script[f]) \in Nat /\ DOMAIN script[f] = 1 .. Len(script[f])
      /\ \A i \in o + 1 .. o + n : i \in DOMAIN script[f]
  <2>1. Len(script[f]) \in Nat /\ DOMAIN script[f] = 1 .. Len(script[f])
    BY ScriptsAreTyped
  <2>2. QED
    BY <1>1, <2>1
<1>3. IsReadFrom(t, acc, f, o, n)
  BY <1>1, TailIsRead
<1>4. Positions(more) /\ more[f] = o + n /\ \A g \in Rollout \ {f} : more[g] = upto[g]
  BY <1>1 DEF Positions
<1>5. \A i \in 1 .. o + n : i \in 1 .. o \/ i \in o + 1 .. o + n
  BY <1>1
<1>6. 1 .. o \subseteq 1 .. o + n /\ o + 1 .. o + n \subseteq 1 .. o + n
  BY <1>1
<1>7. KeysOf(f, 1, o + n) = KeysOf(f, 1, o) \cup KeysOf(f, o + 1, o + n)
  BY <1>5, <1>6 DEF KeysOf
<1>8. RequestsOf(f, 1, o + n) = RequestsOf(f, 1, o) \cup RequestsOf(f, o + 1, o + n)
  BY <1>5, <1>6 DEF RequestsOf
<1>9. KeysUpTo(more) = K \cup KeysOf(f, o + 1, o + n)
  <2>1. \A x : x \in KeysUpTo(more) <=> x \in K \/ x \in KeysOf(f, o + 1, o + n)
    <3>1. TAKE x
    <3>2. x \in KeysUpTo(more) <=> \E g \in Rollout : x \in KeysOf(g, 1, more[g])
      BY DEF KeysUpTo
    <3>3. x \in K <=> \E g \in Rollout : x \in KeysOf(g, 1, upto[g])
      BY DEF KeysUpTo
    <3>4. \A g \in Rollout : x \in KeysOf(g, 1, more[g])
                             <=> x \in KeysOf(g, 1, upto[g]) \/ (g = f /\ x \in KeysOf(f, o + 1, o + n))
      BY <1>4, <1>7
    <3> HIDE DEF K
    <3>5. QED
      BY <3>2, <3>3, <3>4
  <2>2. QED
    BY <2>1
<1>10. RequestsUpTo(more) = R \cup RequestsOf(f, o + 1, o + n)
  <2>1. \A x : x \in RequestsUpTo(more) <=> x \in R \/ x \in RequestsOf(f, o + 1, o + n)
    <3>1. TAKE x
    <3>2. x \in RequestsUpTo(more) <=> \E g \in Rollout : x \in RequestsOf(g, 1, more[g])
      BY DEF RequestsUpTo
    <3>3. x \in R <=> \E g \in Rollout : x \in RequestsOf(g, 1, upto[g])
      BY DEF RequestsUpTo
    <3>4. \A g \in Rollout : x \in RequestsOf(g, 1, more[g])
                             <=> x \in RequestsOf(g, 1, upto[g]) \/ (g = f /\ x \in RequestsOf(f, o + 1, o + n))
      BY <1>4, <1>8
    <3> HIDE DEF R
    <3>5. QED
      BY <3>2, <3>3, <3>4
  <2>2. QED
    BY <2>1
<1>11. \A i \in o + 1 .. o + n :
         /\ Increment(script[f], i).keys \subseteq K => script[f][i].requests \subseteq R
         /\ ~(Increment(script[f], i).keys \subseteq K) => script[f][i].requests \cap R = {}
  <2>1. TAKE i \in o + 1 .. o + n
  <2>2. i \in DOMAIN script[f]
    BY <1>2
  <2>3. QED
    BY <2>2, KeysTell
<1>12. RequestsUpTo(more) = R \cup new /\ new \cap R = {}
  <2> HIDE DEF K, R, o
  <2>1. new \cap R = {}
    BY <1>1, <1>11 DEF NewIn
  <2>2. R \cup RequestsOf(f, o + 1, o + n) = R \cup new
    BY <1>1, <1>11 DEF NewIn, RequestsOf
  <2>3. QED
    BY <1>10, <2>1, <2>2
<1>13. CountsUpTo(t, more)
  <2>1. /\ t.keys = K \cup KeysOf(f, o + 1, o + n) /\ new \in SUBSET Requests
        /\ t.tokens = acc.tokens + SumFunctionOnSet(Weight, new)
    BY <1>1, <1>3 DEF IsReadFrom
  <2>2. R \in SUBSET Requests
    <3>1. \A g \in Rollout : \A j \in 1 .. upto[g] : script[g][j].requests \in SUBSET Requests
      <4>1. TAKE g \in Rollout
      <4>2. TAKE j \in 1 .. upto[g]
      <4>3. j \in DOMAIN script[g]
        <5>1. Len(script[g]) \in Nat /\ DOMAIN script[g] = 1 .. Len(script[g])
          BY ScriptsAreTyped
        <5>2. QED
          BY <5>1 DEF Positions
      <4>4. QED
        BY <4>3, ScriptsAreTyped
    <3>2. QED
      BY <3>1 DEF RequestsUpTo, RequestsOf
  <2> HIDE DEF new, R, K
  <2>3. SumFunctionOnSet(Weight, R \cup new) = SumFunctionOnSet(Weight, R) + SumFunctionOnSet(Weight, new)
    <3>1. R \cap new = {}
      BY <1>12
    <3>2. QED
      BY <2>1, <2>2, <3>1, WeightsAddUp
  <2>4. QED
    BY <1>1, <1>9, <1>12, <2>1, <2>3 DEF CountsUpTo
<1>14. QED
  BY <1>3, <1>4, <1>12, <1>13 DEF TailIsCounted

\* What the audit does with a file: it starts anew and keeps keys, tokens and what was found.
AuditStart == [state |-> <<>>, keys |-> {}, tokens |-> 0, found |-> <<>>]
AuditParse == [state : ParserState \cup {<<>>}, keys : SUBSET DedupKeys, tokens : Nat,
               found : Seq(SUBSET Requests)]
Restarted(acc, f) == [acc EXCEPT !.state = FreshState(f)]
ThroughFile(acc, f, l) == FoldLeft(Consume, Restarted(acc, f), SubSeq(script[f], 1, l.entry[f].offset))

\* The audit of one more file reads its captured prefix from a fresh state.
LEMMA FilesAreAudited ==
  ASSUME script \in Scripts, NEW l \in Ledger, ReadInOrder(l), NEW acc \in AuditParse, NEW f \in Rollout
  PROVE  /\ Restarted(acc, f) \in Parse /\ Restarted(acc, f).keys = acc.keys
         /\ Restarted(acc, f).tokens = acc.tokens /\ Restarted(acc, f).state = Parsed(script[f], 0).state
         /\ l.entry[f].offset \in Nat /\ l.entry[f].offset <= Len(script[f])
         /\ ThroughFile(acc, f, l) = Reading(Restarted(acc, f), f, 0, l.entry[f].offset)
         /\ ThroughFile(acc, f, l) \in Parse /\ ThroughFile(acc, f, l) \in AuditParse
<1> DEFINE from == Restarted(acc, f)
           n == l.entry[f].offset
<1>1. FreshState(f) \in ParserState /\ Parsed(script[f], 0).state = FreshState(f)
  BY ScriptsAreTyped, ParsedIs DEF FreshState
<1>2. /\ from \in Parse /\ from.keys = acc.keys /\ from.tokens = acc.tokens
      /\ from.state = Parsed(script[f], 0).state
  BY <1>1 DEF Restarted, AuditParse, Parse
<1>3. n \in Nat /\ n <= Len(script[f])
  BY DEF Ledger, ReadInOrder
<1> HIDE DEF from, n
<1>4. FoldLeft(Consume, from, SubSeq(script[f], 1, n)) = Reading(from, f, 0, n)
  <2>1. 0 + 1 = 1 /\ 0 + n = n
    BY <1>3
  <2>2. QED
    BY <2>1 DEF Reading
<1>5. Reading(from, f, 0, n) \in Parse
  <2>1. 0 \in Nat /\ 0 + n <= Len(script[f]) /\ n \in 0 .. n
    BY <1>3
  <2>2. QED
    BY <1>2, <1>3, <2>1, ReadingGrows
<1>6. Parse \subseteq AuditParse
  BY DEF Parse, AuditParse
<1>7. QED
  BY <1>2, <1>3, <1>4, <1>5, <1>6 DEF ThroughFile, from, n

\* The audit goes through the files one after the other.
LEMMA AuditSteps ==
  ASSUME script \in Scripts, NEW l \in Ledger, ReadInOrder(l)
  PROVE  \E h : /\ h[0] = AuditStart
                /\ \A k \in 0 .. Cardinality(Rollout) : h[k] \in AuditParse
                /\ \A k \in 1 .. Cardinality(Rollout) : h[k] = ThroughFile(h[k - 1], SetToSeq(Rollout)[k], l)
                /\ Audit(l) = h[Cardinality(Rollout)]
<1> DEFINE order == SetToSeq(Rollout)
           n == Cardinality(Rollout)
           D == DOMAIN order
           step == [x \in AuditParse \X Rollout |-> ThroughFile(x[1], x[2], l)]
           Folds(g) == g = [s \in SUBSET D |-> IF s = {} THEN AuditStart
                                               ELSE ThroughFile(g[s \ {Max(s)}], order[Max(s)], l)]
           h == CHOOSE g : Folds(g)
<1>1. Audit(l) = h[D]
  BY DEF Audit, FoldLeft, MapThenFoldSet, ThroughFile, Restarted, AuditStart
<1>2. n \in Nat /\ order \in [1 .. n -> Rollout]
  BY CodexAssumption, EachOnce
<1> HIDE DEF order, n
<1>3. D = 1 .. n /\ order \in Seq(Rollout) /\ \A i \in D : order[i] \in Rollout
  BY <1>2
<1>4. \A x \in AuditParse, f \in Rollout : ThroughFile(x, f, l) \in AuditParse
  BY FilesAreAudited
<1>5. /\ step \in [AuditParse \X Rollout -> AuditParse]
      /\ \A x \in AuditParse, f \in Rollout : step[<<x, f>>] = ThroughFile(x, f, l)
  <2>1. step \in [AuditParse \X Rollout -> AuditParse]
    BY <1>4
  <2>2. ASSUME NEW x \in AuditParse, NEW f \in Rollout PROVE step[<<x, f>>] = ThroughFile(x, f, l)
    BY <2>1
  <2>3. QED
    BY <2>1, <2>2
<1>6. AuditStart \in AuditParse
  <2>1. <<>> \in Seq(SUBSET Requests)
    OBVIOUS
  <2>2. QED
    BY <2>1 DEF AuditStart, AuditParse
<1> HIDE DEF step
<1>7. PICK g : FoldsAll(step, AuditStart, order, AuditParse, g)
  BY <1>3, <1>5, <1>6, FoldExists
<1>8. ASSUME NEW s \in SUBSET D, s # {} PROVE g[s] = ThroughFile(g[s \ {Max(s)}], order[Max(s)], l)
  <2>1. Max(s) \in s
    BY <1>2, <1>3, <1>8, LastPosition
  <2>2. g[s \ {Max(s)}] \in AuditParse /\ order[Max(s)] \in Rollout
    BY <1>3, <1>7, <2>1 DEF FoldsAll
  <2>3. QED
    BY <1>5, <1>7, <1>8, <2>2 DEF FoldsAll
<1>9. Folds(h)
  <2>1. Folds(g)
    BY <1>7, <1>8 DEF FoldsAll
  <2>2. QED
    BY <2>1
<1> HIDE DEF h
<1>10. h[{}] = AuditStart /\ \A k \in 1 .. n : h[1 .. k] = ThroughFile(h[1 .. (k - 1)], order[k], l)
  <2>1. h[{}] = AuditStart
    BY <1>9
  <2>2. ASSUME NEW k \in 1 .. n PROVE h[1 .. k] = ThroughFile(h[1 .. (k - 1)], order[k], l)
    <3> DEFINE s == 1 .. k
    <3>1. s \in SUBSET D /\ s # {} /\ Max(s) = k /\ s \ {k} = 1 .. (k - 1)
      BY <1>2, <1>3, PrefixEnds
    <3> HIDE DEF s
    <3>2. h[s] = ThroughFile(h[s \ {Max(s)}], order[Max(s)], l)
      BY <1>9, <3>1
    <3>3. QED
      BY <3>1, <3>2 DEF s
  <2>3. QED
    BY <2>1, <2>2
<1> DEFINE at == [k \in 0 .. n |-> h[1 .. k]]
           G == {k \in 0 .. n : at[k] \in AuditParse}
<1>11. at[0] = AuditStart /\ \A k \in 1 .. n : at[k] = ThroughFile(at[k - 1], order[k], l)
  <2>1. 1 .. 0 = {} /\ 0 \in 0 .. n /\ \A k \in 1 .. n : k - 1 \in 0 .. n /\ k \in 0 .. n
    BY <1>2
  <2>2. QED
    BY <1>10, <2>1
<1> HIDE DEF at
<1>12. \A k \in 0 .. n : k \in G
  <2>1. 0 \in G
    BY <1>2, <1>6, <1>11
  <2>2. \A k \in 1 .. n : k - 1 \in G => k \in G
    BY <1>2, <1>3, <1>4, <1>11
  <2> HIDE DEF G
  <2>3. QED
    BY <1>2, <2>1, <2>2, Stepwise
<1>13. at[n] = Audit(l)
  <2>1. n \in 0 .. n
    BY <1>2
  <2>2. QED
    BY <1>1, <1>2, <1>3, <2>1 DEF at
<1>14. QED
  BY <1>11, <1>12, <1>13 DEF order, n

\* What the audit computes from the files is what their requests weigh.
LEMMA AuditCounts ==
  ASSUME script \in Scripts, NEW l \in Ledger, ReadInOrder(l)
  PROVE  Audit(l).tokens = SumFunctionOnSet(Weight, RequestsIn(l))
<1> DEFINE order == SetToSeq(Rollout)
           n == Cardinality(Rollout)
           off == Offsets(l)
           upto(k) == [f \in Rollout |-> IF \E j \in 1 .. k : order[j] = f THEN off[f] ELSE 0]
<1>1. /\ n \in Nat /\ \A i \in 1 .. n : order[i] \in Rollout
      /\ \A i, j \in 1 .. n : order[i] = order[j] => i = j
      /\ \A f \in Rollout : \E i \in 1 .. n : order[i] = f
  BY CodexAssumption, EachOnce
<1>2. PICK at : /\ at[0] = AuditStart /\ \A k \in 0 .. n : at[k] \in AuditParse
                /\ \A k \in 1 .. n : at[k] = ThroughFile(at[k - 1], order[k], l)
                /\ Audit(l) = at[n]
  BY AuditSteps
<1> HIDE DEF order, n
<1>3. \A f \in Rollout : off[f] \in Nat /\ off[f] <= Len(script[f]) /\ off[f] = l.entry[f].offset
                         /\ 0 <= Len(script[f])
  <2>1. \A f \in Rollout : Len(script[f]) \in Nat
    BY ScriptsAreTyped
  <2>2. QED
    BY <2>1 DEF Ledger, ReadInOrder, Offsets
<1> HIDE DEF off
<1>4. \A k \in 0 .. n : Positions(upto(k))
  BY <1>3 DEF Positions
<1> DEFINE G == {k \in 0 .. n : CountsUpTo(at[k], upto(k))}
<1>5. 0 \in G
  <2>1. 0 \in 0 .. n /\ 1 .. 0 = {}
    BY <1>1
  <2>2. \A f \in Rollout : upto(0)[f] = 0
    BY <2>1
  <2> HIDE DEF upto
  <2>3. KeysUpTo(upto(0)) = {} /\ RequestsUpTo(upto(0)) = {}
    BY <2>1, <2>2 DEF KeysUpTo, KeysOf, RequestsUpTo, RequestsOf
  <2>4. CountsUpTo(at[0], upto(0))
    BY <1>2, <2>3, SumOfNone DEF CountsUpTo, AuditStart
  <2>5. QED
    BY <2>1, <2>4
<1>6. ASSUME NEW k \in 1 .. n, k - 1 \in G PROVE k \in G
  <2> DEFINE f == order[k]
             was == upto(k - 1)
             now == upto(k)
             from == Restarted(at[k - 1], f)
             m == l.entry[f].offset
  <2>1. /\ f \in Rollout /\ k - 1 \in 0 .. n /\ k \in 0 .. n /\ at[k - 1] \in AuditParse
        /\ CountsUpTo(at[k - 1], was)
    BY <1>1, <1>2, <1>6
  <2>2. /\ from \in Parse /\ from.keys = at[k - 1].keys /\ from.tokens = at[k - 1].tokens
        /\ from.state = Parsed(script[f], 0).state /\ m \in Nat /\ m <= Len(script[f])
        /\ at[k] = Reading(from, f, 0, m)
    <3> HIDE DEF f
    <3>1. at[k] = ThroughFile(at[k - 1], f, l)
      BY <1>2 DEF f
    <3>2. QED
      BY <2>1, <3>1, FilesAreAudited
  <2>3. was[f] = 0 /\ now = [was EXCEPT ![f] = was[f] + m]
    <3>1. \A j \in 1 .. k - 1 : order[j] # f
      BY <1>1
    <3>2. was[f] = 0
      BY <2>1, <3>1
    <3>3. now[f] = 0 + m
      BY <1>1, <1>3, <2>1, <2>2
    <3>4. \A g \in Rollout \ {f} : now[g] = was[g]
      <4>1. TAKE g \in Rollout \ {f}
      <4>2. (\E j \in 1 .. k : order[j] = g) <=> (\E j \in 1 .. k - 1 : order[j] = g)
        BY <1>1
      <4>3. QED
        BY <4>2
    <3>5. QED
      BY <2>1, <3>2, <3>3, <3>4
  <2> HIDE DEF was, now, from, m, f
  <2>4. Positions(was) /\ CountsUpTo(from, was)
    BY <1>4, <2>1, <2>2 DEF CountsUpTo, was
  <2>5. was[f] + m <= Len(script[f]) /\ from.state = Parsed(script[f], was[f]).state
        /\ at[k] = Reading(from, f, was[f], m)
    BY <2>2, <2>3
  <2>6. TailIsCounted(from, was, f, m, at[k], now)
    BY <2>1, <2>2, <2>3, <2>4, <2>5, TailCounts
  <2>7. QED
    BY <2>1, <2>6 DEF TailIsCounted, now
<1>7. n \in G
  <2>1. \A k \in 1 .. n : k - 1 \in G => k \in G
    BY <1>6
  <2> HIDE DEF G
  <2>2. n \in 0 .. n
    BY <1>1
  <2>3. QED
    BY <1>1, <1>5, <2>1, <2>2, Stepwise
<1>8. upto(n) = off
  <2>1. \A f \in Rollout : upto(n)[f] = off[f]
    BY <1>1
  <2>2. QED
    BY <2>1 DEF off, Offsets
<1>9. QED
  BY <1>2, <1>7, <1>8, RequestsAreThose DEF CountsUpTo, off

\* Nothing changes what the files tell.
LEMMA ScriptStays ==
  ASSUME UNCHANGED script, NEW l, NEW keys
  PROVE  /\ ReadInOrder(l)' <=> ReadInOrder(l)
         /\ Counts(l)' <=> Counts(l)
         /\ ToldBy(keys)' = ToldBy(keys) /\ RequestsIn(l)' = RequestsIn(l)
<1>1. ReadInOrder(l)' <=> ReadInOrder(l)
  BY DEF ReadInOrder
<1>2. RequestsIn(l)' = RequestsIn(l)
  BY DEF RequestsIn
<1>3. KeysIn(l)' = KeysIn(l)
  BY DEF KeysIn, KeysUpTo, KeysOf, Offsets
<1>4. ToldBy(keys)' = ToldBy(keys)
  BY DEF ToldBy
<1>5. QED
  BY <1>1, <1>2, <1>3, <1>4 DEF Counts

\* The least of two numbers.
LEMMA LeastOfTwo ==
  ASSUME NEW a \in Int, NEW b \in Int
  PROVE  Min({a, b}) \in Int /\ Min({a, b}) <= a /\ Min({a, b}) <= b /\ Min({a, b}) \in {a, b}
<1>1. \E x \in {a, b} : \A y \in {a, b} : x =< y
  <2>1. CASE a <= b
    BY <2>1
  <2>2. CASE ~(a <= b)
    BY <2>2
  <2>3. QED
    BY <2>1, <2>2
<1>2. Min({a, b}) \in {a, b} /\ \A y \in {a, b} : Min({a, b}) =< y
  BY <1>1 DEF Min
<1>3. QED
  BY <1>2

\* The fields of the state.
LEMMA FieldsAreTyped ==
  ASSUME LedgerTypes, NEW f \in Rollout
  PROVE  /\ script[f] \in Seq(Record) /\ Len(script[f]) \in Nat
         /\ Offset(f) \in Nat /\ ledger.entry[f].state \in ParserState
         /\ ledger.keys \in SUBSET DedupKeys /\ ledger.tokens \in Nat
         /\ visible[f] \in Nat /\ CompleteLines(f) \in Nat /\ CompleteLines(f) <= Len(script[f])
         /\ DOMAIN scan.sizes \in SUBSET Rollout /\ scan.left \in Nat /\ scan.read \in Nat
         /\ scan.found \in Seq(SUBSET Requests)
         /\ f \in DOMAIN scan.sizes => scan.sizes[f] \in Nat
<1>1. script[f] \in Seq(Record) /\ Len(script[f]) \in Nat
  BY ScriptsAreTyped DEF LedgerTypes
<1>2. ledger \in Ledger /\ scan \in Scan
  BY DEF LedgerTypes
<1>3. /\ Offset(f) \in Nat /\ ledger.entry[f].state \in ParserState
      /\ ledger.keys \in SUBSET DedupKeys /\ ledger.tokens \in Nat
  BY <1>2 DEF Ledger, Offset
<1>4. /\ scan.left \in Nat /\ scan.read \in Nat /\ scan.found \in Seq(SUBSET Requests)
      /\ \E s \in SUBSET Rollout : scan.sizes \in [s -> Nat]
  BY <1>2 DEF Scan
<1>5. visible[f] \in Nat /\ written[f] \in Nat /\ visible[f] <= written[f] /\ written[f] <= 2 * Len(script[f])
  BY DEF LedgerTypes
<1>6. CompleteLines(f) \in Nat /\ CompleteLines(f) <= Len(script[f])
  BY <1>1, <1>5 DEF CompleteLines
<1>7. DOMAIN scan.sizes \in SUBSET Rollout /\ (f \in DOMAIN scan.sizes => scan.sizes[f] \in Nat)
  BY <1>4
<1>8. QED
  BY <1>1, <1>3, <1>4, <1>5, <1>6, <1>7

\* How far a scan reads: never past the records that are there.
LEMMA QuotaIsBounded ==
  ASSUME LedgerTypes, NEW f \in Rollout, f \in DOMAIN scan.sizes, ~Skipped(f)
  PROVE  /\ Quota(f) \in Int /\ Offset(f) + Quota(f) <= Len(script[f])
         /\ scan.mode = "update" => Quota(f) <= scan.left
         /\ CompleteLines(f) >= Offset(f) => Quota(f) \in Nat
<1> DEFINE a == CompleteLines(f) - Offset(f)
           b == IF scan.mode = "update" THEN scan.left ELSE (scan.sizes[f] \div 2) - Offset(f)
<1>1. /\ Offset(f) \in Nat /\ CompleteLines(f) \in Nat /\ CompleteLines(f) <= Len(script[f])
      /\ Len(script[f]) \in Nat /\ scan.left \in Nat /\ scan.sizes[f] \in Nat
  BY FieldsAreTyped
<1>2. scan.sizes[f] \div 2 \in Nat /\ scan.sizes[f] \div 2 >= Offset(f)
  BY <1>1 DEF Skipped
<1>3. a \in Int /\ b \in Nat
  BY <1>1, <1>2
<1>4. Quota(f) = Min({a, b})
  BY DEF Quota
<1> HIDE DEF a, b
<1>5. Quota(f) \in Int /\ Quota(f) <= a /\ Quota(f) <= b /\ Quota(f) \in {a, b}
  BY <1>3, <1>4, LeastOfTwo
<1>6. scan.mode = "update" => b = scan.left
  BY DEF b
<1>7. a = CompleteLines(f) - Offset(f)
  BY DEF a
<1>8. QED
  BY <1>1, <1>3, <1>5, <1>6, <1>7

\* What was known when a file's tail is read.
EntryKnown(f) == [state |-> ledger.entry[f].state, keys |-> ledger.keys, tokens |-> ledger.tokens, found |-> <<>>]

\* The tail of a file is read from what its entry and the ledger hold.
LEMMA TailIsReading ==
  ASSUME LedgerTypes, ReadInOrder(ledger), NEW f \in Rollout, NEW n
  PROVE  /\ ReadTail(f, n) = Reading(EntryKnown(f), f, Offset(f), n)
         /\ EntryKnown(f) \in Parse /\ EntryKnown(f).state = Parsed(script[f], Offset(f)).state
         /\ EntryKnown(f).keys = ledger.keys /\ EntryKnown(f).tokens = ledger.tokens /\ EntryKnown(f).found = <<>>
<1>1. ReadTail(f, n) = Reading(EntryKnown(f), f, Offset(f), n)
  BY DEF ReadTail, Reading, EntryKnown
<1>2. ledger.entry[f].state \in ParserState /\ ledger.keys \in SUBSET DedupKeys /\ ledger.tokens \in Nat
  BY FieldsAreTyped
<1>3. EntryKnown(f) \in Parse
  <2>1. <<>> \in Seq(SUBSET Requests)
    OBVIOUS
  <2>2. QED
    BY <1>2, <2>1 DEF EntryKnown, Parse
<1>4. QED
  BY <1>1, <1>3 DEF EntryKnown, ReadInOrder, Offset

\* What more keys tell.
TellsNew(f, o, n, keys, more) ==
    /\ ToldBy(keys) \subseteq ToldBy(more)
    /\ NewIn(f, o + 1, o + n, keys) \cap ToldBy(keys) = {}
    /\ NewIn(f, o + 1, o + n, keys) \subseteq ToldBy(more)

\* More keys tell more requests; the records whose keys are new tell requests that are new.
LEMMA NewAreTold ==
  ASSUME script \in Scripts, NEW f \in Rollout, NEW o \in Nat, NEW n \in Nat, o + n <= Len(script[f]),
         NEW keys, NEW more, more = keys \cup KeysOf(f, o + 1, o + n)
  PROVE  TellsNew(f, o, n, keys, more)
<1>1. Len(script[f]) \in Nat /\ DOMAIN script[f] = 1 .. Len(script[f])
      /\ \A i \in DOMAIN script[f] : script[f][i].requests \in SUBSET Requests
  BY ScriptsAreTyped
<1>2. \A i \in o + 1 .. o + n : i \in DOMAIN script[f]
  BY <1>1
<1>3. ToldBy(keys) \subseteq ToldBy(more)
  BY DEF ToldBy
<1>4. ASSUME NEW r \in NewIn(f, o + 1, o + n, keys)
      PROVE  r \notin ToldBy(keys) /\ r \in ToldBy(more)
  <2>1. PICK i \in o + 1 .. o + n : ~(Increment(script[f], i).keys \subseteq keys) /\ r \in script[f][i].requests
    BY <1>4 DEF NewIn
  <2>2. i \in DOMAIN script[f] /\ r \in Requests
    BY <1>1, <1>2, <2>1
  <2>3. Increment(script[f], i).keys \subseteq more
    BY DEF KeysOf
  <2>4. r \in ToldBy(more)
    BY <2>1, <2>2, <2>3 DEF ToldBy
  <2>5. ASSUME NEW g \in Rollout, NEW j \in DOMAIN script[g], r \in script[g][j].requests
        PROVE  ~(Increment(script[g], j).keys \subseteq keys)
    <3>1. Increment(script[f], i).keys # Increment(script[g], j).keys =>
            script[f][i].requests \cap script[g][j].requests = {}
      BY <2>2, RecordsAreTold
    <3>2. QED
      BY <2>1, <2>5, <3>1
  <2>6. r \notin ToldBy(keys)
    BY <2>5 DEF ToldBy
  <2>7. QED
    BY <2>4, <2>6
<1>5. QED
  BY <1>3, <1>4 DEF TellsNew

\* Two sequences of sets that have nothing in common.
LEMMA BothDisjoint ==
  ASSUME NEW a \in Seq(SUBSET Requests), NEW b \in Seq(SUBSET Requests), Disjoint(a), Disjoint(b),
         (UNION ToSet(a)) \cap (UNION ToSet(b)) = {}
  PROVE  /\ a \o b \in Seq(SUBSET Requests) /\ Disjoint(a \o b)
         /\ UNION ToSet(a \o b) = (UNION ToSet(a)) \cup (UNION ToSet(b))
<1> DEFINE all == a \o b
           m == Len(a)
           n == Len(b)
<1>1. /\ m \in Nat /\ n \in Nat /\ all \in Seq(SUBSET Requests) /\ DOMAIN all = 1 .. m + n
      /\ DOMAIN a = 1 .. m /\ DOMAIN b = 1 .. n
      /\ \A i \in 1 .. m + n : all[i] = IF i <= m THEN a[i] ELSE b[i - m]
  OBVIOUS
<1> HIDE DEF all, m, n
<1>2. \A i \in 1 .. m + n : (i <= m /\ i \in 1 .. m /\ all[i] = a[i])
                            \/ (i > m /\ i - m \in 1 .. n /\ all[i] = b[i - m])
  BY <1>1
<1>3. \A i \in 1 .. m, j \in 1 .. n : a[i] \cap b[j] = {}
  BY <1>1 DEF ToSet
<1>4. \A i, j \in 1 .. m : i # j => a[i] \cap a[j] = {}
  BY <1>1 DEF Disjoint
<1>5. \A i, j \in 1 .. n : i # j => b[i] \cap b[j] = {}
  BY <1>1 DEF Disjoint
<1>6. ASSUME NEW i \in 1 .. m + n, NEW j \in 1 .. m + n, i # j PROVE all[i] \cap all[j] = {}
  <2>1. CASE i <= m /\ j <= m
    BY <1>1, <1>2, <1>4, <1>6, <2>1
  <2>2. CASE i > m /\ j > m
    <3>1. i - m \in 1 .. n /\ j - m \in 1 .. n /\ i - m # j - m /\ all[i] = b[i - m] /\ all[j] = b[j - m]
      BY <1>1, <1>2, <1>6, <2>2
    <3>2. QED
      BY <1>5, <3>1
  <2>3. CASE i <= m /\ j > m
    <3>1. i \in 1 .. m /\ j - m \in 1 .. n /\ all[i] = a[i] /\ all[j] = b[j - m]
      BY <1>1, <1>2, <2>3
    <3>2. QED
      BY <1>3, <3>1
  <2>4. CASE i > m /\ j <= m
    <3>1. j \in 1 .. m /\ i - m \in 1 .. n /\ all[j] = a[j] /\ all[i] = b[i - m]
      BY <1>1, <1>2, <2>4
    <3>2. QED
      BY <1>3, <3>1
  <2>5. QED
    BY <1>1, <2>1, <2>2, <2>3, <2>4
<1>7. \A x : x \in UNION ToSet(all) <=> x \in UNION ToSet(a) \/ x \in UNION ToSet(b)
  <2>1. TAKE x
  <2>2. ASSUME x \in UNION ToSet(all) PROVE x \in UNION ToSet(a) \/ x \in UNION ToSet(b)
    <3>1. PICK i \in 1 .. m + n : x \in all[i]
      BY <1>1, <2>2 DEF ToSet
    <3>2. QED
      BY <1>1, <1>2, <3>1 DEF ToSet
  <2>3. ASSUME x \in UNION ToSet(a) PROVE x \in UNION ToSet(all)
    <3>1. PICK i \in 1 .. m : x \in a[i]
      BY <1>1, <2>3 DEF ToSet
    <3>2. i \in 1 .. m + n /\ all[i] = a[i]
      BY <1>1
    <3>3. QED
      BY <1>1, <3>1, <3>2 DEF ToSet
  <2>4. ASSUME x \in UNION ToSet(b) PROVE x \in UNION ToSet(all)
    <3>1. PICK i \in 1 .. n : x \in b[i]
      BY <1>1, <2>4 DEF ToSet
    <3>2. m + i \in 1 .. m + n /\ all[m + i] = b[i]
      BY <1>1
    <3>3. QED
      BY <1>1, <3>1, <3>2 DEF ToSet
  <2>5. QED
    BY <2>2, <2>3, <2>4
<1>8. Disjoint(all)
  BY <1>1, <1>6 DEF Disjoint
<1>9. QED
  BY <1>1, <1>7, <1>8 DEF all

\* What reading a file does to the ledger and to the scan.
Ingested(f, n, more) ==
    /\ n \in Nat /\ more \in Seq(SUBSET Requests) /\ Disjoint(more) /\ (n = 0 => more = <<>>)
    /\ scan.mode = "update" => n <= scan.left
    /\ scan' = [scan EXCEPT !.sizes = Visited(f), !.read = scan.read + n, !.found = scan.found \o more,
                            !.left = IF scan.mode = "update" THEN scan.left - n ELSE scan.left]
    /\ ledger' \in Ledger /\ ledger'.rebuilt = ledger.rebuilt /\ ReadInOrder(ledger')
    /\ ToldBy(ledger.keys) \subseteq ToldBy(ledger'.keys)
    /\ (UNION ToSet(more)) \cap ToldBy(ledger.keys) = {}
    /\ (UNION ToSet(more)) \subseteq ToldBy(ledger'.keys)
    /\ Counts(ledger) => Counts(ledger') /\ RequestsIn(ledger') = RequestsIn(ledger) \cup UNION ToSet(more)

\* Ingesting a file is reading some records of it.
LEMMA IngestReads ==
  ASSUME LedgerTypes, ReadInOrder(ledger), NEW f \in Rollout, IngestFile(f)
  PROVE  \E n, more : Ingested(f, n, more)
<1> DEFINE n == Quota(f)
           o == Offset(f)
           from == EntryKnown(f)
           t == ReadTail(f, n)
           new == NewIn(f, o + 1, o + n, ledger.keys)
<1>1. /\ codexPc = "scan" /\ f \in DOMAIN scan.sizes /\ ~Skipped(f) /\ CompleteLines(f) >= Offset(f)
      /\ ledger' = [ledger EXCEPT !.entry[f] = [offset |-> @.offset + n, state |-> t.state],
                                  !.keys = t.keys, !.tokens = t.tokens]
      /\ scan' = [scan EXCEPT !.sizes = Visited(f), !.read = @ + n, !.found = @ \o t.found,
                              !.left = IF scan.mode = "update" THEN @ - n ELSE @]
  BY DEF IngestFile, Visit
<1>2. /\ n \in Nat /\ o \in Nat /\ o + n <= Len(script[f]) /\ Len(script[f]) \in Nat
      /\ scan.mode = "update" => n <= scan.left
  BY <1>1, QuotaIsBounded, FieldsAreTyped
<1>3. script \in Scripts /\ ledger \in Ledger /\ scan \in Scan
  BY DEF LedgerTypes
<1>4. /\ t = Reading(from, f, o, n) /\ from \in Parse /\ from.state = Parsed(script[f], o).state
      /\ from.keys = ledger.keys /\ from.tokens = ledger.tokens /\ from.found = <<>>
  BY TailIsReading
<1> HIDE DEF n, o, from, t
<1>5. IsReadFrom(t, from, f, o, n) /\ (n = 0 => t = from)
  BY <1>2, <1>3, <1>4, TailIsRead
<1>6. /\ t \in Parse /\ t.state = Parsed(script[f], o + n).state
      /\ t.keys = ledger.keys \cup KeysOf(f, o + 1, o + n)
      /\ new \in SUBSET Requests /\ UNION ToSet(t.found) = new /\ Disjoint(t.found)
      /\ n = 0 => t.found = <<>>
  BY <1>4, <1>5 DEF IsReadFrom
<1>7. t.state \in ParserState /\ t.keys \in SUBSET DedupKeys /\ t.tokens \in Nat /\ t.found \in Seq(SUBSET Requests)
  BY <1>6 DEF Parse
<1>8. /\ ledger.entry \in [Rollout -> [offset : Nat, state : ParserState]]
      /\ ledger = [entry |-> ledger.entry, keys |-> ledger.keys, tokens |-> ledger.tokens, rebuilt |-> ledger.rebuilt]
      /\ ledger.rebuilt \in BOOLEAN /\ o = ledger.entry[f].offset
  BY <1>3 DEF Ledger, Offset, o
<1> DEFINE entry == [ledger.entry EXCEPT ![f] = [offset |-> o + n, state |-> t.state]]
<1>9. /\ entry \in [Rollout -> [offset : Nat, state : ParserState]]
      /\ entry[f] = [offset |-> o + n, state |-> t.state]
      /\ \A g \in Rollout \ {f} : entry[g] = ledger.entry[g]
  BY <1>2, <1>7, <1>8
<1>10. ledger' = [entry |-> entry, keys |-> t.keys, tokens |-> t.tokens, rebuilt |-> ledger.rebuilt]
  BY <1>1, <1>8
<1> HIDE DEF entry
<1>11. /\ ledger' \in Ledger /\ ledger'.entry = entry /\ ledger'.keys = t.keys /\ ledger'.tokens = t.tokens
       /\ ledger'.rebuilt = ledger.rebuilt
  BY <1>7, <1>8, <1>9, <1>10 DEF Ledger
<1>12. ReadInOrder(ledger')
  BY <1>2, <1>6, <1>9, <1>11 DEF ReadInOrder
<1>13. scan' = [scan EXCEPT !.sizes = Visited(f), !.read = scan.read + n, !.found = scan.found \o t.found,
                            !.left = IF scan.mode = "update" THEN scan.left - n ELSE scan.left]
  BY <1>1
<1>14. /\ ToldBy(ledger.keys) \subseteq ToldBy(t.keys) /\ new \cap ToldBy(ledger.keys) = {}
       /\ new \subseteq ToldBy(t.keys)
  <2> DEFINE keys == ledger.keys
             all == t.keys
  <2>1. all = keys \cup KeysOf(f, o + 1, o + n)
    BY <1>6
  <2> HIDE DEF keys, all
  <2>2. TellsNew(f, o, n, keys, all)
    BY <1>2, <1>3, <2>1, NewAreTold
  <2>3. QED
    BY <2>2 DEF TellsNew, keys, all
<1>15. ASSUME Counts(ledger)
       PROVE  Counts(ledger') /\ RequestsIn(ledger') = RequestsIn(ledger) \cup new
  <2> DEFINE upto == Offsets(ledger)
             more == Offsets(ledger')
  <2>1. Positions(upto) /\ upto[f] = o
    BY <1>8 DEF Positions, Offsets, ReadInOrder
  <2>2. more = [upto EXCEPT ![f] = upto[f] + n]
    <3>1. more[f] = upto[f] + n /\ \A g \in Rollout \ {f} : more[g] = upto[g]
      BY <1>8, <1>9, <1>11 DEF Offsets
    <3>2. upto = [g \in Rollout |-> upto[g]] /\ more = [g \in Rollout |-> more[g]]
      BY DEF Offsets
    <3> HIDE DEF upto, more
    <3>3. QED
      BY <3>1, <3>2
  <2>3. CountsUpTo(from, upto)
    BY <1>4, <1>15, RequestsAreThose DEF Counts, CountsUpTo, KeysIn
  <2> HIDE DEF upto, more
  <2>4. t = Reading(from, f, upto[f], n) /\ from.state = Parsed(script[f], upto[f]).state
        /\ upto[f] + n <= Len(script[f])
    BY <1>2, <1>4, <2>1
  <2>5. TailIsCounted(from, upto, f, n, t, more)
    BY <1>2, <1>3, <1>4, <2>1, <2>2, <2>3, <2>4, TailCounts
  <2>6. CountsUpTo(t, more) /\ RequestsUpTo(more) = RequestsUpTo(upto) \cup new
    BY <1>4, <2>1, <2>5 DEF TailIsCounted
  <2>7. RequestsIn(ledger') = RequestsUpTo(more) /\ RequestsIn(ledger) = RequestsUpTo(upto)
    BY RequestsAreThose DEF upto, more
  <2>8. Counts(ledger')
    BY <1>11, <2>6, <2>7 DEF Counts, CountsUpTo, KeysIn, more
  <2>9. QED
    BY <2>6, <2>7, <2>8
<1>16. Ingested(f, n, t.found)
  <2> HIDE DEF new
  <2>1. QED
    BY <1>2, <1>6, <1>7, <1>11, <1>12, <1>13, <1>14, <1>15 DEF Ingested
<1>17. QED
  BY <1>16

\* The sizes that are left to visit.
LEMMA VisitedIsTyped ==
  ASSUME LedgerTypes, NEW f \in Rollout
  PROVE  Visited(f) \in UNION {[s -> Nat] : s \in SUBSET Rollout}
<1>1. PICK s \in SUBSET Rollout : scan.sizes \in [s -> Nat]
  BY DEF LedgerTypes, Scan
<1>2. Visited(f) \in [s \ {f} -> Nat]
  BY <1>1 DEF Visited
<1>3. QED
  BY <1>2

\* A file is read: the ledger follows it, and what is found is new.
LEMMA IngestKeepsInv ==
  ASSUME LedgerInv, NEW f \in Rollout, IngestFile(f)
  PROVE  LedgerInv'
<1>1. LedgerTypes /\ LedgersAreRead /\ StepsAreOrdered /\ RowsAreNew /\ NoneIsMissed
  BY DEF LedgerInv
<1>2. PICK n, more : Ingested(f, n, more)
  BY <1>1, IngestReads DEF LedgersAreRead
<1>3. /\ UNCHANGED script /\ UNCHANGED <<written, visible, stored, codexPc, availability, shown>>
      /\ UNCHANGED <<rows, historic, codexCause>> /\ codexPc = "scan" /\ script \in Scripts
  BY <1>1 DEF IngestFile, Visit, files, store, LedgerTypes
<1>4. /\ scan \in Scan /\ scan.found \in Seq(SUBSET Requests) /\ scan.left \in Nat /\ scan.read \in Nat
      /\ scan = [mode |-> scan.mode, sizes |-> scan.sizes, left |-> scan.left, read |-> scan.read,
                 found |-> scan.found]
      /\ scan.mode \in {"none", "rebuild", "update", "migrate"}
  BY <1>1 DEF LedgerTypes, Scan
<1> DEFINE N == UNION ToSet(more)
<1>5. /\ n \in Nat /\ more \in Seq(SUBSET Requests) /\ Disjoint(more) /\ (n = 0 => more = <<>>)
      /\ ledger' \in Ledger /\ ledger'.rebuilt = ledger.rebuilt /\ ReadInOrder(ledger')
      /\ ToldBy(ledger.keys) \subseteq ToldBy(ledger'.keys)
      /\ N \cap ToldBy(ledger.keys) = {} /\ N \subseteq ToldBy(ledger'.keys)
      /\ Counts(ledger) => Counts(ledger') /\ RequestsIn(ledger') = RequestsIn(ledger) \cup N
  BY <1>2 DEF Ingested
<1> DEFINE left == IF scan.mode = "update" THEN scan.left - n ELSE scan.left
<1>6. scan' = [mode |-> scan.mode, sizes |-> Visited(f), left |-> left, read |-> scan.read + n,
               found |-> scan.found \o more]
  BY <1>2, <1>4 DEF Ingested
<1>7. left \in Nat
  BY <1>2, <1>4 DEF Ingested
<1> HIDE DEF left, N
<1>8. /\ scan'.mode = scan.mode /\ scan'.read = scan.read + n /\ scan'.found = scan.found \o more
      /\ scan'.found \in Seq(SUBSET Requests) /\ scan' \in Scan
  <2>1. scan.found \o more \in Seq(SUBSET Requests) /\ scan.read + n \in Nat
    BY <1>4, <1>5
  <2>2. Visited(f) \in UNION {[s -> Nat] : s \in SUBSET Rollout}
    BY <1>1, VisitedIsTyped
  <2>3. QED
    BY <1>4, <1>6, <1>7, <2>1, <2>2 DEF Scan
<1>9. LedgerTypes'
  BY <1>1, <1>3, <1>5, <1>8 DEF LedgerTypes
<1>10. LedgersAreRead'
  BY <1>1, <1>3, <1>5, ScriptStays DEF LedgersAreRead
<1>11. scan'.read = 0 => scan'.found = <<>>
  <2>1. ASSUME scan'.read = 0 PROVE n = 0 /\ scan.read = 0
    BY <1>4, <1>5, <1>8, <2>1
  <2>2. scan.read = 0 => scan.found = <<>>
    BY <1>1, <1>3 DEF StepsAreOrdered
  <2>3. <<>> \o <<>> = <<>>
    OBVIOUS
  <2>4. QED
    BY <1>5, <1>8, <2>1, <2>2, <2>3
<1>12. StepsAreOrdered'
  BY <1>1, <1>3, <1>5, <1>8, <1>11 DEF StepsAreOrdered, Loaded
<1>13. ASSUME "lost" \notin codexCause
       PROVE  /\ \A r \in Requests : rows[r] = 1 => r \in ToldBy(ledger.keys)
              /\ \A r \in FoundNow : rows[r] = 0 /\ r \in ToldBy(ledger.keys)
              /\ Disjoint(scan.found) /\ rows \in [Requests -> Nat]
              /\ \A r \in Requests : rows[r] <= 1
              /\ \A r \in Requests : rows[r] = 1 => stored.rebuilt /\ r \in ToldBy(stored.keys)
  BY <1>1, <1>3, <1>13 DEF RowsAreNew, Loaded, LedgerTypes
<1>14. N \in SUBSET Requests
  BY <1>5 DEF ToldBy
<1>15. ASSUME "lost" \notin codexCause
       PROVE  Disjoint(scan'.found) /\ FoundNow' = FoundNow \cup N /\ \A r \in N : rows[r] = 0
  <2>1. (UNION ToSet(scan.found)) \cap (UNION ToSet(more)) = {}
    BY <1>5, <1>13, <1>15 DEF FoundNow, N
  <2>2. Disjoint(scan.found \o more)
        /\ UNION ToSet(scan.found \o more) = (UNION ToSet(scan.found)) \cup (UNION ToSet(more))
    BY <1>4, <1>5, <1>13, <1>15, <2>1, BothDisjoint
  <2>3. FoundNow' = UNION ToSet(scan'.found)
    BY DEF FoundNow, ToSet
  <2>4. FoundNow' = FoundNow \cup N
    BY <1>8, <2>2, <2>3 DEF FoundNow, N
  <2>5. ASSUME NEW r \in N PROVE rows[r] = 0
    <3>1. r \in Requests /\ r \notin ToldBy(ledger.keys)
      BY <1>5, <1>14, <2>5
    <3>2. rows[r] # 1 /\ rows[r] <= 1 /\ rows[r] \in Nat
      BY <1>13, <1>15, <3>1
    <3>3. QED
      BY <3>2
  <2>6. QED
    BY <1>8, <2>2, <2>4, <2>5
<1>16. RowsAreNew'
  <2> SUFFICES ASSUME "lost" \notin codexCause PROVE RowsAreNew'
    BY <1>3 DEF RowsAreNew
  <2>1. ToldBy(stored.keys)' = ToldBy(stored.keys) /\ ToldBy(ledger.keys)' = ToldBy(ledger'.keys)
    BY <1>3, ScriptStays
  <2>2. \A r \in Requests : rows'[r] <= 1
    BY <1>3, <1>13
  <2>3. \A r \in Requests : rows'[r] = 1 => stored'.rebuilt /\ r \in ToldBy(stored.keys)'
    BY <1>3, <1>13, <2>1
  <2>4. \A r \in Requests : rows'[r] = 1 => r \in ToldBy(ledger.keys)'
    BY <1>3, <1>5, <1>13, <2>1
  <2>5. \A r \in FoundNow' : rows'[r] = 0 /\ r \in ToldBy(ledger.keys)'
    BY <1>3, <1>5, <1>13, <1>15, <2>1
  <2>6. Disjoint(scan.found)'
    BY <1>15 DEF Disjoint
  <2>7. QED
    BY <2>2, <2>3, <2>4, <2>5, <2>6 DEF RowsAreNew
<1>17. NoneIsMissed'
  <2> SUFFICES ASSUME codexCause = {} PROVE NoneIsMissed'
    BY <1>3 DEF NoneIsMissed
  <2>1. RequestsIn(stored)' = RequestsIn(stored) /\ RequestsIn(ledger)' = RequestsIn(ledger) \cup N
    BY <1>1, <1>3, <1>5, ScriptStays DEF LedgersAreRead
  <2>2. FoundNow' = FoundNow \cup N
    BY <1>15
  <2>3. \A r \in RequestsIn(stored) \ historic : rows[r] = 1
    BY <1>1, <1>3 DEF NoneIsMissed
  <2>4. scan.mode = "update" => \A r \in RequestsIn(ledger) \ historic : rows[r] = 1 \/ r \in FoundNow
    BY <1>1, <1>3 DEF NoneIsMissed
  <2>5. QED
    BY <1>3, <1>8, <2>1, <2>2, <2>3, <2>4 DEF NoneIsMissed
<1>18. QED
  BY <1>9, <1>10, <1>12, <1>16, <1>17 DEF LedgerInv

\* Nothing read, and the mark of a rebuild.
LEMMA EmptyIsRead ==
  ASSUME script \in Scripts
  PROVE  /\ EmptyLedger \in Ledger /\ ReadInOrder(EmptyLedger) /\ Counts(EmptyLedger)
         /\ ~EmptyLedger.rebuilt
<1>1. \A f \in Rollout : /\ FreshState(f) \in ParserState /\ FreshState(f) = Parsed(script[f], 0).state
                         /\ 0 <= Len(script[f])
  <2>1. TAKE f \in Rollout
  <2>2. HeadState(script[f]) \in ParserState /\ Len(script[f]) \in Nat
    BY ScriptsAreTyped
  <2>3. Parsed(script[f], 0).state = HeadState(script[f])
    BY ParsedIs
  <2>4. QED
    BY <2>2, <2>3 DEF FreshState
<1>2. /\ EmptyLedger.entry = [f \in Rollout |-> [offset |-> 0, state |-> FreshState(f)]]
      /\ EmptyLedger.keys = {} /\ EmptyLedger.tokens = 0 /\ EmptyLedger.rebuilt = FALSE
  BY DEF EmptyLedger
<1>3. EmptyLedger \in Ledger
  BY <1>1 DEF EmptyLedger, Ledger
<1>4. \A f \in Rollout : EmptyLedger.entry[f].offset = 0 /\ EmptyLedger.entry[f].state = FreshState(f)
  BY <1>2
<1>5. ReadInOrder(EmptyLedger)
  BY <1>1, <1>4 DEF ReadInOrder
<1>6. KeysIn(EmptyLedger) = {} /\ RequestsIn(EmptyLedger) = {}
  <2>1. 1 .. 0 = {}
    OBVIOUS
  <2>2. \A f \in Rollout : EmptyLedger.entry[f].offset = 0
    BY <1>4
  <2>3. QED
    BY <2>1, <2>2 DEF KeysIn, KeysUpTo, KeysOf, Offsets, RequestsIn
<1>7. QED
  BY <1>2, <1>3, <1>5, <1>6, SumOfNone DEF Counts

\* A ledger whose offsets are zero has no requests.
LEMMA NothingIsRead ==
  ASSUME NEW l, \A f \in Rollout : l.entry[f].offset = 0
  PROVE  RequestsIn(l) = {}
<1>1. 1 .. 0 = {}
  OBVIOUS
<1>2. QED
  BY <1>1 DEF RequestsIn

\* The mark of a rebuild changes nothing else.
LEMMA RebuiltIsRead ==
  ASSUME NEW l \in Ledger
  PROVE  LET m == [l EXCEPT !.rebuilt = TRUE]
         IN  /\ m \in Ledger /\ (ReadInOrder(l) => ReadInOrder(m)) /\ (Counts(l) => Counts(m))
             /\ m.keys = l.keys /\ m.rebuilt /\ RequestsIn(m) = RequestsIn(l)
<1> DEFINE m == [l EXCEPT !.rebuilt = TRUE]
<1>1. m.entry = l.entry /\ m.keys = l.keys /\ m.tokens = l.tokens /\ m.rebuilt /\ m \in Ledger
  BY DEF Ledger
<1> HIDE DEF m
<1>2. RequestsIn(m) = RequestsIn(l) /\ KeysIn(m) = KeysIn(l)
  BY <1>1 DEF RequestsIn, KeysIn, Offsets
<1>3. QED
  BY <1>1, <1>2 DEF ReadInOrder, Counts, m

\* The requests of a ledger are requests.
LEMMA RequestsAreTyped ==
  ASSUME script \in Scripts, NEW l \in Ledger, ReadInOrder(l)
  PROVE  RequestsIn(l) \in SUBSET Requests
<1>1. \A f \in Rollout : \A i \in 1 .. l.entry[f].offset : script[f][i].requests \in SUBSET Requests
  <2>1. TAKE f \in Rollout
  <2>2. TAKE i \in 1 .. l.entry[f].offset
  <2>3. /\ Len(script[f]) \in Nat /\ DOMAIN script[f] = 1 .. Len(script[f])
        /\ \A j \in DOMAIN script[f] : script[f][j].requests \in SUBSET Requests
    BY ScriptsAreTyped
  <2>4. l.entry[f].offset \in Nat /\ l.entry[f].offset <= Len(script[f])
    BY DEF Ledger, ReadInOrder
  <2>5. QED
    BY <2>3, <2>4
<1>2. QED
  BY <1>1 DEF RequestsIn

\* Nothing found.
LEMMA FoundNothing ==
  ASSUME scan.found = <<>>
  PROVE  FoundNow = {} /\ Disjoint(scan.found)
<1>1. DOMAIN <<>> = {}
  OBVIOUS
<1>2. QED
  BY <1>1 DEF FoundNow, ToSet, Disjoint

\* The same of the next state.
LEMMA FoundNothingNext ==
  ASSUME scan'.found = <<>>
  PROVE  FoundNow' = {} /\ Disjoint(scan.found)'
<1>1. DOMAIN <<>> = {}
  OBVIOUS
<1>2. QED
  BY <1>1 DEF FoundNow, ToSet, Disjoint

\* The same was found.
LEMMA FoundTheSame ==
  ASSUME scan'.found = scan.found
  PROVE  FoundNow' = FoundNow /\ (Disjoint(scan.found)' <=> Disjoint(scan.found))
BY DEF FoundNow, ToSet, Disjoint

\* A scan that starts.
LEMMA ScansAreTyped ==
  ASSUME LedgerTypes
  PROVE  /\ NoScan \in Scan /\ NoScan.found = <<>> /\ NoScan.read = 0 /\ NoScan.mode = "none"
         /\ \A mode \in {"rebuild", "update", "migrate"}, left \in Nat :
              [mode |-> mode, sizes |-> Sizes, left |-> left, read |-> 0, found |-> <<>>] \in Scan
<1>1. <<>> \in Seq(SUBSET Requests)
  OBVIOUS
<1>2. <<>> \in [{} -> Nat]
  OBVIOUS
<1>3. Sizes \in UNION {[s -> Nat] : s \in SUBSET Rollout}
  <2> DEFINE s == {g \in Rollout : visible[g] > 0}
  <2>1. s \in SUBSET Rollout
    OBVIOUS
  <2>2. Sizes \in [s -> Nat]
    BY DEF Sizes, LedgerTypes
  <2> HIDE DEF s
  <2>3. QED
    BY <2>1, <2>2
<1>4. <<>> \in UNION {[s -> Nat] : s \in SUBSET Rollout}
  BY <1>2
<1>5. QED
  BY <1>1, <1>3, <1>4 DEF NoScan, Scan

\* The window of the registry.
LEMMA WindowTypes ==
  /\ Window!Confirmed("available") \in Window!Stabilizer
  /\ \A w \in Window!Stabilizer, c \in {"available", "error"} :
        Window!Observe(w, c, FALSE) \in Window!Stabilizer
<1>1. Window!Status = {"available", "error"}
  BY DEF Window!Status
<1>2. \A c \in Window!Status : Window!Confirmed(c) \in Window!Stabilizer
  BY DEF Window!Confirmed, Window!Stabilizer
<1>3. ASSUME NEW w \in Window!Stabilizer, NEW c \in Window!Status
      PROVE  Window!Observe(w, c, FALSE) \in Window!Stabilizer
  <2> DEFINE count == IF w.pending = c THEN w.count + 1 ELSE 1
  <2>1. count \in Nat
    BY DEF Window!Stabilizer
  <2>2. [w EXCEPT !.pending = c, !.count = count] \in Window!Stabilizer
    BY <2>1 DEF Window!Stabilizer
  <2>3. Window!Observe(w, c, FALSE) \in {Window!Confirmed(c), [w EXCEPT !.pending = c, !.count = count]}
    BY DEF Window!Observe
  <2>4. QED
    BY <1>2, <2>2, <2>3
<1>4. QED
  BY <1>1, <1>2, <1>3

\* The invariant holds at first.
LEMMA InitLedgerInv == CodexInit => LedgerInv
<1> SUFFICES ASSUME CodexInit PROVE LedgerInv
  OBVIOUS
<1>1. /\ script \in Scripts /\ written = [f \in Rollout |-> 0] /\ visible = written
      /\ ledger = EmptyLedger /\ stored = EmptyLedger /\ codexPc = "start" /\ scan = NoScan
      /\ availability = Window!Confirmed("available") /\ shown = "available"
      /\ rows = [r \in Requests |-> 0] /\ historic = {} /\ codexCause = {}
  BY DEF CodexInit
<1>2. /\ EmptyLedger \in Ledger /\ ReadInOrder(EmptyLedger) /\ Counts(EmptyLedger) /\ ~EmptyLedger.rebuilt
      /\ \A f \in Rollout : EmptyLedger.entry[f].offset = 0
  BY <1>1, EmptyIsRead DEF EmptyLedger
<1>3. NoScan \in Scan /\ NoScan.found = <<>> /\ NoScan.mode = "none"
  <2>1. <<>> \in Seq(SUBSET Requests) /\ <<>> \in [{} -> Nat]
    OBVIOUS
  <2>2. <<>> \in UNION {[s -> Nat] : s \in SUBSET Rollout}
    BY <2>1
  <2>3. QED
    BY <2>1, <2>2 DEF NoScan, Scan
<1>4. \A f \in Rollout : visible[f] <= written[f] /\ written[f] <= 2 * Len(script[f])
  <2>1. TAKE f \in Rollout
  <2>2. Len(script[f]) \in Nat
    BY <1>1, ScriptsAreTyped
  <2>3. QED
    BY <1>1, <2>2
<1>5. LedgerTypes
  BY <1>1, <1>2, <1>3, <1>4, WindowTypes DEF LedgerTypes
<1>6. LedgersAreRead
  BY <1>1, <1>2 DEF LedgersAreRead
<1>7. StepsAreOrdered
  BY <1>1, <1>2, <1>3 DEF StepsAreOrdered, Loaded
<1>8. RowsAreNew
  BY <1>1 DEF RowsAreNew, Loaded
<1>9. RequestsIn(stored) = {}
  BY <1>1, <1>2, NothingIsRead
<1>10. NoneIsMissed
  BY <1>1, <1>9 DEF NoneIsMissed
<1>11. QED
  BY <1>5, <1>6, <1>7, <1>8, <1>10 DEF LedgerInv

\* Steps that leave the ledgers, the rows and what was found as they are.
LEMMA StandingKeepsInv ==
  ASSUME LedgerInv, UNCHANGED <<script, ledger, stored, codexPc, rows, historic, codexCause>>,
         scan'.found = scan.found, scan'.mode = scan.mode, scan'.read = scan.read, LedgerTypes'
  PROVE  LedgerInv'
<1>1. LedgerTypes /\ LedgersAreRead /\ StepsAreOrdered /\ RowsAreNew /\ NoneIsMissed
  BY DEF LedgerInv
<1>2. UNCHANGED script /\ FoundNow' = FoundNow /\ (Disjoint(scan.found)' <=> Disjoint(scan.found))
  BY FoundTheSame
<1>3. LedgersAreRead'
  BY <1>1, <1>2, ScriptStays DEF LedgersAreRead
<1>4. StepsAreOrdered'
  BY <1>1 DEF StepsAreOrdered, Loaded
<1>5. ToldBy(stored.keys)' = ToldBy(stored.keys) /\ ToldBy(ledger.keys)' = ToldBy(ledger.keys)
  BY <1>2, ScriptStays
<1>6. RowsAreNew'
  BY <1>1, <1>2, <1>5 DEF RowsAreNew, Loaded
<1>7. RequestsIn(stored)' = RequestsIn(stored) /\ RequestsIn(ledger)' = RequestsIn(ledger)
  BY <1>2, ScriptStays
<1>8. NoneIsMissed'
  BY <1>1, <1>2, <1>7 DEF NoneIsMissed
<1>9. QED
  BY <1>3, <1>4, <1>6, <1>8 DEF LedgerInv

\* A file is skipped.
LEMMA SkipKeepsInv ==
  ASSUME LedgerInv, NEW f \in Rollout, SkipFile(f)
  PROVE  LedgerInv'
<1>1. LedgerTypes /\ scan \in Scan
  BY DEF LedgerInv, LedgerTypes
<1>2. /\ UNCHANGED <<script, written, visible, ledger, stored, codexPc, availability, shown, rows, historic, codexCause>>
      /\ scan' = [scan EXCEPT !.sizes = Visited(f)]
  BY DEF SkipFile, files, store
<1>3. /\ scan'.found = scan.found /\ scan'.mode = scan.mode /\ scan'.read = scan.read /\ scan' \in Scan
  <2>1. Visited(f) \in UNION {[s -> Nat] : s \in SUBSET Rollout}
    BY <1>1, VisitedIsTyped
  <2>2. QED
    BY <1>1, <1>2, <2>1 DEF Scan
<1>4. LedgerTypes'
  BY <1>1, <1>2, <1>3 DEF LedgerTypes
<1>5. QED
  BY <1>2, <1>3, <1>4, StandingKeepsInv

\* Codex writes, and a file moves.
LEMMA FilesKeepInv ==
  ASSUME LedgerInv, NEW f \in Rollout, WriteRollout(f) \/ MoveRollout(f)
  PROVE  LedgerInv'
<1>1. LedgerTypes
  BY DEF LedgerInv
<1>2. UNCHANGED <<script, ledger, stored, codexPc, scan, availability, shown, rows, historic, codexCause>>
  BY DEF WriteRollout, MoveRollout, store
<1>3. /\ written \in [Rollout -> Nat] /\ visible \in [Rollout -> Nat] /\ Pauses[f] \in SUBSET Nat
      /\ \A g \in Rollout : visible[g] <= written[g] /\ written[g] <= 2 * Len(script[g])
  BY <1>1, CodexAssumption DEF LedgerTypes
<1>4. /\ written' \in [Rollout -> Nat] /\ visible' \in [Rollout -> Nat]
      /\ \A g \in Rollout : visible'[g] <= written'[g] /\ written'[g] <= 2 * Len(script[g])
  <2>1. CASE WriteRollout(f)
    <3>1. PICK n \in Pauses[f] : /\ n <= 2 * Len(script[f]) /\ written' = [written EXCEPT ![f] = n]
                                 /\ visible' = [visible EXCEPT ![f] = n]
      BY <2>1 DEF WriteRollout
    <3>2. n \in Nat
      BY <1>3
    <3>3. QED
      BY <1>3, <3>1, <3>2
  <2>2. CASE MoveRollout(f)
    <3>1. written' = written
      BY <2>2 DEF MoveRollout
    <3>2. \E n \in Nat : n <= written[f] /\ visible' = [visible EXCEPT ![f] = n]
      <4>1. CASE visible[f] < written[f]
        <5>1. visible' = [visible EXCEPT ![f] = written[f]]
          BY <2>2, <4>1 DEF MoveRollout
        <5>2. written[f] \in Nat /\ written[f] <= written[f]
          BY <1>3
        <5>3. QED
          BY <5>1, <5>2
      <4>2. CASE ~(visible[f] < written[f])
        <5>1. PICK n \in Pauses[f] \cup {0} : n < written[f] /\ visible' = [visible EXCEPT ![f] = n]
          BY <2>2, <4>2 DEF MoveRollout
        <5>2. n \in Nat /\ n <= written[f]
          BY <1>3, <5>1
        <5>3. QED
          BY <5>1, <5>2
      <4>3. QED
        BY <4>1, <4>2
    <3>3. PICK n \in Nat : n <= written[f] /\ visible' = [visible EXCEPT ![f] = n]
      BY <3>2
    <3>4. QED
      BY <1>3, <3>1, <3>3
  <2>3. QED
    BY <2>1, <2>2
<1>5. LedgerTypes'
  BY <1>1, <1>2, <1>4 DEF LedgerTypes
<1>6. QED
  BY <1>2, <1>5, StandingKeepsInv

\* The registry sees the cached status again.
LEMMA CachedKeepsInv ==
  ASSUME LedgerInv, CachedReport
  PROVE  LedgerInv'
<1>1. LedgerTypes
  BY DEF LedgerInv
<1>2. /\ UNCHANGED <<script, written, visible, ledger, stored, codexPc, scan, shown, rows, historic, codexCause>>
      /\ availability' = Window!Observe(availability, shown, FALSE)
  BY DEF CachedReport, files, store
<1>3. LedgerTypes'
  BY <1>1, <1>2, WindowTypes DEF LedgerTypes
<1>4. QED
  BY <1>2, <1>3, StandingKeepsInv

\* A read that fails may leave keys, which tell more.
LEMMA FailedReadKeepsInv ==
  ASSUME LedgerInv, NEW f \in Rollout, ReadRolloutFails(f)
  PROVE  LedgerInv'
<1>1. LedgerTypes /\ LedgersAreRead /\ StepsAreOrdered /\ RowsAreNew /\ NoneIsMissed
  BY DEF LedgerInv
<1>2. /\ UNCHANGED <<script, written, visible, stored, codexPc, availability, shown, rows, historic>>
      /\ codexPc = "scan" /\ f \in DOMAIN scan.sizes /\ ~Skipped(f)
      /\ scan' = [scan EXCEPT !.sizes = Visited(f)]
      /\ codexCause' = IF ledger'.keys = ledger.keys THEN codexCause ELSE codexCause \cup {"misread"}
  BY DEF ReadRolloutFails, Visit, files, store
<1>3. PICK n \in 0 .. Max({0, Quota(f)}) : ledger' = [ledger EXCEPT !.keys = ReadTail(f, n).keys]
  BY DEF ReadRolloutFails
<1> DEFINE o == Offset(f)
           from == EntryKnown(f)
           keys == ReadTail(f, n).keys
<1>4. script \in Scripts /\ scan \in Scan /\ ledger \in Ledger /\ UNCHANGED script
  BY <1>1, <1>2 DEF LedgerTypes
<1>5. n \in Nat /\ o \in Nat /\ o + n <= Len(script[f])
  <2>1. /\ o \in Nat /\ Quota(f) \in Int /\ o + Quota(f) <= Len(script[f]) /\ Len(script[f]) \in Nat
    BY <1>1, <1>2, QuotaIsBounded, FieldsAreTyped
  <2>2. o + 0 <= Len(script[f])
    BY <1>1, <2>1 DEF LedgersAreRead, ReadInOrder, Offset
  <2>3. \A q \in Int : Max({0, q}) \in {0, q}
    <3>1. TAKE q \in Int
    <3>2. \E x \in {0, q} : \A y \in {0, q} : x >= y
      <4>1. CASE q >= 0
        BY <4>1
      <4>2. CASE ~(q >= 0)
        BY <4>2
      <4>3. QED
        BY <4>1, <4>2
    <3>3. QED
      BY <3>2 DEF Max
  <2>4. Max({0, Quota(f)}) \in {0, Quota(f)}
    BY <2>1, <2>3
  <2> DEFINE q == Quota(f)
             top == Max({0, q})
  <2>5. top \in {0, q} /\ q \in Int /\ n \in 0 .. top
    BY <2>1, <2>4
  <2> HIDE DEF q, top, o
  <2>6. QED
    BY <2>1, <2>2, <2>5 DEF q
<1>6. /\ ReadTail(f, n) = Reading(from, f, o, n) /\ from \in Parse /\ from.state = Parsed(script[f], o).state
      /\ from.keys = ledger.keys
  BY <1>1, TailIsReading DEF LedgersAreRead
<1> HIDE DEF o, from
<1>7. IsReadFrom(ReadTail(f, n), from, f, o, n)
  BY <1>4, <1>5, <1>6, TailIsRead
<1>8. keys = ledger.keys \cup KeysOf(f, o + 1, o + n) /\ keys \in SUBSET DedupKeys
  BY <1>6, <1>7 DEF IsReadFrom, Parse
<1> HIDE DEF keys
<1>9. /\ ledger' \in Ledger /\ ledger'.entry = ledger.entry /\ ledger'.keys = keys
      /\ ledger'.tokens = ledger.tokens /\ ledger'.rebuilt = ledger.rebuilt
      /\ keys = ledger.keys => ledger' = ledger
  BY <1>3, <1>4, <1>8 DEF Ledger, keys
<1>10. ToldBy(ledger.keys) \subseteq ToldBy(keys)
  BY <1>8 DEF ToldBy
<1>11. /\ scan'.found = scan.found /\ scan'.mode = scan.mode /\ scan'.read = scan.read /\ scan' \in Scan
  <2>1. Visited(f) \in UNION {[s -> Nat] : s \in SUBSET Rollout}
    BY <1>1, VisitedIsTyped
  <2>2. QED
    BY <1>2, <1>4, <2>1 DEF Scan
<1>12. /\ codexCause \subseteq codexCause' /\ codexCause' \subseteq codexCause \cup {"misread"}
       /\ "misread" \notin codexCause' => "misread" \notin codexCause /\ ledger' = ledger
       /\ codexCause' = {} => codexCause = {} /\ ledger' = ledger
  BY <1>2, <1>9
<1>13. LedgerTypes'
  BY <1>1, <1>2, <1>9, <1>11, <1>12 DEF LedgerTypes
<1>14. LedgersAreRead'
  <2>1. ReadInOrder(ledger')
    BY <1>1, <1>9 DEF LedgersAreRead, ReadInOrder
  <2>2. QED
    BY <1>1, <1>2, <1>4, <1>12, <2>1, ScriptStays DEF LedgersAreRead
<1>15. "lost" \in codexCause' <=> "lost" \in codexCause
  BY <1>12
<1>16. StepsAreOrdered'
  BY <1>1, <1>2, <1>9, <1>11, <1>15 DEF StepsAreOrdered, Loaded
<1>17. FoundNow' = FoundNow /\ (Disjoint(scan.found)' <=> Disjoint(scan.found))
  BY <1>11, FoundTheSame
<1>18. RowsAreNew'
  <2>1. ToldBy(stored.keys)' = ToldBy(stored.keys) /\ ToldBy(ledger.keys)' = ToldBy(keys)
    BY <1>2, <1>4, <1>9, ScriptStays
  <2>2. QED
    BY <1>1, <1>2, <1>10, <1>15, <1>17, <2>1 DEF RowsAreNew, Loaded
<1>19. NoneIsMissed'
  <2> SUFFICES ASSUME codexCause' = {} PROVE NoneIsMissed'
    BY DEF NoneIsMissed
  <2>1. RequestsIn(stored)' = RequestsIn(stored) /\ RequestsIn(ledger)' = RequestsIn(ledger)
    BY <1>2, <1>4, <1>12, ScriptStays
  <2>2. QED
    BY <1>1, <1>2, <1>11, <1>12, <1>17, <2>1 DEF NoneIsMissed
<1>20. QED
  BY <1>13, <1>14, <1>16, <1>18, <1>19 DEF LedgerInv

\* A poll starts, with the ledger or with an empty one.
LEMMA PollKeepsLedgers ==
  ASSUME LedgerInv, Poll
  PROVE  LedgerInv'
<1>1. LedgerTypes /\ LedgersAreRead /\ StepsAreOrdered /\ RowsAreNew /\ NoneIsMissed
  BY DEF LedgerInv
<1>2. /\ UNCHANGED <<script, written, visible, stored, availability, shown, rows, historic, codexCause>>
      /\ codexPc = "idle" /\ codexPc' = "scan"
      /\ \/ /\ ledger.rebuilt /\ ledger' = ledger
            /\ scan' = [NoScan EXCEPT !.mode = "update", !.sizes = Sizes, !.left = ScanBudget]
         \/ /\ ~ledger.rebuilt /\ ledger' = EmptyLedger
            /\ scan' = [NoScan EXCEPT !.mode = "rebuild", !.sizes = Sizes]
  BY DEF Poll, files, store
<1>3. script \in Scripts /\ UNCHANGED script /\ ledger \in Ledger /\ ScanBudget \in Nat
  BY <1>1, <1>2, CodexAssumption DEF LedgerTypes
<1>4. /\ scan' \in Scan /\ scan'.found = <<>> /\ scan'.read = 0
      /\ scan'.mode = IF ledger.rebuilt THEN "update" ELSE "rebuild"
  <2>1. scan' = [mode |-> IF ledger.rebuilt THEN "update" ELSE "rebuild", sizes |-> Sizes,
                 left |-> IF ledger.rebuilt THEN ScanBudget ELSE 0, read |-> 0, found |-> <<>>]
    BY <1>2 DEF NoScan
  <2>2. QED
    BY <1>1, <1>3, <2>1, ScansAreTyped
<1>5. /\ EmptyLedger \in Ledger /\ ReadInOrder(EmptyLedger) /\ Counts(EmptyLedger) /\ ~EmptyLedger.rebuilt
  BY <1>3, EmptyIsRead
<1>6. scan.found = <<>> /\ FoundNow = {} /\ FoundNow' = {} /\ Disjoint(scan.found)'
  <2>1. scan.found = <<>>
    BY <1>1, <1>2 DEF StepsAreOrdered
  <2>2. QED
    BY <1>4, <2>1, FoundNothing, FoundNothingNext
<1>7. LedgerTypes'
  BY <1>1, <1>2, <1>4, <1>5 DEF LedgerTypes
<1>8. LedgersAreRead'
  BY <1>1, <1>2, <1>3, <1>5, ScriptStays DEF LedgersAreRead
<1>9. ~ledger.rebuilt /\ "lost" \notin codexCause => ~stored.rebuilt
  BY <1>1, <1>2 DEF StepsAreOrdered
<1>10. StepsAreOrdered'
  BY <1>1, <1>2, <1>4, <1>9 DEF StepsAreOrdered, Loaded
<1>11. RowsAreNew'
  <2> SUFFICES ASSUME "lost" \notin codexCause PROVE RowsAreNew'
    BY <1>2 DEF RowsAreNew
  <2>1. ToldBy(stored.keys)' = ToldBy(stored.keys) /\ ToldBy(ledger.keys)' = ToldBy(ledger'.keys)
    BY <1>2, <1>3, ScriptStays
  <2>2. \A r \in Requests : rows[r] <= 1 /\ (rows[r] = 1 => stored.rebuilt /\ r \in ToldBy(stored.keys)
                                                            /\ r \in ToldBy(ledger.keys))
    BY <1>1, <1>2 DEF RowsAreNew, Loaded
  <2>3. \A r \in Requests : rows[r] = 1 => ledger' = ledger
    BY <1>2, <1>9, <2>2
  <2>4. QED
    BY <1>2, <1>6, <2>1, <2>2, <2>3 DEF RowsAreNew, Loaded
<1>12. NoneIsMissed'
  <2> SUFFICES ASSUME codexCause = {} PROVE NoneIsMissed'
    BY <1>2 DEF NoneIsMissed
  <2>1. RequestsIn(stored)' = RequestsIn(stored) /\ RequestsIn(ledger)' = RequestsIn(ledger')
    BY <1>2, <1>3, ScriptStays
  <2>2. /\ \A r \in RequestsIn(stored) \ historic : rows[r] = 1
        /\ \A r \in RequestsIn(ledger) \ historic : rows[r] = 1
    BY <1>1, <1>2, <1>6 DEF NoneIsMissed
  <2>3. scan'.mode = "update" => ledger' = ledger
    BY <1>2, <1>4
  <2>4. QED
    BY <1>2, <1>6, <2>1, <2>2, <2>3 DEF NoneIsMissed
<1>13. QED
  BY <1>7, <1>8, <1>10, <1>11, <1>12 DEF LedgerInv

\* A scan ends: a rebuild forgets what it found and remembers what was there.
LEMMA EndScanKeepsInv ==
  ASSUME LedgerInv, EndScan
  PROVE  LedgerInv'
<1>1. LedgerTypes /\ LedgersAreRead /\ StepsAreOrdered /\ RowsAreNew /\ NoneIsMissed
  BY DEF LedgerInv
<1>2. /\ UNCHANGED <<script, written, visible, stored, availability, rows, codexCause>>
      /\ codexPc = "scan" /\ scan' = [scan EXCEPT !.sizes = <<>>, !.found = IF scan.mode = "update" THEN @ ELSE <<>>]
      /\ \/ /\ scan.mode = "update" /\ UNCHANGED <<ledger, historic>>
            /\ codexPc' = IF scan.read > 0 THEN "save" ELSE "report"
            /\ shown' = IF scan.read > 0 THEN shown ELSE "available"
         \/ /\ scan.mode # "update" /\ ledger' = [ledger EXCEPT !.rebuilt = TRUE]
            /\ codexPc' = "save" /\ historic' = RequestsIn(ledger) /\ shown' = shown
  BY DEF EndScan, files
<1>3. script \in Scripts /\ UNCHANGED script /\ ledger \in Ledger /\ scan \in Scan /\ stored \in Ledger
      /\ ReadInOrder(ledger) /\ scan.read \in Nat
  BY <1>1, <1>2 DEF LedgerTypes, LedgersAreRead, Scan
<1>4. /\ scan' \in Scan /\ scan'.mode = scan.mode
      /\ scan'.found = IF scan.mode = "update" THEN scan.found ELSE <<>>
  <2>1. <<>> \in UNION {[s -> Nat] : s \in SUBSET Rollout} /\ <<>> \in Seq(SUBSET Requests)
    <3>1. <<>> \in [{} -> Nat] /\ <<>> \in Seq(SUBSET Requests)
      OBVIOUS
    <3>2. QED
      BY <3>1
  <2>2. scan = [mode |-> scan.mode, sizes |-> scan.sizes, left |-> scan.left, read |-> scan.read, found |-> scan.found]
    BY <1>3 DEF Scan
  <2>3. scan' = [mode |-> scan.mode, sizes |-> <<>>, left |-> scan.left, read |-> scan.read,
                 found |-> IF scan.mode = "update" THEN scan.found ELSE <<>>]
    BY <1>2, <2>2
  <2>4. QED
    BY <1>3, <2>1, <2>3 DEF Scan
<1>5. /\ ledger' \in Ledger /\ ReadInOrder(ledger') /\ (Counts(ledger) => Counts(ledger'))
      /\ ledger'.keys = ledger.keys /\ ledger'.rebuilt /\ RequestsIn(ledger') = RequestsIn(ledger)
  <2>1. CASE scan.mode = "update"
    <3>1. ledger' = ledger /\ ledger.rebuilt
      BY <1>1, <1>2, <2>1 DEF StepsAreOrdered
    <3>2. QED
      BY <1>3, <3>1
  <2>2. CASE scan.mode # "update"
    <3>1. ledger' = [ledger EXCEPT !.rebuilt = TRUE]
      BY <1>2, <2>2
    <3>2. QED
      BY <1>3, <3>1, RebuiltIsRead
  <2>3. QED
    BY <2>1, <2>2
<1>6. historic' \subseteq Requests
  BY <1>1, <1>2, <1>3, RequestsAreTyped DEF LedgerTypes
<1>7. LedgerTypes'
  BY <1>1, <1>2, <1>4, <1>5, <1>6 DEF LedgerTypes
<1>8. LedgersAreRead'
  BY <1>1, <1>2, <1>3, <1>5, ScriptStays DEF LedgersAreRead
<1>9. StepsAreOrdered'
  <2>1. codexPc' = "report" => scan.read = 0 /\ scan'.found = <<>>
    BY <1>1, <1>2, <1>3, <1>4 DEF StepsAreOrdered
  <2>2. codexPc' \in {"save", "report"} /\ (scan'.mode # "update" => scan'.found = <<>>)
    BY <1>2, <1>4
  <2>3. QED
    BY <1>1, <1>2, <1>5, <2>1, <2>2 DEF StepsAreOrdered, Loaded
<1>10. \/ scan.mode = "update" /\ FoundNow' = FoundNow /\ (Disjoint(scan.found)' <=> Disjoint(scan.found))
       \/ scan.mode # "update" /\ FoundNow' = {} /\ Disjoint(scan.found)'
  BY <1>4, FoundTheSame, FoundNothingNext
<1>11. RowsAreNew'
  <2>1. ToldBy(stored.keys)' = ToldBy(stored.keys) /\ ToldBy(ledger.keys)' = ToldBy(ledger.keys)
    BY <1>2, <1>3, <1>5, ScriptStays
  <2>2. QED
    BY <1>1, <1>2, <1>10, <2>1 DEF RowsAreNew, Loaded
<1>12. NoneIsMissed'
  <2> SUFFICES ASSUME codexCause = {} PROVE NoneIsMissed'
    BY <1>2 DEF NoneIsMissed
  <2>1. RequestsIn(stored)' = RequestsIn(stored) /\ RequestsIn(ledger)' = RequestsIn(ledger)
    BY <1>2, <1>3, <1>5, ScriptStays
  <2>2. CASE scan.mode = "update"
    BY <1>1, <1>2, <1>10, <2>1, <2>2 DEF NoneIsMissed
  <2>3. CASE scan.mode # "update"
    <3>1. \A f \in Rollout : stored.entry[f].offset = 0
      BY <1>1, <1>2, <2>3 DEF StepsAreOrdered
    <3>2. RequestsIn(stored) = {} /\ historic' = RequestsIn(ledger)
      BY <1>2, <2>3, <3>1, NothingIsRead
    <3>3. QED
      BY <2>1, <3>2 DEF NoneIsMissed
  <2>4. QED
    BY <2>2, <2>3
<1>13. QED
  BY <1>7, <1>8, <1>9, <1>11, <1>12 DEF LedgerInv

\* The ledger is saved, or not.
LEMMA SaveKeepsLedgers ==
  ASSUME LedgerInv, Save
  PROVE  LedgerInv'
<1>1. LedgerTypes /\ LedgersAreRead /\ StepsAreOrdered /\ RowsAreNew /\ NoneIsMissed
  BY DEF LedgerInv
<1>2. /\ UNCHANGED <<script, written, visible, ledger, scan, availability, rows, historic, codexCause>>
      /\ codexPc = "save" /\ stored' = ledger
      /\ codexPc' = IF scan.mode = "migrate" THEN "backup" ELSE "report"
      /\ shown' = IF scan.mode = "migrate" THEN shown ELSE "available"
  BY DEF Save, files, store
<1>3. UNCHANGED script /\ scan'.found = scan.found
  BY <1>2
<1>4. LedgerTypes'
  BY <1>1, <1>2 DEF LedgerTypes
<1>5. LedgersAreRead'
  BY <1>1, <1>2, <1>3, ScriptStays DEF LedgersAreRead
<1>6. ledger.rebuilt /\ (scan.mode # "update" => scan.found = <<>>)
  BY <1>1, <1>2 DEF StepsAreOrdered
<1>7. StepsAreOrdered'
  BY <1>1, <1>2, <1>6 DEF StepsAreOrdered, Loaded
<1>8. FoundNow' = FoundNow /\ (Disjoint(scan.found)' <=> Disjoint(scan.found))
  BY <1>3, FoundTheSame
<1>9. RowsAreNew'
  <2>1. ToldBy(stored.keys)' = ToldBy(ledger.keys) /\ ToldBy(ledger.keys)' = ToldBy(ledger.keys)
    BY <1>2, <1>3, ScriptStays
  <2>2. QED
    BY <1>1, <1>2, <1>6, <1>8, <2>1 DEF RowsAreNew, Loaded
<1>10. NoneIsMissed'
  <2>1. RequestsIn(stored)' = RequestsIn(ledger) /\ RequestsIn(ledger)' = RequestsIn(ledger)
    BY <1>2, <1>3, ScriptStays
  <2>2. codexPc' # "report" => FoundNow = {}
    BY <1>2, <1>6, FoundNothing
  <2>3. QED
    BY <1>1, <1>2, <1>8, <2>1, <2>2 DEF NoneIsMissed
<1>11. QED
  BY <1>4, <1>5, <1>7, <1>9, <1>10 DEF LedgerInv

\* A failed save drops what was found, and says so.
LEMMA FailedSaveKeepsInv ==
  ASSUME LedgerInv, SaveFails
  PROVE  LedgerInv'
<1>1. LedgerTypes /\ LedgersAreRead /\ StepsAreOrdered /\ RowsAreNew /\ NoneIsMissed
  BY DEF LedgerInv
<1>2. /\ UNCHANGED <<script, written, visible, ledger, stored, availability, rows, historic>>
      /\ codexPc = "save" /\ codexPc' = "report" /\ shown' = "error" /\ scan' = [scan EXCEPT !.found = <<>>]
      /\ codexCause' = IF scan.found = <<>> THEN codexCause ELSE codexCause \cup {"dropped"}
  BY DEF SaveFails, files, store
<1>3. UNCHANGED script /\ scan \in Scan
  BY <1>1, <1>2 DEF LedgerTypes
<1>4. scan' \in Scan /\ scan'.found = <<>>
  <2>1. <<>> \in Seq(SUBSET Requests)
    OBVIOUS
  <2>2. QED
    BY <1>2, <1>3, <2>1 DEF Scan
<1>5. /\ codexCause \subseteq codexCause' /\ codexCause' \subseteq codexCause \cup {"dropped"}
      /\ codexCause' = {} => codexCause = {} /\ scan.found = <<>>
  BY <1>2
<1>6. ("lost" \in codexCause' <=> "lost" \in codexCause) /\ ("misread" \in codexCause' <=> "misread" \in codexCause)
  BY <1>5
<1>7. LedgerTypes'
  BY <1>1, <1>2, <1>4, <1>5 DEF LedgerTypes
<1>8. LedgersAreRead'
  BY <1>1, <1>2, <1>3, <1>6, ScriptStays DEF LedgersAreRead
<1>9. StepsAreOrdered'
  BY <1>1, <1>2, <1>4 DEF StepsAreOrdered, Loaded
<1>10. FoundNow' = {} /\ Disjoint(scan.found)'
  BY <1>4, FoundNothingNext
<1>11. RowsAreNew'
  <2>1. ToldBy(stored.keys)' = ToldBy(stored.keys) /\ ToldBy(ledger.keys)' = ToldBy(ledger.keys)
    BY <1>2, <1>3, ScriptStays
  <2>2. QED
    BY <1>1, <1>2, <1>6, <1>10, <2>1 DEF RowsAreNew, Loaded
<1>12. NoneIsMissed'
  <2> SUFFICES ASSUME codexCause' = {} PROVE NoneIsMissed'
    BY DEF NoneIsMissed
  <2>1. RequestsIn(stored)' = RequestsIn(stored) /\ RequestsIn(ledger)' = RequestsIn(ledger)
    BY <1>2, <1>3, ScriptStays
  <2>2. FoundNow = {}
    BY <1>5, FoundNothing
  <2>3. QED
    BY <1>1, <1>2, <1>5, <2>1, <2>2 DEF NoneIsMissed
<1>13. QED
  BY <1>7, <1>8, <1>9, <1>11, <1>12 DEF LedgerInv

\* How often the increments of a poll hold a request.
LEMMA IncrementsCount ==
  ASSUME LedgerTypes, NEW r \in Requests
  PROVE  /\ Increments[r] \in Nat
         /\ Disjoint(scan.found) => Increments[r] = IF r \in FoundNow THEN 1 ELSE 0
<1> DEFINE holds == {i \in DOMAIN scan.found : r \in scan.found[i]}
<1>1. Increments[r] = Cardinality(holds)
  BY DEF Increments
<1>2. IsFiniteSet(holds)
  <2>1. DOMAIN scan.found = 1 .. Len(scan.found) /\ Len(scan.found) \in Nat
    BY DEF LedgerTypes, Scan
  <2>2. IsFiniteSet(1 .. Len(scan.found))
    BY <2>1, FS_Interval
  <2>3. QED
    BY <2>1, <2>2, FS_Subset
<1>3. r \in FoundNow <=> \E i \in DOMAIN scan.found : r \in scan.found[i]
  BY DEF FoundNow, ToSet
<1>4. CASE r \in FoundNow
  <2>1. PICK i \in DOMAIN scan.found : r \in scan.found[i]
    BY <1>3, <1>4
  <2>2. Disjoint(scan.found) => holds = {i}
    BY <2>1 DEF Disjoint
  <2>3. Cardinality({i}) = 1
    BY FS_Singleton
  <2>4. QED
    BY <1>1, <1>2, <1>4, <2>2, <2>3, FS_CardinalityType
<1>5. CASE r \notin FoundNow
  <2>1. holds = {}
    BY <1>3, <1>5
  <2>2. Increments[r] = 0
    BY <1>1, <2>1, FS_EmptySet
  <2>3. QED
    BY <1>5, <2>2
<1>6. QED
  BY <1>4, <1>5

\* The registry stores what a poll found, or withholds it.
LEMMA ReportKeepsLedgers ==
  ASSUME LedgerInv, ReportPoints
  PROVE  LedgerInv'
<1>1. LedgerTypes /\ LedgersAreRead /\ StepsAreOrdered /\ RowsAreNew /\ NoneIsMissed
  BY DEF LedgerInv
<1>2. /\ UNCHANGED <<script, written, visible, ledger, stored, shown, historic>>
      /\ codexPc = "report" /\ codexPc' = "idle" /\ scan' = NoScan
      /\ availability' = Window!Observe(availability, shown, FALSE)
      /\ \/ codexCause' = codexCause /\ rows' = [r \in Requests |-> rows[r] + Increments[r]]
         \/ /\ rows' = rows
            /\ codexCause' = IF scan.found = <<>> THEN codexCause ELSE codexCause \cup {"withheld"}
  BY DEF ReportPoints, files
<1>3. /\ NoScan \in Scan /\ NoScan.found = <<>> /\ ledger.rebuilt
      /\ scan.found # <<>> => stored = ledger
      /\ Window!Observe(availability, shown, FALSE) \in Window!Stabilizer
  BY <1>1, <1>2, ScansAreTyped, WindowTypes DEF LedgerTypes, StepsAreOrdered
<1>4. UNCHANGED script /\ FoundNow' = {} /\ Disjoint(scan.found)'
  BY <1>2, <1>3, FoundNothingNext
<1>5. /\ codexCause \subseteq codexCause' /\ codexCause' \subseteq codexCause \cup {"withheld"}
      /\ codexCause' = {} => codexCause = {}
  BY <1>2
<1>6. ("lost" \in codexCause' <=> "lost" \in codexCause) /\ ("misread" \in codexCause' <=> "misread" \in codexCause)
  BY <1>5
<1>7. \A r \in Requests : rows[r] \in Nat /\ Increments[r] \in Nat
  BY <1>1, IncrementsCount DEF LedgerTypes
<1>8. LedgerTypes'
  <2>1. rows' \in [Requests -> Nat]
    <3>1. \A r \in Requests : rows[r] + Increments[r] \in Nat
      BY <1>7
    <3>2. [r \in Requests |-> rows[r] + Increments[r]] \in [Requests -> Nat]
      BY <3>1
    <3>3. rows \in [Requests -> Nat]
      BY <1>1 DEF LedgerTypes
    <3>4. QED
      BY <1>2, <3>2, <3>3
  <2>2. QED
    BY <1>1, <1>2, <1>3, <1>5, <2>1 DEF LedgerTypes
<1>9. LedgersAreRead'
  BY <1>1, <1>2, <1>4, <1>6, ScriptStays DEF LedgersAreRead
<1>10. StepsAreOrdered'
  BY <1>1, <1>2, <1>3 DEF StepsAreOrdered, Loaded
<1>11. "lost" \notin codexCause =>
         \A r \in Requests :
           /\ Increments[r] = IF r \in FoundNow THEN 1 ELSE 0
           /\ rows[r] <= 1 /\ (r \in FoundNow => rows[r] = 0 /\ r \in ToldBy(ledger.keys))
           /\ rows[r] = 1 => r \in ToldBy(ledger.keys) /\ r \in ToldBy(stored.keys) /\ stored.rebuilt
  <2> SUFFICES ASSUME "lost" \notin codexCause, NEW r \in Requests
               PROVE  /\ Increments[r] = IF r \in FoundNow THEN 1 ELSE 0
                      /\ rows[r] <= 1 /\ (r \in FoundNow => rows[r] = 0 /\ r \in ToldBy(ledger.keys))
                      /\ rows[r] = 1 => r \in ToldBy(ledger.keys) /\ r \in ToldBy(stored.keys) /\ stored.rebuilt
    OBVIOUS
  <2>1. Disjoint(scan.found)
    BY <1>1, <1>2 DEF RowsAreNew, Loaded
  <2>2. Increments[r] = IF r \in FoundNow THEN 1 ELSE 0
    BY <1>1, <2>1, IncrementsCount
  <2>3. QED
    BY <1>1, <1>2, <2>2 DEF RowsAreNew, Loaded
<1>12. FoundNow # {} => stored = ledger
  BY <1>3, FoundNothing
<1>13. "lost" \notin codexCause =>
         \A r \in Requests : rows'[r] = rows[r] \/ (r \in FoundNow /\ rows[r] = 0 /\ rows'[r] = 1)
  <2> SUFFICES ASSUME "lost" \notin codexCause, NEW r \in Requests
               PROVE  rows'[r] = rows[r] \/ (r \in FoundNow /\ rows[r] = 0 /\ rows'[r] = 1)
    OBVIOUS
  <2>1. rows'[r] \in {rows[r], rows[r] + Increments[r]} /\ rows[r] \in Nat
    BY <1>2, <1>7
  <2>2. QED
    BY <1>11, <2>1
<1>14. RowsAreNew'
  <2> SUFFICES ASSUME "lost" \notin codexCause PROVE RowsAreNew'
    BY <1>6 DEF RowsAreNew
  <2>1. ToldBy(stored.keys)' = ToldBy(stored.keys) /\ ToldBy(ledger.keys)' = ToldBy(ledger.keys)
    BY <1>2, <1>4, ScriptStays
  <2>2. \A r \in Requests : rows'[r] <= 1
    BY <1>11, <1>13
  <2>3. \A r \in Requests : rows'[r] = 1 => r \in ToldBy(ledger.keys) /\ r \in ToldBy(stored.keys) /\ stored.rebuilt
    BY <1>3, <1>11, <1>12, <1>13
  <2>4. QED
    BY <1>2, <1>4, <2>1, <2>2, <2>3 DEF RowsAreNew, Loaded
<1>15. NoneIsMissed'
  <2> SUFFICES ASSUME codexCause' = {} PROVE NoneIsMissed'
    BY DEF NoneIsMissed
  <2>1. RequestsIn(stored)' = RequestsIn(stored) /\ RequestsIn(ledger)' = RequestsIn(ledger)
    BY <1>2, <1>4, ScriptStays
  <2>2. \A r \in Requests : rows[r] = 1 \/ r \in FoundNow => rows'[r] = 1
    <3>1. CASE rows' # [r \in Requests |-> rows[r] + Increments[r]]
      <4>1. scan.found = <<>> /\ rows' = rows
        BY <1>2, <3>1
      <4>2. QED
        BY <4>1, FoundNothing
    <3>2. CASE rows' = [r \in Requests |-> rows[r] + Increments[r]]
      BY <1>5, <1>7, <1>11, <3>2
    <3>3. QED
      BY <3>1, <3>2
  <2>3. /\ \A r \in RequestsIn(stored) \ historic : rows[r] = 1 \/ r \in FoundNow
        /\ \A r \in RequestsIn(ledger) \ historic : rows[r] = 1 \/ r \in FoundNow
    BY <1>1, <1>2, <1>5 DEF NoneIsMissed
  <2>4. RequestsIn(stored) \in SUBSET Requests /\ RequestsIn(ledger) \in SUBSET Requests
    BY <1>1, RequestsAreTyped DEF LedgerTypes, LedgersAreRead
  <2>5. QED
    BY <1>2, <2>1, <2>2, <2>3, <2>4 DEF NoneIsMissed
<1>16. QED
  BY <1>8, <1>9, <1>10, <1>14, <1>15 DEF LedgerInv

\* Steps of a start before the collector has its ledger.
LEMMA UnloadedKeepsInv ==
  ASSUME LedgerInv, LedgerTypes', ~Loaded, codexPc' \in {"backup", "replace", "load"},
         UNCHANGED <<script, stored, historic>>, ledger' = ledger \/ ledger' = stored,
         scan' = scan \/ scan' = NoScan, codexCause \subseteq codexCause',
         codexCause' \subseteq codexCause \cup {"migrated"},
         \A r \in Requests : rows'[r] = rows[r] \/ rows'[r] = 0, codexCause' = {} => rows' = rows
  PROVE  LedgerInv'
<1>1. LedgerTypes /\ LedgersAreRead /\ StepsAreOrdered /\ RowsAreNew /\ NoneIsMissed
  BY DEF LedgerInv
<1>2. UNCHANGED script /\ ~Loaded'
  BY DEF Loaded
<1>3. scan'.found = <<>>
  BY <1>1, ScansAreTyped DEF StepsAreOrdered
<1>4. ("lost" \in codexCause' <=> "lost" \in codexCause) /\ ("misread" \in codexCause' <=> "misread" \in codexCause)
  OBVIOUS
<1>5. LedgersAreRead'
  BY <1>1, <1>2, <1>4, ScriptStays DEF LedgersAreRead
<1>6. StepsAreOrdered'
  BY <1>1, <1>2, <1>3 DEF StepsAreOrdered
<1>7. RowsAreNew'
  <2>1. ToldBy(stored.keys)' = ToldBy(stored.keys)
    BY <1>2, ScriptStays
  <2>2. QED
    BY <1>1, <1>2, <1>4, <2>1 DEF RowsAreNew
<1>8. NoneIsMissed'
  <2> SUFFICES ASSUME codexCause' = {} PROVE NoneIsMissed'
    BY DEF NoneIsMissed
  <2>1. RequestsIn(stored)' = RequestsIn(stored)
    BY <1>2, ScriptStays
  <2>2. codexCause = {} /\ rows' = rows
    OBVIOUS
  <2>3. QED
    BY <1>1, <1>2, <2>1, <2>2 DEF NoneIsMissed, Loaded
<1>9. QED
  BY <1>5, <1>6, <1>7, <1>8 DEF LedgerInv

\* The migration decides what is left to do.
LEMMA StartKeepsLedgers ==
  ASSUME LedgerInv, StartMigration
  PROVE  LedgerInv'
<1>1. LedgerTypes /\ LedgersAreRead /\ StepsAreOrdered /\ RowsAreNew /\ NoneIsMissed
  BY DEF LedgerInv
<1>2. /\ UNCHANGED <<script, written, visible, stored, availability, shown, rows, historic, codexCause>>
      /\ codexPc = "start"
      /\ \/ codexPc' = "load" /\ UNCHANGED <<ledger, scan>>
         \/ codexPc' = "backup" /\ ledger' = stored /\ scan' = scan
         \/ /\ codexPc' = "scan" /\ ledger' = EmptyLedger /\ ~stored.rebuilt
            /\ scan' = [NoScan EXCEPT !.mode = "migrate", !.sizes = Sizes]
  BY DEF StartMigration, files, store
<1>3. ~Loaded /\ script \in Scripts /\ UNCHANGED script
  BY <1>1, <1>2 DEF Loaded, LedgerTypes
<1>4. CASE codexPc' # "scan"
  <2>1. LedgerTypes'
    BY <1>1, <1>2, <1>4 DEF LedgerTypes
  <2>2. ledger' = ledger \/ ledger' = stored
    BY <1>2, <1>4
  <2>3. codexPc' \in {"backup", "replace", "load"} /\ scan' = scan
    BY <1>2, <1>4
  <2>4. QED
    BY <1>2, <1>3, <2>1, <2>2, <2>3, UnloadedKeepsInv
<1>5. CASE codexPc' = "scan"
  <2>1. ledger' = EmptyLedger /\ ~stored.rebuilt /\ scan' = [NoScan EXCEPT !.mode = "migrate", !.sizes = Sizes]
    BY <1>2, <1>5
  <2>2. /\ scan' \in Scan /\ scan'.found = <<>> /\ scan'.read = 0 /\ scan'.mode = "migrate"
    <3>1. scan' = [mode |-> "migrate", sizes |-> Sizes, left |-> 0, read |-> 0, found |-> <<>>]
      BY <2>1 DEF NoScan
    <3>2. QED
      BY <1>1, <3>1, ScansAreTyped
  <2>3. /\ EmptyLedger \in Ledger /\ ReadInOrder(EmptyLedger) /\ Counts(EmptyLedger) /\ ~EmptyLedger.rebuilt
    BY <1>3, EmptyIsRead
  <2>4. LedgerTypes'
    BY <1>1, <1>2, <1>5, <2>1, <2>2, <2>3 DEF LedgerTypes
  <2>5. LedgersAreRead'
    BY <1>1, <1>2, <1>3, <2>1, <2>3, ScriptStays DEF LedgersAreRead
  <2>6. StepsAreOrdered'
    BY <1>1, <1>2, <1>5, <2>1, <2>2 DEF StepsAreOrdered, Loaded
  <2>7. FoundNow' = {} /\ Disjoint(scan.found)'
    BY <2>2, FoundNothingNext
  <2>8. RowsAreNew'
    <3>1. "lost" \notin codexCause => \A r \in Requests : rows[r] <= 1 /\ rows[r] # 1
      BY <1>1, <2>1 DEF RowsAreNew
    <3>2. QED
      BY <1>2, <2>7, <3>1 DEF RowsAreNew
  <2>9. NoneIsMissed'
    <3>1. RequestsIn(stored)' = RequestsIn(stored)
      BY <1>2, <1>3, ScriptStays
    <3>2. QED
      BY <1>1, <1>2, <1>5, <2>2, <3>1 DEF NoneIsMissed
  <2>10. QED
    BY <2>4, <2>5, <2>6, <2>8, <2>9 DEF LedgerInv
<1>6. QED
  BY <1>4, <1>5

\* The old rows are backed up, and replaced.
LEMMA MigrationKeepsLedgers ==
  ASSUME LedgerInv, Backup \/ ReplaceHistory
  PROVE  LedgerInv'
<1>1. LedgerTypes /\ LedgersAreRead /\ StepsAreOrdered /\ RowsAreNew /\ NoneIsMissed
  BY DEF LedgerInv
<1>2. CASE Backup
  <2>1. /\ UNCHANGED <<script, written, visible, ledger, stored, scan, availability, shown, rows, historic, codexCause>>
        /\ codexPc = "backup" /\ codexPc' = "replace"
    BY <1>2 DEF Backup, files
  <2>2. LedgerTypes' /\ ~Loaded
    BY <1>1, <2>1 DEF LedgerTypes, Loaded
  <2>3. QED
    BY <2>1, <2>2, UnloadedKeepsInv
<1>3. CASE ReplaceHistory
  <2>1. /\ UNCHANGED <<script, written, visible, ledger, stored, availability, shown, historic>>
        /\ codexPc = "replace" /\ codexPc' = "load" /\ scan' = NoScan
        /\ \/ rows' = rows /\ codexCause' = codexCause
           \/ /\ rows' = [r \in Requests |-> 0]
              /\ codexCause' = IF \E r \in Requests : rows[r] > 0 THEN codexCause \cup {"migrated"} ELSE codexCause
    BY <1>3 DEF ReplaceHistory, files
  <2>2. rows \in [Requests -> Nat] /\ NoScan \in Scan
    BY <1>1, ScansAreTyped DEF LedgerTypes
  <2>3. rows' \in [Requests -> Nat] /\ \A r \in Requests : rows'[r] = rows[r] \/ rows'[r] = 0
    BY <2>1, <2>2
  <2>4. /\ codexCause \subseteq codexCause' /\ codexCause' \subseteq codexCause \cup {"migrated"}
    BY <2>1
  <2>5. codexCause' = {} => rows' = rows
    <3> SUFFICES ASSUME codexCause' = {}, rows' = [r \in Requests |-> 0],
                        ~\E r \in Requests : rows[r] > 0
                 PROVE  rows' = rows
      BY <2>1
    <3>1. \A r \in Requests : rows[r] = 0
      BY <2>2
    <3>2. QED
      BY <2>2, <3>1
  <2>6. LedgerTypes' /\ ~Loaded
    BY <1>1, <2>1, <2>2, <2>3, <2>4 DEF LedgerTypes, Loaded
  <2>7. QED
    BY <2>1, <2>3, <2>4, <2>5, <2>6, UnloadedKeepsInv
<1>4. QED
  BY <1>2, <1>3

\* The collector loads the ledger, or finds that it cannot.
LEMMA LoadKeepsInv ==
  ASSUME LedgerInv, Load
  PROVE  LedgerInv'
<1>1. LedgerTypes /\ LedgersAreRead /\ StepsAreOrdered /\ RowsAreNew /\ NoneIsMissed
  BY DEF LedgerInv
<1>2. /\ UNCHANGED <<script, written, visible, stored, scan, availability, shown, rows, historic, codexCause>>
      /\ codexPc = "load" /\ codexPc' = "idle" /\ ledger' = stored
  BY DEF Load, files, store
<1>3. UNCHANGED script /\ scan.found = <<>>
  BY <1>1, <1>2 DEF StepsAreOrdered, Loaded
<1>4. scan'.found = <<>> /\ FoundNow' = {} /\ Disjoint(scan.found)'
  BY <1>2, <1>3, FoundNothingNext
<1>5. LedgerTypes'
  BY <1>1, <1>2 DEF LedgerTypes
<1>6. LedgersAreRead'
  BY <1>1, <1>2, <1>3, ScriptStays DEF LedgersAreRead
<1>7. StepsAreOrdered'
  BY <1>1, <1>2, <1>4 DEF StepsAreOrdered, Loaded
<1>8. RowsAreNew'
  <2>1. ToldBy(stored.keys)' = ToldBy(stored.keys) /\ ToldBy(ledger.keys)' = ToldBy(stored.keys)
    BY <1>2, <1>3, ScriptStays
  <2>2. QED
    BY <1>1, <1>2, <1>4, <2>1 DEF RowsAreNew
<1>9. NoneIsMissed'
  <2>1. RequestsIn(stored)' = RequestsIn(stored) /\ RequestsIn(ledger)' = RequestsIn(stored)
    BY <1>2, <1>3, ScriptStays
  <2>2. QED
    BY <1>1, <1>2, <2>1 DEF NoneIsMissed
<1>10. QED
  BY <1>5, <1>6, <1>7, <1>8, <1>9 DEF LedgerInv

\* A ledger that cannot be read is an empty one, and lost.
LEMMA FailedLoadKeepsInv ==
  ASSUME LedgerInv, LoadFails
  PROVE  LedgerInv'
<1>1. LedgerTypes /\ LedgersAreRead /\ StepsAreOrdered
  BY DEF LedgerInv
<1>2. /\ UNCHANGED <<script, written, visible, stored, scan, availability, shown, rows, historic>>
      /\ codexPc = "load" /\ codexPc' = "idle" /\ ledger' = EmptyLedger
      /\ codexCause' = codexCause \cup {"lost"}
  BY DEF LoadFails, files, store
<1>3. UNCHANGED script /\ script \in Scripts /\ scan'.found = <<>>
  BY <1>1, <1>2 DEF StepsAreOrdered, Loaded, LedgerTypes
<1>4. EmptyLedger \in Ledger /\ ReadInOrder(EmptyLedger) /\ Counts(EmptyLedger)
  BY <1>3, EmptyIsRead
<1>5. "lost" \in codexCause' /\ codexCause' # {} /\ ("misread" \in codexCause' <=> "misread" \in codexCause)
  BY <1>2
<1>6. LedgerTypes'
  BY <1>1, <1>2, <1>4 DEF LedgerTypes
<1>7. LedgersAreRead'
  BY <1>1, <1>2, <1>3, <1>4, <1>5, ScriptStays DEF LedgersAreRead
<1>8. StepsAreOrdered'
  BY <1>1, <1>2, <1>3, <1>5 DEF StepsAreOrdered, Loaded
<1>9. RowsAreNew' /\ NoneIsMissed'
  BY <1>5 DEF RowsAreNew, NoneIsMissed
<1>10. QED
  BY <1>6, <1>7, <1>8, <1>9 DEF LedgerInv

\* The Agent ends and is started again.
LEMMA CrashKeepsLedgers ==
  ASSUME LedgerInv, CodexCrash
  PROVE  LedgerInv'
<1>1. LedgerTypes /\ LedgersAreRead /\ StepsAreOrdered /\ RowsAreNew /\ NoneIsMissed
  BY DEF LedgerInv
<1>2. /\ UNCHANGED <<script, written, visible, stored, rows, historic>>
      /\ codexPc' = "start" /\ scan' = NoScan /\ ledger' = EmptyLedger
      /\ availability' = Window!Confirmed("available") /\ shown' = "available"
      /\ codexCause' = IF codexPc = "report" /\ scan.found # <<>> THEN codexCause \cup {"dropped"} ELSE codexCause
  BY DEF CodexCrash, files, store
<1>3. UNCHANGED script /\ script \in Scripts /\ NoScan \in Scan /\ scan'.found = <<>> /\ ~Loaded'
  BY <1>1, <1>2, ScansAreTyped DEF Loaded, LedgerTypes
<1>4. EmptyLedger \in Ledger /\ ReadInOrder(EmptyLedger) /\ Counts(EmptyLedger)
  BY <1>3, EmptyIsRead
<1>5. /\ codexCause \subseteq codexCause' /\ codexCause' \subseteq codexCause \cup {"dropped"}
      /\ codexCause' = {} => codexCause = {} /\ (codexPc = "report" => scan.found = <<>>)
  BY <1>2
<1>6. ("lost" \in codexCause' <=> "lost" \in codexCause) /\ ("misread" \in codexCause' <=> "misread" \in codexCause)
  BY <1>5
<1>7. LedgerTypes'
  BY <1>1, <1>2, <1>3, <1>4, <1>5, WindowTypes DEF LedgerTypes
<1>8. LedgersAreRead'
  BY <1>1, <1>2, <1>3, <1>4, <1>6, ScriptStays DEF LedgersAreRead
<1>9. StepsAreOrdered'
  BY <1>1, <1>2, <1>3 DEF StepsAreOrdered
<1>10. RowsAreNew'
  <2>1. ToldBy(stored.keys)' = ToldBy(stored.keys)
    BY <1>2, <1>3, ScriptStays
  <2>2. QED
    BY <1>1, <1>2, <1>3, <1>6, <2>1 DEF RowsAreNew
<1>11. NoneIsMissed'
  <2> SUFFICES ASSUME codexCause' = {} PROVE NoneIsMissed'
    BY DEF NoneIsMissed
  <2>1. RequestsIn(stored)' = RequestsIn(stored)
    BY <1>2, <1>3, ScriptStays
  <2>2. codexCause = {} /\ (codexPc = "report" => FoundNow = {})
    BY <1>5, FoundNothing
  <2>3. QED
    BY <1>1, <1>2, <2>1, <2>2 DEF NoneIsMissed
<1>12. QED
  BY <1>7, <1>8, <1>9, <1>10, <1>11 DEF LedgerInv

\* The invariant reads no other variable.
LEMMA LedgerStutters ==
  ASSUME LedgerInv, UNCHANGED codexVars
  PROVE  LedgerInv'
<1>1. LedgerTypes
  BY DEF LedgerInv
<1>2. /\ UNCHANGED <<script, written, visible, ledger, stored, codexPc, scan, availability, shown, rows, historic, codexCause>>
  BY DEF codexVars
<1>3. LedgerTypes'
  BY <1>1, <1>2 DEF LedgerTypes
<1>4. QED
  BY <1>2, <1>3, StandingKeepsInv

\* Every step keeps the invariant: one case per action.
LEMMA CodexStepKeepsInv ==
  ASSUME LedgerInv, CodexNext
  PROVE  LedgerInv'
<1>1. CASE \E f \in Rollout : SkipFile(f) \/ IngestFile(f) \/ ReadRolloutFails(f)
  BY <1>1, SkipKeepsInv, IngestKeepsInv, FailedReadKeepsInv
<1>2. CASE \E f \in Rollout : WriteRollout(f) \/ MoveRollout(f)
  BY <1>2, FilesKeepInv
<1>3. CASE Poll \/ EndScan \/ Save \/ SaveFails \/ ReportPoints \/ CachedReport
  BY <1>3, PollKeepsLedgers, EndScanKeepsInv, SaveKeepsLedgers, FailedSaveKeepsInv, ReportKeepsLedgers,
     CachedKeepsInv
<1>4. CASE StartMigration \/ Backup \/ ReplaceHistory \/ Load \/ LoadFails \/ CodexCrash
  BY <1>4, StartKeepsLedgers, MigrationKeepsLedgers, LoadKeepsInv, FailedLoadKeepsInv, CrashKeepsLedgers
<1>5. QED
  BY <1>1, <1>2, <1>3, <1>4 DEF CodexNext

\* At every step of polls, saves, reports, starts and crashes the ledger's entries are what parsing
\* each file alone gives, its keys and tokens are those of the records consumed, and every
\* request of them is stored, about to be stored or was there at the rebuild
\* (codex_sampling.py:661, :817; codex.py:335).
THEOREM LedgerInvariance == CodexSpec => []LedgerInv
<1>1. LedgerInv /\ [CodexNext]_codexVars => LedgerInv'
  BY CodexStepKeepsInv, LedgerStutters
<1>2. QED
  BY <1>1, InitLedgerInv, PTL DEF CodexSpec

\* Whatever Codex writes, in whatever order the files are read, in how many polls and across
\* restarts and moves, the ledger holds the tokens of every request it has read once, and the
\* audit's independent replay of the files comes to the same (codex_sampling.py:661, :453).
THEOREM LedgerStaysExact == CodexSpec => []LedgerIsExact
<1>1. LedgerInv => LedgerIsExact
  <2> SUFFICES ASSUME LedgerInv, "misread" \notin codexCause
               PROVE  /\ ledger.tokens = SumFunctionOnSet(Weight, RequestsIn(ledger))
                      /\ ledger.tokens = Audit(ledger).tokens
    BY DEF LedgerIsExact
  <2>1. script \in Scripts /\ ledger \in Ledger /\ ReadInOrder(ledger) /\ Counts(ledger)
    BY DEF LedgerInv, LedgerTypes, LedgersAreRead
  <2>2. Audit(ledger).tokens = SumFunctionOnSet(Weight, RequestsIn(ledger))
    BY <2>1, AuditCounts
  <2>3. QED
    BY <2>1, <2>2 DEF Counts
<1>2. QED
  BY <1>1, LedgerInvariance, PTL

\* No request is stored twice unless the ledger was lost; between two polls each one that the
\* ledger gained since its rebuild is stored, unless a save failed, a crash fell between save
\* and commit, the registry withheld the poll or the migration came late (codex.py:335).
THEOREM RowsStayMatched == CodexSpec => []RowsMatchTheLedger
<1>1. LedgerInv => RowsMatchTheLedger
  <2> SUFFICES ASSUME LedgerInv PROVE RowsMatchTheLedger
    OBVIOUS
  <2>1. LedgerTypes /\ StepsAreOrdered /\ RowsAreNew /\ NoneIsMissed
    BY DEF LedgerInv
  <2>2. codexCause \cap {"lost"} = {} => \A r \in Requests : rows[r] <= 1
    BY <2>1 DEF RowsAreNew
  <2>3. ASSUME codexPc = "idle", codexCause = {}, NEW r \in RequestsIn(ledger) \ historic
        PROVE  rows[r] = 1
    <3>1. FoundNow = {}
      BY <2>1, <2>3, FoundNothing DEF StepsAreOrdered
    <3>2. QED
      BY <2>1, <2>3, <3>1 DEF NoneIsMissed
  <2>4. QED
    BY <2>2, <2>3 DEF RowsMatchTheLedger
<1>2. QED
  BY <1>1, LedgerInvariance, PTL

\* Offsets stay inside their files and files inside what was written, and every part of the
\* scan, the registry's window, the rows and the migration keeps its type
\* (codex_sampling.py:661, codex_migration.py:66).
THEOREM CodexKeepsTypes == CodexSpec => []CodexTypeOK
<1>1. LedgerInv => CodexTypeOK
  <2> SUFFICES ASSUME LedgerInv PROVE CodexTypeOK
    OBVIOUS
  <2>1. LedgerTypes /\ ReadInOrder(ledger) /\ ReadInOrder(stored)
    BY DEF LedgerInv, LedgersAreRead
  <2>2. \A l \in {ledger, stored} : \A f \in Rollout : l.entry[f].offset \in 0 .. Len(script[f])
    <3>1. TAKE l \in {ledger, stored}
    <3>2. TAKE f \in Rollout
    <3>3. l \in Ledger /\ ReadInOrder(l) /\ Len(script[f]) \in Nat
      BY <2>1, ScriptsAreTyped DEF LedgerTypes
    <3>4. l.entry[f].offset \in Nat /\ l.entry[f].offset <= Len(script[f])
      BY <3>3 DEF Ledger, ReadInOrder
    <3>5. QED
      BY <3>3, <3>4
  <2>3. scan.mode \in {"none", "rebuild", "update", "migrate"}
    BY <2>1 DEF LedgerTypes, Scan
  <2>4. QED
    BY <2>1, <2>2, <2>3 DEF CodexTypeOK, LedgerTypes
<1>2. QED
  BY <1>1, LedgerInvariance, PTL

-------------------------------------------------------------------------------
(* Counters of a day. *)

\* The requests whose usage was recorded on a day, their tokens of a model, and what kept
\* totals say of it.
SettledOn(d) == {r \in Uses : settledOn[r] = d}
Tally(rs, m) == TokensOf(OfModel(rs, m))
Known(c, m) == IF m \in DOMAIN c.totals THEN c.totals[m] ELSE 0
KnownToday(c, m) == IF c.day = day THEN Known(c, m) ELSE 0
Settled == SettledOn(day)
Under == counted \cup reading

Totals == [day : 0 .. day, totals : UNION {[D -> Nat] : D \in SUBSET Scopes}]

\* Kept totals are numbers per scope, none before the first day, and every request that a
\* poll reported was recorded by then.
CounterTypes ==
    /\ CountersTypeOK
    /\ memory \in Totals /\ checkpoint \in Totals
    /\ \A c \in {memory, checkpoint} : c.day = 0 => c.totals = <<>>
    /\ collector \in {"opencode", "antigravity", "infer-runtime"}
    /\ \A r \in Uses : settledOn[r] <= day
    /\ "shrunk" \notin counterCause => readable = Uses
    /\ \A r \in Under \cup baselined : r \in Uses /\ settledOn[r] > 0

\* The steps of a poll in their order: what is measured at each, and of which day.
PollsAreOrdered ==
    /\ collector # "antigravity" => baselined = {}
    /\ counterPc = "idle" => deltas = NoDeltas /\ reading = {}
    /\ counterPc = "save" => collector # "antigravity" /\ checkpoint.day <= memory.day
    /\ collector = "infer-runtime" => checkpoint.day <= memory.day
    /\ counterPc = "save" \/ reading # {} =>
        /\ \A r \in Under : settledOn[r] <= memory.day
        /\ \A r \in reading : settledOn[r] = memory.day
    /\ collector = "antigravity" /\ memory.totals # <<>> =>
        \A r \in Under \cup baselined : settledOn[r] <= memory.day

\* No more, and as much if nothing went wrong.
Fits(a, b) == a <= b /\ (counterCause = {} => a = b)

\* A model's kept total is no more than the usage of its day that there is now.
TotalsAreRead ==
    "shrunk" \notin counterCause =>
        \A c \in {memory, checkpoint}, m \in Models : Known(c, m) <= Tally(SettledOn(c.day), m)

\* The committed increments are the usage of the requests reported, with those under way the
\* usage of the requests read; what is compared with next, in memory or in the checkpoint,
\* stands for the requests of today among them, so that no later poll counts one twice.
UsageAddsUp ==
    counterCause \cap {"lost", "shrunk"} = {} => \A m \in Models :
        /\ Fits(metered[m], Tally(counted, m))
        /\ Fits(metered[m] + deltas[m], Tally(Under, m))
        /\ memory.day = day /\ (collector = "antigravity" => memory.totals # <<>>) =>
            Fits(metered[m] + deltas[m] + Tally(baselined \cap Settled, m),
                 Known(memory, m) + Tally(Under \ Settled, m))
        /\ collector # "antigravity" =>
            IF counterPc = "save"
            THEN Fits(metered[m], KnownToday(checkpoint, m) + Tally(counted \ Settled, m))
            ELSE Fits(metered[m] + deltas[m], KnownToday(checkpoint, m) + Tally(Under \ Settled, m))

\* The scope of the whole is the sum of the models.
WholeIsTheSum ==
    /\ collector = "infer-runtime" => \A c \in {memory, checkpoint} : DOMAIN c.totals \subseteq Models
    /\ "shrunk" \notin counterCause /\ collector # "antigravity" =>
        /\ metered["all"] = SumFunctionOnSet(metered, Models)
        /\ deltas["all"] = SumFunctionOnSet(deltas, Models)
        /\ collector = "opencode" => \A c \in {memory, checkpoint} :
            Known(c, "all") = SumFunctionOnSet([m \in Models |-> Known(c, m)], Models)

CounterInv == CounterTypes /\ PollsAreOrdered /\ TotalsAreRead /\ UsageAddsUp /\ WholeIsTheSum

-------------------------------------------------------------------------------
\* Tallies of sets of requests.
LEMMA UsesAreFinite ==
  /\ IsFiniteSet(Uses) /\ IsFiniteSet(Models) /\ "all" \notin Models
  /\ \A r \in Uses : Tokens[r] \in Nat /\ ModelOf[r] \in Models
<1>1. IsFiniteSet(Uses)
  BY DayCountersAssumption DEF Uses
<1>2. IsFiniteSet(Models)
  <2>1. [r \in Uses |-> ModelOf[r]] \in Surjection(Uses, Models)
    BY DEF Models, Surjection, Range
  <2>2. QED
    BY <1>1, <2>1, FS_Surjection
<1>3. QED
  BY <1>1, <1>2, DayCountersAssumption DEF Uses, Models

\* The tokens of finitely many requests are a natural number.
LEMMA TallyIsNatural ==
  ASSUME NEW R \in SUBSET Uses, NEW m
  PROVE  Tally(R, m) \in Nat
<1>1. OfModel(R, m) \in SUBSET Uses /\ IsFiniteSet(OfModel(R, m))
  BY UsesAreFinite, FS_Subset DEF OfModel
<1>2. QED
  BY <1>1, SumIsNatural, UsesAreFinite DEF Tally, TokensOf

\* A model without requests has no tokens.
LEMMA TallyOfNone ==
  ASSUME NEW R, NEW m, \A r \in R : ModelOf[r] # m
  PROVE  Tally(R, m) = 0
<1>1. OfModel(R, m) = {}
  BY DEF OfModel
<1>2. QED
  BY <1>1, SumOfNone DEF Tally, TokensOf

\* The tokens of some requests split at any part of them.
LEMMA TallySplits ==
  ASSUME NEW R \in SUBSET Uses, NEW Q \in SUBSET R, NEW m
  PROVE  /\ Tally(R, m) = Tally(Q, m) + Tally(R \ Q, m)
         /\ Tally(R, m) \in Nat /\ Tally(Q, m) \in Nat /\ Tally(R \ Q, m) \in Nat
         /\ Tally(Q, m) <= Tally(R, m)
<1>1. OfModel(R, m) \in SUBSET Uses /\ IsFiniteSet(OfModel(R, m))
  BY UsesAreFinite, FS_Subset DEF OfModel
<1>2. OfModel(Q, m) \in SUBSET OfModel(R, m) /\ OfModel(R, m) \ OfModel(Q, m) = OfModel(R \ Q, m)
  BY DEF OfModel
<1>3. \A x \in OfModel(R, m) : Tokens[x] \in Nat
  BY <1>1, UsesAreFinite
<1> DEFINE all == OfModel(R, m)
           some == OfModel(Q, m)
           rest == OfModel(R \ Q, m)
<1>4. rest = all \ some /\ some \in SUBSET all /\ IsFiniteSet(all) /\ \A x \in all : Tokens[x] \in Nat
  BY <1>1, <1>2, <1>3
<1>5. Tally(R, m) = SumFunctionOnSet(Tokens, all) /\ Tally(Q, m) = SumFunctionOnSet(Tokens, some)
      /\ Tally(R \ Q, m) = SumFunctionOnSet(Tokens, rest)
  BY DEF Tally, TokensOf
<1> HIDE DEF all, some, rest
<1>6. /\ SumFunctionOnSet(Tokens, some) \in Nat /\ SumFunctionOnSet(Tokens, all) \in Nat
      /\ SumFunctionOnSet(Tokens, all) = SumFunctionOnSet(Tokens, some) + SumFunctionOnSet(Tokens, all \ some)
      /\ SumFunctionOnSet(Tokens, all \ some) \in Nat
      /\ SumFunctionOnSet(Tokens, some) <= SumFunctionOnSet(Tokens, all)
  <2>1. \A T \in SUBSET all :
          /\ SumFunctionOnSet(Tokens, T) \in Nat /\ SumFunctionOnSet(Tokens, all) \in Nat
          /\ SumFunctionOnSet(Tokens, all) = SumFunctionOnSet(Tokens, T) + SumFunctionOnSet(Tokens, all \ T)
          /\ SumFunctionOnSet(Tokens, all \ T) \in Nat
          /\ SumFunctionOnSet(Tokens, T) <= SumFunctionOnSet(Tokens, all)
    BY <1>4, SumGrows, Zenon
  <2>2. QED
    BY <1>4, <2>1, Zenon
<1>7. SumFunctionOnSet(Tokens, rest) = SumFunctionOnSet(Tokens, all \ some)
  BY <1>4
<1>8. QED
  BY <1>5, <1>6, <1>7

\* Between two functions one of which is nowhere the smaller.
LEMMA ModelSumsCompare ==
  ASSUME NEW f, NEW g, NEW h,
         \A m \in Models : f[m] \in Nat /\ g[m] \in Nat /\ f[m] <= g[m] /\ h[m] = g[m] - f[m]
  PROVE  /\ SumFunctionOnSet(f, Models) \in Nat /\ SumFunctionOnSet(g, Models) \in Nat
         /\ SumFunctionOnSet(h, Models) \in Nat
         /\ SumFunctionOnSet(g, Models) = SumFunctionOnSet(f, Models) + SumFunctionOnSet(h, Models)
<1> DEFINE S == Models
<1>1. /\ \A x \in S : f[x] \in Nat /\ h[x] \in Nat /\ g[x] = f[x] + h[x] /\ g[x] \in Nat
      /\ IsFiniteSet(S)
  BY UsesAreFinite
<1> HIDE DEF S
<1>2. SumFunctionOnSet(g, S) = SumFunctionOnSet(f, S) + SumFunctionOnSet(h, S)
  BY <1>1, SumOfBoth
<1>3. SumFunctionOnSet(f, S) \in Nat /\ SumFunctionOnSet(g, S) \in Nat /\ SumFunctionOnSet(h, S) \in Nat
  BY <1>1, SumIsNatural
<1>4. QED
  BY <1>2, <1>3 DEF S

\* The whole of some requests is the sum over the models.
LEMMA WholeOfRequests ==
  ASSUME NEW R \in SUBSET Uses
  PROVE  TokensOf(R) = SumFunctionOnSet([m \in Models |-> Tally(R, m)], Models)
<1>1. IsFiniteSet(R) /\ \A x \in R : Tokens[x] \in Nat /\ ModelOf[x] \in Models
  BY UsesAreFinite, FS_Subset
<1>2. SumFunctionOnSet(Tokens, R) =
        SumFunctionOnSet([m \in Models |-> SumFunctionOnSet(Tokens, {x \in R : ModelOf[x] = m})], Models)
  BY <1>1, UsesAreFinite, SumOfParts
<1>3. QED
  BY <1>2 DEF Tally, TokensOf, OfModel

\* The whole of totals kept for some of the models.
Filled(t) == [m \in Models |-> IF m \in DOMAIN t THEN t[m] ELSE 0]

\* The whole of some totals is their sum over all models.
LEMMA WholeOfTotals ==
  ASSUME NEW t, DOMAIN t \in SUBSET Models, \A m \in DOMAIN t : t[m] \in Nat
  PROVE  Whole(t) = SumFunctionOnSet(Filled(t), Models)
<1> DEFINE f == Filled(t)
<1>1. \A m \in Models : f[m] = IF m \in DOMAIN t THEN t[m] ELSE 0
  BY DEF Filled
<1> HIDE DEF f
<1>2. SumFunctionOnSet(f, Models) = SumFunctionOnSet(t, DOMAIN t)
  BY <1>1, UsesAreFinite, SumOfFilled
<1>3. QED
  BY <1>2 DEF Whole, f

-------------------------------------------------------------------------------
\* What a poll reads.
LEMMA ReadingOfToday ==
  ASSUME CounterTypes
  PROVE  /\ ReadToday \in SUBSET Uses /\ DOMAIN ModelTotals \in SUBSET Models
         /\ \A m \in DOMAIN ModelTotals : ModelTotals[m] \in Nat /\ ModelTotals[m] = Tally(ReadToday, m)
         /\ \A m \in Models \ DOMAIN ModelTotals : Tally(ReadToday, m) = 0
         /\ "shrunk" \notin counterCause => ReadToday = Settled
<1>1. ReadToday \in SUBSET Uses /\ DOMAIN ModelTotals = {ModelOf[r] : r \in ReadToday}
  BY DEF CounterTypes, CountersTypeOK, ReadToday, ModelTotals
<1>2. DOMAIN ModelTotals \in SUBSET Models
  BY <1>1 DEF Models
<1>3. \A m \in DOMAIN ModelTotals : ModelTotals[m] = Tally(ReadToday, m)
  BY DEF ModelTotals, Tally
<1>4. \A m : Tally(ReadToday, m) \in Nat
  BY <1>1, TallyIsNatural
<1>5. \A m \in Models \ DOMAIN ModelTotals : Tally(ReadToday, m) = 0
  BY <1>1, TallyOfNone
<1>6. "shrunk" \notin counterCause => ReadToday = Settled
  BY DEF CounterTypes, ReadToday, Settled, SettledOn
<1>7. QED
  BY <1>1, <1>2, <1>3, <1>4, <1>5, <1>6

-------------------------------------------------------------------------------
\* What each collector compares with, and the increments that follow.
At(t, key) == IF key \in DOMAIN t THEN t[key] ELSE 0

\* An increment is at most the new total, and exact where the total did not shrink.
LEMMA IncreaseIsBounded ==
  ASSUME NEW t, NEW key, NEW n \in Nat, key \in DOMAIN t => t[key] \in Nat
  PROVE  /\ Increase(t, key, n) \in Nat /\ Increase(t, key, n) <= n
         /\ At(t, key) \in Nat
         /\ At(t, key) <= n => Increase(t, key, n) = n - At(t, key)
  BY DEF Increase, At

\* A checkpoint's totals are naturals, of a day that has begun.
LEMMA TotalsShape ==
  ASSUME NEW c \in Totals
  PROVE  /\ c.day \in 0 .. day /\ DOMAIN c.totals \in SUBSET Scopes
         /\ \A k \in DOMAIN c.totals : c.totals[k] \in Nat
         /\ \A k : At(c.totals, k) \in Nat /\ At(c.totals, k) = Known(c, k)
  BY DEF Totals, At, Known

\* Totals of today are a checkpoint's totals.
LEMMA TotalsOf ==
  ASSUME NEW t, NEW D \in SUBSET Scopes, t \in [D -> Nat], day \in Nat
  PROVE  [day |-> day, totals |-> t] \in Totals
  BY DEF Totals

\* A missing checkpoint holds nothing.
LEMMA NothingKept == NoTotals.day = 0 /\ NoTotals.totals = <<>> /\ DOMAIN NoTotals.totals = {}
  BY DEF NoTotals

\* OpenCode compares with the totals it has, else with the checkpoint of the same day.
LEMMA OpenCodeCompares ==
  ASSUME CounterTypes
  PROVE  \/ memory.day = day /\ OpenCodePrevious = memory.totals
         \/ memory.day # day /\ checkpoint.day = day /\ OpenCodePrevious = checkpoint.totals
         \/ memory.day # day /\ checkpoint.day # day /\ OpenCodePrevious = <<>>
  BY DEF OpenCodePrevious

\* The totals OpenCode compares with are naturals.
LEMMA OpenCodePreviousShape ==
  ASSUME CounterTypes
  PROVE  /\ DOMAIN OpenCodePrevious \in SUBSET Scopes
         /\ \A k \in DOMAIN OpenCodePrevious : OpenCodePrevious[k] \in Nat
         /\ \A k : At(OpenCodePrevious, k) \in Nat
<1>1. memory \in Totals /\ checkpoint \in Totals
  BY DEF CounterTypes
<1>2. DOMAIN OpenCodePrevious \in SUBSET Scopes /\ \A k \in DOMAIN OpenCodePrevious : OpenCodePrevious[k] \in Nat
  BY <1>1, TotalsShape, OpenCodeCompares
<1>3. QED
  BY <1>2 DEF At

\* The totals OpenCode reads have one entry per model of the day, and the whole.
LEMMA OpenCodeCurrentShape ==
  ASSUME CounterTypes
  PROVE  /\ DOMAIN OpenCodeCurrent = DOMAIN ModelTotals \cup {"all"} /\ DOMAIN OpenCodeCurrent \in SUBSET Scopes
         /\ \A k \in DOMAIN OpenCodeCurrent : OpenCodeCurrent[k] \in Nat
         /\ OpenCodeCurrent["all"] = TokensOf(ReadToday)
         /\ \A m \in Models : (m \in DOMAIN OpenCodeCurrent <=> m \in DOMAIN ModelTotals)
                              /\ (m \in DOMAIN ModelTotals => OpenCodeCurrent[m] = ModelTotals[m])
<1>1. DOMAIN OpenCodeCurrent = DOMAIN ModelTotals \cup {"all"} /\ "all" \in DOMAIN OpenCodeCurrent
  BY DEF OpenCodeCurrent
<1>2. TokensOf(ReadToday) \in Nat
  <2>1. IsFiniteSet(ReadToday) /\ \A r \in ReadToday : Tokens[r] \in Nat
    BY ReadingOfToday, UsesAreFinite, FS_Subset
  <2>2. QED
    BY <2>1, SumIsNatural DEF TokensOf
<1>3. \A k \in DOMAIN OpenCodeCurrent : OpenCodeCurrent[k] = IF k = "all" THEN TokensOf(ReadToday) ELSE ModelTotals[k]
  BY DEF OpenCodeCurrent
<1>4. QED
  BY <1>1, <1>2, <1>3, ReadingOfToday, UsesAreFinite DEF Scopes

\* What an OpenCode poll computes has its type.
LEMMA OpenCodeTypes ==
  ASSUME CounterTypes
  PROVE  /\ OpenCodeDeltas \in [Scopes -> Nat]
         /\ [day |-> day, totals |-> OpenCodeMemory] \in Totals
<1>1. ASSUME NEW s \in DOMAIN OpenCodeCurrent
      PROVE  Increase(OpenCodePrevious, s, OpenCodeCurrent[s]) \in Nat
  <2>1. OpenCodeCurrent[s] \in Nat
    BY OpenCodeCurrentShape
  <2>2. s \in DOMAIN OpenCodePrevious => OpenCodePrevious[s] \in Nat
    BY OpenCodePreviousShape
  <2>3. QED
    BY <2>1, <2>2, IncreaseIsBounded
<1>2. OpenCodeDeltas \in [Scopes -> Nat]
  BY <1>1 DEF OpenCodeDeltas
<1> DEFINE D == DOMAIN OpenCodePrevious \cup DOMAIN OpenCodeCurrent
<1>3. OpenCodeMemory \in [D -> Nat] /\ D \in SUBSET Scopes /\ day \in Nat
  <2>1. /\ D \in SUBSET Scopes
        /\ \A k \in DOMAIN OpenCodeCurrent : OpenCodeCurrent[k] \in Nat
        /\ \A k \in DOMAIN OpenCodePrevious : OpenCodePrevious[k] \in Nat
    BY OpenCodePreviousShape, OpenCodeCurrentShape
  <2>2. OpenCodeMemory \in [D -> Nat]
    BY <2>1 DEF OpenCodeMemory
  <2>3. day \in Nat
    BY DayCountersAssumption DEF CounterTypes, CountersTypeOK
  <2>4. QED
    BY <2>1, <2>2, <2>3
<1>4. QED
  BY <1>2, <1>3, TotalsOf

\* What was read of a day is no more than what is there now.
LEMMA ReadBefore ==
  ASSUME CounterTypes, TotalsAreRead, "shrunk" \notin counterCause, NEW c \in {memory, checkpoint}, c.day = day, NEW m \in Models
  PROVE  At(c.totals, m) <= Tally(Settled, m)
<1>1. Known(c, m) <= Tally(SettledOn(c.day), m)
  BY DEF TotalsAreRead
<1>2. QED
  BY <1>1 DEF Known, At, Settled

\* What is settled are requests.
LEMMA SettledAreUses ==
  ASSUME NEW m
  PROVE  Settled \in SUBSET Uses /\ Tally(Settled, m) \in Nat
<1>1. Settled \in SUBSET Uses
  BY DEF Settled, SettledOn
<1>2. QED
  BY <1>1, TallyIsNatural

\* An OpenCode poll measures, per model, what was settled since the total it knew.
LEMMA OpenCodeMeasures ==
  ASSUME CounterTypes, TotalsAreRead, "shrunk" \notin counterCause, NEW m \in Models
  PROVE  /\ At(OpenCodePrevious, m) \in Nat /\ Tally(Settled, m) \in Nat
         /\ At(OpenCodePrevious, m) <= Tally(Settled, m)
         /\ OpenCodeDeltas[m] = Tally(Settled, m) - At(OpenCodePrevious, m)
         /\ At(OpenCodeMemory, m) = Tally(Settled, m)
<1>1. At(OpenCodePrevious, m) \in Nat /\ Tally(Settled, m) \in Nat
  BY OpenCodePreviousShape, SettledAreUses
<1>2. At(OpenCodePrevious, m) <= Tally(Settled, m)
  <2>1. CASE OpenCodePrevious = <<>>
    BY <1>1, <2>1 DEF At
  <2>2. CASE memory.day = day /\ OpenCodePrevious = memory.totals
    BY <2>2, ReadBefore
  <2>3. CASE checkpoint.day = day /\ OpenCodePrevious = checkpoint.totals
    BY <2>3, ReadBefore
  <2>4. QED
    BY <2>1, <2>2, <2>3, OpenCodeCompares
<1>3. m \in Scopes /\ ReadToday = Settled
  BY ReadingOfToday DEF Scopes
<1>4. CASE m \in DOMAIN ModelTotals
  <2>1. m \in DOMAIN OpenCodeCurrent /\ OpenCodeCurrent[m] = Tally(Settled, m)
    BY <1>3, <1>4, OpenCodeCurrentShape, ReadingOfToday
  <2>2. Increase(OpenCodePrevious, m, Tally(Settled, m)) = Tally(Settled, m) - At(OpenCodePrevious, m)
    BY <1>1, <1>2, IncreaseIsBounded, OpenCodePreviousShape
  <2>3. OpenCodeDeltas[m] = Tally(Settled, m) - At(OpenCodePrevious, m)
    BY <1>3, <2>1, <2>2 DEF OpenCodeDeltas
  <2>4. At(OpenCodeMemory, m) = Tally(Settled, m)
    BY <2>1 DEF OpenCodeMemory, At
  <2>5. QED
    BY <1>1, <1>2, <2>3, <2>4
<1>5. CASE m \notin DOMAIN ModelTotals
  <2>1. m \notin DOMAIN OpenCodeCurrent /\ Tally(Settled, m) = 0
    BY <1>3, <1>5, OpenCodeCurrentShape, ReadingOfToday
  <2>2. At(OpenCodePrevious, m) = 0
    BY <1>1, <1>2, <2>1
  <2>3. OpenCodeDeltas[m] = 0
    BY <1>3, <2>1 DEF OpenCodeDeltas
  <2>4. At(OpenCodeMemory, m) = 0
    BY <2>1, <2>2 DEF OpenCodeMemory, At
  <2>5. QED
    BY <1>1, <1>2, <2>1, <2>2, <2>3, <2>4
<1>6. QED
  BY <1>4, <1>5

\* The increment of the whole is the sum of the models' increments.
LEMMA OpenCodeWhole ==
  ASSUME CounterTypes, TotalsAreRead, WholeIsTheSum, collector = "opencode", "shrunk" \notin counterCause
  PROVE  /\ OpenCodeDeltas["all"] = SumFunctionOnSet(OpenCodeDeltas, Models)
         /\ At(OpenCodeMemory, "all") = SumFunctionOnSet([m \in Models |-> At(OpenCodeMemory, m)], Models)
<1> DEFINE f == [m \in Models |-> At(OpenCodePrevious, m)]
           g == [m \in Models |-> Tally(Settled, m)]
           h == OpenCodeDeltas
<1>1. \A m \in Models : f[m] \in Nat /\ g[m] \in Nat /\ f[m] <= g[m] /\ h[m] = g[m] - f[m]
  BY OpenCodeMeasures
<1>2. OpenCodeCurrent["all"] = SumFunctionOnSet(g, Models)
  BY OpenCodeCurrentShape, ReadingOfToday, WholeOfRequests
<1>3. At(OpenCodePrevious, "all") = SumFunctionOnSet(f, Models)
  <2>1. CASE OpenCodePrevious = <<>>
    <3>1. \A m \in Models : f[m] = 0
      BY <2>1 DEF At
    <3>2. SumFunctionOnSet(f, Models) = 0
      BY <3>1, SumOfNothing, UsesAreFinite
    <3>3. QED
      BY <2>1, <3>2 DEF At
  <2>2. ASSUME NEW c \in {memory, checkpoint}, OpenCodePrevious = c.totals
        PROVE  At(OpenCodePrevious, "all") = SumFunctionOnSet(f, Models)
    <3>1. Known(c, "all") = SumFunctionOnSet([m \in Models |-> Known(c, m)], Models)
      BY DEF WholeIsTheSum
    <3>2. QED
      BY <2>2, <3>1 DEF Known, At
  <2>3. QED
    BY <2>1, <2>2, OpenCodeCompares
<1>4. [m \in Models |-> At(OpenCodeMemory, m)] = g
  BY OpenCodeMeasures
<1>5. h["all"] = Increase(OpenCodePrevious, "all", OpenCodeCurrent["all"])
  BY OpenCodeCurrentShape DEF OpenCodeDeltas, Scopes
<1>6. At(OpenCodeMemory, "all") = OpenCodeCurrent["all"]
  BY OpenCodeCurrentShape DEF OpenCodeMemory, At
<1> HIDE DEF f, g, h
<1>7. /\ SumFunctionOnSet(f, Models) \in Nat /\ SumFunctionOnSet(g, Models) \in Nat /\ SumFunctionOnSet(h, Models) \in Nat
      /\ SumFunctionOnSet(g, Models) = SumFunctionOnSet(f, Models) + SumFunctionOnSet(h, Models)
  BY ONLY <1>1, ModelSumsCompare
<1>8. \A a, b, d \in Nat : a = b + d => b <= a /\ d = a - b
  OBVIOUS
<1>9. h["all"] = SumFunctionOnSet(h, Models)
  <2>1. SumFunctionOnSet(f, Models) <= SumFunctionOnSet(g, Models)
        /\ SumFunctionOnSet(h, Models) = SumFunctionOnSet(g, Models) - SumFunctionOnSet(f, Models)
    BY <1>7, <1>8
  <2>2. \A n \in Nat : At(OpenCodePrevious, "all") <= n =>
          Increase(OpenCodePrevious, "all", n) = n - At(OpenCodePrevious, "all")
    BY OpenCodePreviousShape, IncreaseIsBounded
  <2>3. QED
    BY <1>2, <1>3, <1>5, <1>7, <2>1, <2>2
<1>10. QED
  BY <1>2, <1>4, <1>6, <1>9 DEF h

\* Infer Runtime compares with the totals of today.
LEMMA InferMeasures ==
  ASSUME CounterTypes, TotalsAreRead, WholeIsTheSum, collector = "infer-runtime", "shrunk" \notin counterCause
  PROVE  /\ \A m \in Models :
              /\ KnownToday(memory, m) \in Nat /\ Tally(Settled, m) \in Nat
              /\ KnownToday(memory, m) <= Tally(Settled, m)
              /\ InferDeltas[m] = Tally(Settled, m) - KnownToday(memory, m)
              /\ At(ModelTotals, m) = Tally(Settled, m)
         /\ InferDeltas["all"] = SumFunctionOnSet(InferDeltas, Models)
<1> DEFINE f == Filled(InferPrevious)
           g == Filled(ModelTotals)
           h == [m \in Models |-> g[m] - f[m]]
<1>1. /\ InferPrevious = IF memory.day = day THEN memory.totals ELSE <<>>
      /\ DOMAIN InferPrevious \in SUBSET Models
      /\ \A m \in DOMAIN InferPrevious : InferPrevious[m] \in Nat
  <2>1. memory \in Totals /\ DOMAIN memory.totals \in SUBSET Models
    BY DEF CounterTypes, WholeIsTheSum
  <2>2. QED
    BY <2>1, TotalsShape DEF InferPrevious
<1>2. \A m \in Models : f[m] = KnownToday(memory, m) /\ f[m] = At(InferPrevious, m)
  BY <1>1 DEF KnownToday, Known, At, Filled
<1>3. \A m \in Models : g[m] = Tally(Settled, m) /\ g[m] = At(ModelTotals, m) /\ g[m] \in Nat
  BY ReadingOfToday, SettledAreUses DEF Filled, At
<1>4. \A m \in Models : f[m] \in Nat /\ f[m] <= g[m]
  <2>1. TAKE m \in Models
  <2>2. f[m] \in Nat
    BY <1>1 DEF Filled
  <2>3. CASE memory.day = day
    <3>1. At(memory.totals, m) <= Tally(Settled, m)
      BY <2>3, ReadBefore
    <3>2. QED
      BY <1>1, <1>2, <1>3, <2>2, <2>3, <3>1
  <2>4. CASE memory.day # day
    BY <1>2, <1>3, <2>2, <2>4 DEF KnownToday
  <2>5. QED
    BY <2>3, <2>4
<1>5. Whole(InferPrevious) = SumFunctionOnSet(f, Models) /\ Whole(ModelTotals) = SumFunctionOnSet(g, Models)
  BY <1>1, WholeOfTotals, ReadingOfToday
<1>6. \A m \in Models : f[m] \in Nat /\ g[m] \in Nat /\ f[m] <= g[m] /\ h[m] = g[m] - f[m]
  BY <1>3, <1>4
<1>7. \A m \in Models : h[m] \in Nat
  BY <1>6
<1>8. \A m \in Models : (m \in DOMAIN ModelTotals => g[m] = ModelTotals[m])
                        /\ (m \notin DOMAIN ModelTotals => g[m] = 0)
                        /\ f[m] = At(InferPrevious, m) /\ m # "all" /\ m \in Scopes
  BY <1>2, UsesAreFinite DEF Filled, Scopes
<1> HIDE DEF f, g, h
<1>9. /\ SumFunctionOnSet(f, Models) \in Nat /\ SumFunctionOnSet(g, Models) \in Nat
      /\ SumFunctionOnSet(h, Models) \in Nat
      /\ SumFunctionOnSet(g, Models) = SumFunctionOnSet(f, Models) + SumFunctionOnSet(h, Models)
  BY ONLY <1>6, ModelSumsCompare
<1>10. (\A m \in Models : InferDeltas[m] = h[m]) /\ InferDeltas["all"] = SumFunctionOnSet(h, Models)
  <2>1. "all" \in Scopes
    BY DEF Scopes
  <2>2. CASE Whole(ModelTotals) <= Whole(InferPrevious)
    <3>1. \A a, b, d \in Nat : a = b + d /\ a <= b => d = 0
      OBVIOUS
    <3>2. SumFunctionOnSet(h, Models) = 0
      BY <1>5, <1>9, <2>2, <3>1
    <3>3. \A m \in Models : h[m] = 0
      <4>1. IsFiniteSet(Models)
        BY UsesAreFinite
      <4>2. QED
        BY <1>7, <3>2, <4>1, NothingInSum
    <3>4. \A s \in Scopes : InferDeltas[s] = 0
      BY <2>2 DEF InferDeltas
    <3>5. QED
      BY <1>8, <2>1, <3>2, <3>3, <3>4
  <2>3. CASE ~ (Whole(ModelTotals) <= Whole(InferPrevious))
    <3>1. InferDeltas["all"] = Whole(ModelTotals) - Whole(InferPrevious)
      BY <2>1, <2>3 DEF InferDeltas
    <3>2. \A a, b, d \in Nat : a = b + d => d = a - b
      OBVIOUS
    <3>3. InferDeltas["all"] = SumFunctionOnSet(h, Models)
      BY <1>5, <1>9, <3>1, <3>2
    <3>4. ASSUME NEW m \in Models PROVE InferDeltas[m] = h[m]
      <4>1. CASE m \notin DOMAIN ModelTotals
        <5>1. InferDeltas[m] = 0
          BY <1>8, <2>3, <4>1 DEF InferDeltas
        <5>2. QED
          BY <1>6, <1>8, <4>1, <5>1
      <4>2. CASE m \in DOMAIN ModelTotals
        <5>1. m \in DOMAIN InferPrevious => f[m] = InferPrevious[m]
          BY <1>8 DEF At
        <5>2. ~ (m \in DOMAIN InferPrevious /\ ModelTotals[m] < InferPrevious[m])
          BY <1>6, <1>8, <4>2, <5>1
        <5>3. InferDeltas[m] = Increase(InferPrevious, m, ModelTotals[m])
          BY <1>8, <2>3, <4>2, <5>2 DEF InferDeltas
        <5>4. Increase(InferPrevious, m, g[m]) = g[m] - f[m]
          <6>1. f[m] = At(InferPrevious, m) /\ g[m] \in Nat /\ f[m] <= g[m]
            BY <1>6, <1>8
          <6>2. m \in DOMAIN InferPrevious => InferPrevious[m] \in Nat
            BY <1>1
          <6>3. QED
            BY <6>1, <6>2, IncreaseIsBounded
        <5>5. QED
          BY <1>6, <1>8, <4>2, <5>3, <5>4
      <4>3. QED
        BY <4>1, <4>2
    <3>5. QED
      BY <3>3, <3>4
  <2>4. QED
    BY <2>2, <2>3
<1>11. SumFunctionOnSet(InferDeltas, Models) = SumFunctionOnSet(h, Models)
  <2>1. IsFiniteSet(Models)
    BY UsesAreFinite
  <2>2. QED
    BY <1>7, <1>10, <2>1, SumOfSame
<1>12. QED
  BY <1>2, <1>3, <1>6, <1>10, <1>11

\* What an Infer Runtime poll computes has its type.
LEMMA InferTypes ==
  ASSUME CounterTypes, WholeIsTheSum, collector = "infer-runtime"
  PROVE  InferDeltas \in [Scopes -> Nat]
<1>1. /\ DOMAIN InferPrevious \in SUBSET Models
      /\ \A m \in DOMAIN InferPrevious : InferPrevious[m] \in Nat
  <2>1. memory \in Totals /\ DOMAIN memory.totals \in SUBSET Models
    BY DEF CounterTypes, WholeIsTheSum
  <2>2. QED
    BY <2>1, TotalsShape DEF InferPrevious
<1>2. Whole(ModelTotals) \in Nat /\ Whole(InferPrevious) \in Nat
  <2>1. IsFiniteSet(DOMAIN ModelTotals) /\ IsFiniteSet(DOMAIN InferPrevious)
    BY <1>1, ReadingOfToday, UsesAreFinite, FS_Subset
  <2>2. QED
    BY <1>1, <2>1, ReadingOfToday, SumIsNatural DEF Whole
<1>3. \A m \in DOMAIN ModelTotals : Increase(InferPrevious, m, ModelTotals[m]) \in Nat
  BY <1>1, ReadingOfToday, IncreaseIsBounded
<1>4. \A s \in Scopes : InferDeltas[s] \in Nat
  <2> DEFINE now == Whole(ModelTotals)
             before == Whole(InferPrevious)
  <2>1. now \in Nat /\ before \in Nat
    BY <1>2
  <2>2. \A s \in Scopes : InferDeltas[s] =
          IF now <= before THEN 0
          ELSE IF s = "all" THEN now - before
          ELSE IF s \notin DOMAIN ModelTotals THEN 0
          ELSE IF s \in DOMAIN InferPrevious /\ ModelTotals[s] < InferPrevious[s] THEN 0
          ELSE Increase(InferPrevious, s, ModelTotals[s])
    BY DEF InferDeltas
  <2> HIDE DEF now, before
  <2>3. now <= before \/ now - before \in Nat
    BY <2>1
  <2>4. QED
    BY <1>3, <2>2, <2>3
<1>5. QED
  BY <1>4 DEF InferDeltas

-------------------------------------------------------------------------------
\* What the registry's window becomes is a window again.
LEMMA RegistryTypes ==
  /\ Registry!Confirmed("available") \in Registry!Stabilizer
  /\ \A w \in Registry!Stabilizer, c \in {"available", "error"} : Registry!Observe(w, c, FALSE) \in Registry!Stabilizer
<1>1. Registry!Status = {"available", "error"}
  BY DEF Registry!Status
<1>2. \A c \in Registry!Status : Registry!Confirmed(c) \in Registry!Stabilizer
  BY DEF Registry!Confirmed, Registry!Stabilizer
<1>3. ASSUME NEW w \in Registry!Stabilizer, NEW c \in Registry!Status
      PROVE  Registry!Observe(w, c, FALSE) \in Registry!Stabilizer
  <2> DEFINE count == IF w.pending = c THEN w.count + 1 ELSE 1
  <2>1. count \in Nat
    BY DEF Registry!Stabilizer
  <2>2. [w EXCEPT !.pending = c, !.count = count] \in Registry!Stabilizer
    BY <2>1 DEF Registry!Stabilizer
  <2>3. Registry!Observe(w, c, FALSE) \in {Registry!Confirmed(c), [w EXCEPT !.pending = c, !.count = count]}
    BY DEF Registry!Observe
  <2>4. QED
    BY <1>2, <2>2, <2>3
<1>4. QED
  BY <1>1, <1>2, <1>3

\* A missing checkpoint is one.
LEMMA NoTotalsTypes ==
  ASSUME day \in Nat
  PROVE  NoTotals \in Totals
<1>1. <<>> \in [{} -> Nat] /\ {} \in SUBSET Scopes
  OBVIOUS
<1>2. <<>> \in UNION {[D -> Nat] : D \in SUBSET Scopes}
  BY <1>1
<1>3. 0 \in 0 .. day
  OBVIOUS
<1>4. QED
  BY <1>2, <1>3 DEF NoTotals, Totals

\* Totals stay totals when the day moves on.
LEMMA TotalsLast ==
  ASSUME day \in Nat, day' \in Nat, day <= day', NEW c \in Totals
  PROVE  c \in Totals'
<1>1. 0 .. day \in SUBSET (0 .. day')
  OBVIOUS
<1>2. QED
  BY <1>1 DEF Totals, Scopes, Models, Uses

\* The invariant holds initially.
LEMMA InitCounterInv == CountersInit => CounterInv
<1> SUFFICES ASSUME CountersInit PROVE CounterInv
  OBVIOUS
<1>1. NoTotals \in Totals
  BY NoTotalsTypes DEF CountersInit
<1>2. CounterTypes
  <2>1. day \in 1 .. LastDay /\ settledOn \in [Uses -> 0 .. LastDay]
    BY DayCountersAssumption DEF CountersInit
  <2>2. NoDeltas \in [Scopes -> Nat]
    BY DEF NoDeltas
  <2>3. \A c \in {memory, checkpoint} : c.day = 0 /\ DOMAIN c.totals = {} /\ c.totals = <<>>
    BY NothingKept DEF CountersInit
  <2>4. collector \in {"opencode", "antigravity", "infer-runtime"} /\ counterFaults \in 0 .. MaxCounterFaults
    BY DayCountersAssumption DEF CountersInit
  <2>5. CountersTypeOK
    BY <2>1, <2>2, <2>3, <2>4, RegistryTypes DEF CountersTypeOK, CountersInit
  <2>6. QED
    BY <1>1, <2>3, <2>4, <2>5 DEF CounterTypes, CountersInit, Under
<1>3. PollsAreOrdered
  BY NothingKept DEF PollsAreOrdered, CountersInit, Under
<1>4. \A m : Known(NoTotals, m) = 0
  BY NothingKept DEF Known
<1>5. TotalsAreRead
  <2>1. \A d, m : Tally(SettledOn(d), m) \in Nat
    BY TallyIsNatural DEF SettledOn
  <2>2. QED
    BY <1>4, <2>1 DEF TotalsAreRead, CountersInit
<1>6. UsageAddsUp
  <2>1. \A m \in Models : metered[m] = 0 /\ deltas[m] = 0 /\ KnownToday(checkpoint, m) = 0
    BY <1>4 DEF CountersInit, NoDeltas, Scopes, KnownToday
  <2>2. \A m : Tally({}, m) = 0
    BY TallyOfNone
  <2>3. counted = {} /\ Under = {} /\ Under \ Settled = {} /\ memory.day = 0 /\ day = 1 /\ counterPc = "idle"
    BY NothingKept DEF CountersInit, Under
  <2>4. QED
    BY <2>1, <2>2, <2>3 DEF UsageAddsUp, Fits
<1>7. WholeIsTheSum
  <2>1. SumFunctionOnSet(NoDeltas, Models) = 0 /\ NoDeltas["all"] = 0
    BY SumOfNothing, UsesAreFinite DEF NoDeltas, Scopes
  <2>2. SumFunctionOnSet([m \in Models |-> Known(NoTotals, m)], Models) = 0
    BY <1>4, SumOfNothing, UsesAreFinite
  <2>3. QED
    BY <1>4, <2>1, <2>2, NothingKept DEF WholeIsTheSum, CountersInit
<1>8. QED
  BY <1>2, <1>3, <1>5, <1>6, <1>7 DEF CounterInv

-------------------------------------------------------------------------------
\* Types are kept, whatever is measured.
LEMMA MeasureKeepsTypes ==
  ASSUME CounterTypes, NEW inc \in [Scopes -> Nat], NEW t, [day |-> day, totals |-> t] \in Totals,
         NEW next \in {"save", "report"}, NEW base \in BOOLEAN, Measure(inc, t, next, base),
         "shrunk" \notin counterCause' => "shrunk" \notin counterCause
  PROVE  CounterTypes'
<1> USE DEF CounterTypes, CountersTypeOK
<1>1. Totals' = Totals /\ Scopes' = Scopes /\ Uses' = Uses
  BY DEF Measure, world, Totals, Scopes, Models, Uses
<1>2. UNCHANGED <<collector, day, settledOn, readable, checkpoint, window, metered, counted, counterFaults>>
  BY DEF Measure, world
<1>3. memory' = [day |-> day, totals |-> t] /\ counterPc' = next /\ reported' \in {"available", "error"} /\ deltas' = inc
  BY DEF Measure
<1>4. /\ memory' \in Totals /\ memory'.day = day /\ day \in Nat /\ day # 0 /\ day \in 0 .. day
      /\ DOMAIN memory'.totals \in SUBSET Scopes
  <2>1. day \in Nat /\ day # 0 /\ day \in 0 .. day
    BY DayCountersAssumption
  <2>2. memory' \in Totals /\ memory'.day = day
    BY <1>3
  <2>3. QED
    BY <2>1, <2>2, TotalsShape
<1>5. /\ baselined' \in {baselined, baselined \cup (ReadToday \ counted)}
      /\ reading' = ReadToday \ baselined'
  BY DEF Measure
<1>6. \A r \in ReadToday : r \in Uses /\ settledOn[r] = day /\ settledOn[r] > 0
  BY <1>4 DEF ReadToday
<1>7. (reading' \cup counted') \cap baselined' = {}
  BY <1>2, <1>5
<1>8. \A r \in Under' \cup baselined' : r \in Uses /\ settledOn'[r] > 0
  BY <1>2, <1>5, <1>6 DEF Under
<1>9. CountersTypeOK'
  <2>1. \A c \in {memory, checkpoint}' : c.day \in 0 .. day' /\ DOMAIN c.totals \subseteq Scopes'
    BY <1>1, <1>2, <1>4
  <2>2. QED
    BY <1>1, <1>2, <1>3, <1>7, <2>1
<1>10. QED
  BY <1>1, <1>2, <1>3, <1>4, <1>8, <1>9

\* Steps that measure nothing keep the types.
LEMMA OtherStepsKeepTypes ==
  ASSUME CounterTypes,
         \/ \E status \in {"available", "error"} : PollWithoutReading(status)
         \/ SaveCheckpoint \/ SaveCheckpointFails \/ ReportDeltas \/ ReportCached
         \/ RestartCollector \/ LoseCheckpoint
  PROVE  CounterTypes'
<1> USE DEF CounterTypes, CountersTypeOK, Missed
<1>1. UNCHANGED world /\ baselined' = baselined
  BY DEF PollWithoutReading, SaveCheckpoint, SaveCheckpointFails, ReportDeltas, ReportCached, RestartCollector, LoseCheckpoint, observer
<1>2. Totals' = Totals /\ Scopes' = Scopes /\ Uses' = Uses /\ day' = day /\ settledOn' = settledOn /\ readable' = readable
      /\ collector' = collector
  BY <1>1 DEF world, Totals, Scopes, Models, Uses
<1>3. NoTotals \in Totals /\ NoTotals.day = 0 /\ NoTotals.totals = <<>>
  BY NoTotalsTypes, NothingKept, DayCountersAssumption
<1>4. memory' \in {memory, checkpoint, NoTotals} /\ checkpoint' \in {memory, checkpoint, NoTotals}
  BY DEF PollWithoutReading, SaveCheckpoint, SaveCheckpointFails, ReportDeltas, ReportCached, RestartCollector, LoseCheckpoint
<1>5. \A c \in {memory, checkpoint}' : c \in Totals /\ (c.day = 0 => c.totals = <<>>)
  BY <1>3, <1>4
<1>6. \A c \in {memory, checkpoint}' : c.day \in 0 .. day' /\ DOMAIN c.totals \subseteq Scopes'
  BY <1>2, <1>5, TotalsShape
<1>7. "shrunk" \notin counterCause' => "shrunk" \notin counterCause
  BY DEF PollWithoutReading, SaveCheckpoint, SaveCheckpointFails, ReportDeltas, ReportCached, RestartCollector, LoseCheckpoint
<1>8. Under' \in SUBSET Under /\ (reading' \cup counted') \in SUBSET (reading \cup counted)
  BY DEF PollWithoutReading, SaveCheckpoint, SaveCheckpointFails, ReportDeltas, ReportCached, RestartCollector, LoseCheckpoint,
         observer, Under
<1>9. counterPc' \in {"idle", "save", "report"} /\ reported' \in {"available", "error"} /\ counterFaults' \in 0 .. MaxCounterFaults
  <2>1. \/ counterFaults' = counterFaults
        \/ counterFaults < MaxCounterFaults /\ counterFaults' = counterFaults + 1
    BY DEF PollWithoutReading, SaveCheckpoint, SaveCheckpointFails, ReportDeltas, ReportCached, RestartCollector, LoseCheckpoint
  <2>2. counterFaults' \in 0 .. MaxCounterFaults
    BY <2>1, DayCountersAssumption
  <2>3. counterPc' \in {"idle", "save", "report"} /\ reported' \in {"available", "error"}
    BY DEF PollWithoutReading, SaveCheckpoint, SaveCheckpointFails, ReportDeltas, ReportCached, RestartCollector, LoseCheckpoint
  <2>4. QED
    BY <2>2, <2>3
<1>10. window' \in Registry!Stabilizer
  BY RegistryTypes
     DEF PollWithoutReading, SaveCheckpoint, SaveCheckpointFails, ReportDeltas, ReportCached, RestartCollector, LoseCheckpoint
<1>11. NoDeltas \in [Scopes -> Nat]
  BY DEF NoDeltas
<1>12. deltas' \in [Scopes -> Nat]
  BY <1>11
     DEF PollWithoutReading, SaveCheckpoint, SaveCheckpointFails, ReportDeltas, ReportCached, RestartCollector, LoseCheckpoint
<1>13. metered' \in [Scopes -> Nat]
  <2>1. metered' \in {metered, [s \in Scopes |-> metered[s] + deltas[s]]}
    BY DEF PollWithoutReading, SaveCheckpoint, SaveCheckpointFails, ReportDeltas, ReportCached, RestartCollector, LoseCheckpoint
  <2>2. [s \in Scopes |-> metered[s] + deltas[s]] \in [Scopes -> Nat]
    <3>1. \A s \in Scopes : metered[s] + deltas[s] \in Nat
      OBVIOUS
    <3>2. QED
      BY <3>1
  <2>3. QED
    BY <2>1, <2>2
<1>14. CountersTypeOK'
  BY <1>1, <1>2, <1>6, <1>8, <1>9, <1>10, <1>12, <1>13
<1>15. QED
  BY <1>1, <1>2, <1>5, <1>7, <1>8, <1>14

\* The providers' steps keep the types.
LEMMA ProvidersKeepTypes ==
  ASSUME CounterTypes, Midnight \/ \E r \in Uses : Settle(r) \/ DeleteConversation(r)
  PROVE  CounterTypes'
<1> USE DEF CounterTypes, CountersTypeOK
<1>1. /\ UNCHANGED <<collector, memory, checkpoint, counterPc, deltas, reported, window, metered, reading, counted, baselined>>
      /\ Scopes' = Scopes /\ Uses' = Uses
  BY DEF Midnight, Settle, DeleteConversation, observer, Scopes, Models, Uses
<1>2. day \in Nat /\ day' \in Nat /\ day' \in 1 .. LastDay /\ day <= day' /\ counterFaults' \in 0 .. MaxCounterFaults
  <2>1. \/ day' = day
        \/ day < LastDay /\ day' = day + 1
    BY DEF Midnight, Settle, DeleteConversation
  <2>2. \/ counterFaults' = counterFaults
        \/ counterFaults < MaxCounterFaults /\ counterFaults' = counterFaults + 1
    BY DEF Midnight, Settle, DeleteConversation
  <2>3. QED
    BY <2>1, <2>2, DayCountersAssumption
<1>3. memory' \in Totals' /\ checkpoint' \in Totals'
  BY <1>1, <1>2, TotalsLast
<1>4. \A c \in {memory, checkpoint}' : c.day \in 0 .. day' /\ DOMAIN c.totals \subseteq Scopes'
  <2>1. 0 .. day \in SUBSET (0 .. day')
    BY <1>2
  <2>2. QED
    BY <1>1, <2>1
<1>5. /\ settledOn' \in [Uses -> 0 .. LastDay] /\ readable' \in SUBSET Uses
      /\ \A r \in Uses : settledOn'[r] <= day' /\ (settledOn[r] > 0 => settledOn'[r] = settledOn[r])
      /\ "shrunk" \notin counterCause' => readable' = Uses
  <2>1. CASE Midnight
    BY <1>2, <2>1 DEF Midnight
  <2>2. CASE \E r \in Uses : Settle(r)
    <3>1. PICK r \in Uses : Settle(r)
      BY <2>2
    <3>2. /\ settledOn' = [settledOn EXCEPT ![r] = day] /\ settledOn[r] = 0 /\ day' = day
          /\ readable' = readable /\ counterCause' = counterCause /\ day \in 0 .. LastDay
      BY <1>2, <3>1, DayCountersAssumption DEF Settle
    <3>3. QED
      BY <1>2, <3>2
  <2>3. CASE \E r \in Uses : DeleteConversation(r)
    <3>1. PICK r \in Uses : DeleteConversation(r)
      BY <2>3
    <3>2. settledOn' = settledOn /\ day' = day /\ readable' \in SUBSET Uses /\ "shrunk" \in counterCause'
      BY <3>1 DEF DeleteConversation
    <3>3. QED
      BY <1>2, <3>2
  <2>4. QED
    BY <2>1, <2>2, <2>3
<1>6. CountersTypeOK'
  BY <1>1, <1>2, <1>4, <1>5
<1>7. QED
  BY <1>1, <1>3, <1>5, <1>6 DEF Under

-------------------------------------------------------------------------------
\* The tokens of uses are those of a part of them and of the rest.
SplitsAt(R, Q, m) ==
    /\ Tally(R, m) = Tally(Q, m) + Tally(R \ Q, m)
    /\ Tally(R, m) \in Nat /\ Tally(Q, m) \in Nat /\ Tally(R \ Q, m) \in Nat

\* The same, of any part of any uses.
LEMMA TallySplitsAt ==
  ASSUME NEW R \in SUBSET Uses, NEW Q \in SUBSET R, NEW m
  PROVE  SplitsAt(R, Q, m)
  BY TallySplits DEF SplitsAt

\* The usage of one poll, and what was compared with.
LEMMA UnionTally ==
  ASSUME NEW m, NEW P \in SUBSET Uses, NEW Q \in SUBSET Uses
  PROVE  /\ Tally(P \cup Q, m) = Tally(Q, m) + Tally(P \ Q, m)
         /\ Tally(P \cup Q, m) \in Nat /\ Tally(Q, m) \in Nat /\ Tally(P \ Q, m) \in Nat /\ Tally(P, m) \in Nat
<1> DEFINE both == P \cup Q
<1>1. both \in SUBSET Uses /\ Q \in SUBSET both /\ both \ Q = P \ Q
  OBVIOUS
<1> HIDE DEF both
<1>2. /\ Tally(both, m) = Tally(Q, m) + Tally(both \ Q, m)
      /\ Tally(both, m) \in Nat /\ Tally(Q, m) \in Nat /\ Tally(both \ Q, m) \in Nat
  <2>1. SplitsAt(both, Q, m)
    BY <1>1, TallySplitsAt
  <2>2. QED
    BY <2>1 DEF SplitsAt
<1>3. Tally(P, m) \in Nat
  BY TallyIsNatural, Zenon
<1>4. QED
  BY <1>1, <1>2, <1>3, Zenon DEF both

\* No checkpoint was lost and no conversation deleted.
Watched == counterCause \cap {"lost", "shrunk"} = {}

\* What the parts of the state are between polls.
LEMMA WhenIdle ==
  ASSUME CounterTypes, PollsAreOrdered, counterPc = "idle"
  PROVE  /\ reading = {} /\ Under = counted
         /\ \A s \in Scopes : deltas[s] = 0
         /\ collector # "antigravity" => baselined = {}
  BY DEF PollsAreOrdered, NoDeltas, Under

\* What was counted, read or baselined are requests.
LEMMA CountedAreUses ==
  ASSUME CounterTypes
  PROVE  counted \in SUBSET Uses /\ reading \in SUBSET Uses /\ Under \in SUBSET Uses /\ baselined \in SUBSET Uses
         /\ Settled \in SUBSET Uses
         /\ \A m \in Models : metered[m] \in Nat /\ deltas[m] \in Nat
  BY DEF CounterTypes, CountersTypeOK, Under, Settled, SettledOn, Scopes

\* The totals known for a model are naturals.
LEMMA KnownIsNatural ==
  ASSUME CounterTypes, NEW m
  PROVE  \A c \in {memory, checkpoint} :
           /\ Known(c, m) \in Nat /\ KnownToday(c, m) \in Nat /\ Known(c, m) = At(c.totals, m)
           /\ c.day \in 0 .. day
<1>1. memory \in Totals /\ checkpoint \in Totals
  BY DEF CounterTypes
<1>2. QED
  BY <1>1, TotalsShape DEF KnownToday

\* The increments are what was settled today beyond what was known of it before.
Moves(inc, t, next, earlier) ==
  \A m \in Models : /\ earlier[m] \in Nat /\ earlier[m] <= Tally(Settled, m)
                    /\ inc[m] = Tally(Settled, m) - earlier[m]
                    /\ At(t, m) = Tally(Settled, m)
                    /\ next # "save" => earlier[m] = Tally(Settled, m)
                    /\ Watched => Fits(metered[m], earlier[m] + Tally(counted \ Settled, m))

\* A poll that compares with what was known of today moves by what was settled since.
LEMMA PollKeepsUsage ==
  ASSUME CounterTypes, PollsAreOrdered, UsageAddsUp, counterPc = "idle", collector # "antigravity",
         NEW inc, NEW t, NEW next, NEW earlier,
         Measure(inc, t, next, FALSE), counterCause' = counterCause,
         ReadToday = Settled,
         Moves(inc, t, next, earlier)
  PROVE  UsageAddsUp'
<1> USE DEF Moves
<1>1. /\ collector' = collector /\ day' = day /\ settledOn' = settledOn /\ metered' = metered /\ counted' = counted
      /\ baselined' = {} /\ reading' = Settled /\ deltas' = inc /\ counterPc' = next /\ checkpoint' = checkpoint
      /\ memory' = [day |-> day, totals |-> t] /\ Settled' = Settled /\ Under' = counted \cup Settled
      /\ counterCause' = counterCause
  BY WhenIdle DEF Measure, world, Settled, SettledOn, Under
<1>2. SUFFICES ASSUME Watched, NEW m \in Models
      PROVE /\ Fits(metered[m], Tally(counted, m))'
            /\ Fits(metered[m] + deltas[m], Tally(Under, m))'
            /\ Fits(metered[m] + deltas[m] + Tally(baselined \cap Settled, m), Known(memory, m) + Tally(Under \ Settled, m))'
            /\ IF counterPc' = "save"
               THEN Fits(metered[m], KnownToday(checkpoint, m) + Tally(counted \ Settled, m))'
               ELSE Fits(metered[m] + deltas[m], KnownToday(checkpoint, m) + Tally(Under \ Settled, m))'
  BY <1>1 DEF UsageAddsUp, Watched, Models, Uses
<1> DEFINE T == Tally(Settled, m)
           old == Tally(counted \ Settled, m)
           all == Tally(counted \cup Settled, m)
           x == metered[m]
           e == earlier[m]
           k == KnownToday(checkpoint, m)
<1>3. T \in Nat /\ old \in Nat /\ all \in Nat /\ all = T + old /\ x \in Nat /\ e \in Nat /\ e <= T
  BY UnionTally, CountedAreUses
<1>4. inc[m] = T - e /\ Known(memory', m) = T /\ (next # "save" => e = T)
  BY <1>1 DEF At, Known
<1>5. (counted \cup Settled) \ Settled = counted \ Settled
  OBVIOUS
<1>6. Tally(baselined' \cap Settled, m) = 0
  BY <1>1, TallyOfNone
<1>7. Fits(x, Tally(counted, m)) /\ Fits(x + 0, k + old) /\ Fits(x, e + old)
  BY <1>2, WhenIdle DEF UsageAddsUp, Watched, Scopes
<1>8. KnownToday(checkpoint, m)' = k
  BY <1>1 DEF KnownToday
<1>9. k \in Nat
  BY KnownIsNatural
<1> HIDE DEF T, old, all, x, e, k
<1>10. x <= e + old /\ (counterCause = {} => x = e + old) /\ x <= k + old /\ (counterCause = {} => x = k + old)
  BY <1>3, <1>7, <1>9 DEF Fits
<1>11. Fits(x + (T - e), all) /\ Fits(x + (T - e) + 0, T + old) /\ Fits(x, k + old)
       /\ (next # "save" => Fits(x + (T - e), k + old))
  BY <1>3, <1>4, <1>9, <1>10 DEF Fits
<1>12. QED
  BY <1>1, <1>4, <1>5, <1>6, <1>7, <1>8, <1>11 DEF Fits, T, old, all, x, k

\* Antigravity's first reading is a baseline.
LEMMA BaselineKeepsUsage ==
  ASSUME CounterTypes, PollsAreOrdered, UsageAddsUp, PollAntigravity, memory.totals = <<>>, ReadToday = Settled
  PROVE  UsageAddsUp'
<1>1. /\ collector' = collector /\ collector = "antigravity" /\ counterPc = "idle" /\ counterPc' = "report"
      /\ day' = day /\ settledOn' = settledOn /\ metered' = metered /\ counted' = counted
      /\ baselined' = baselined \cup (Settled \ counted) /\ reading' = Settled \ baselined'
      /\ deltas' = AntigravityDeltas /\ memory' = [day |-> day, totals |-> ModelTotals] /\ Settled' = Settled
      /\ counterCause' = counterCause
  BY DEF PollAntigravity, Measure, world, Settled, SettledOn
<1>2. counted \cap baselined = {}
  BY DEF CounterTypes, CountersTypeOK
<1>3. Under' = counted
  BY <1>1, <1>2 DEF Under
<1>4. SUFFICES ASSUME Watched, NEW m \in Models
      PROVE /\ Fits(metered[m], Tally(counted, m))'
            /\ Fits(metered[m] + deltas[m], Tally(Under, m))'
            /\ Fits(metered[m] + deltas[m] + Tally(baselined \cap Settled, m), Known(memory, m) + Tally(Under \ Settled, m))'
  BY <1>1 DEF UsageAddsUp, Watched, Models, Uses
<1>5. deltas'[m] = 0
  BY <1>1 DEF AntigravityDeltas, Scopes
<1>6. baselined' \cap Settled = Settled \ counted
  BY <1>1, <1>2
<1>7. Known(memory', m) = Tally(Settled, m)
  BY <1>1, ReadingOfToday DEF Known
<1> DEFINE T == Tally(Settled, m)
           c == Tally(counted, m)
           old == Tally(counted \ Settled, m)
           new == Tally(Settled \ counted, m)
           all == Tally(counted \cup Settled, m)
           x == metered[m]
<1>8. T \in Nat /\ old \in Nat /\ all \in Nat /\ c \in Nat /\ new \in Nat /\ all = T + old /\ x \in Nat
  BY UnionTally, CountedAreUses
<1>9. all = c + new
  <2>1. Tally(Settled \cup counted, m) = c + new /\ Settled \cup counted = counted \cup Settled
    BY UnionTally, CountedAreUses
  <2>2. QED
    BY <2>1
<1>10. Fits(x, c)
  BY <1>4 DEF UsageAddsUp, Watched
<1> HIDE DEF T, c, old, new, all, x
<1>11. Fits(x + 0, c) /\ Fits(x + 0 + new, T + old)
  BY <1>8, <1>9, <1>10 DEF Fits
<1>12. QED
  BY <1>1, <1>3, <1>5, <1>6, <1>7, <1>10, <1>11 DEF Fits, T, c, old, new, x

\* Another poll of the same day moves by what was settled since; after a midnight what was
\* settled yesterday is lost sight of.
LEMMA AntigravityKeepsUsage ==
  ASSUME CounterTypes, PollsAreOrdered, TotalsAreRead, UsageAddsUp, PollAntigravity, memory.totals # <<>>,
         "shrunk" \notin counterCause, ReadToday = Settled
  PROVE  UsageAddsUp'
<1>1. /\ collector' = collector /\ collector = "antigravity" /\ counterPc = "idle" /\ counterPc' = "report"
      /\ day' = day /\ settledOn' = settledOn /\ metered' = metered /\ counted' = counted
      /\ baselined' = baselined /\ reading' = Settled \ baselined
      /\ deltas' = AntigravityDeltas /\ memory' = [day |-> day, totals |-> ModelTotals] /\ Settled' = Settled
      /\ counterCause' = IF memory.day # day THEN counterCause \cup {"midnight"} ELSE counterCause
  BY DEF PollAntigravity, Measure, world, Settled, SettledOn
<1>2. counted \cap baselined = {}
  BY DEF CounterTypes, CountersTypeOK
<1>3. Under' = counted \cup (Settled \ baselined) /\ Under' \ Settled = counted \ Settled
  BY <1>1, <1>2 DEF Under
<1>4. SUFFICES ASSUME Watched, NEW m \in Models
      PROVE /\ Fits(metered[m], Tally(counted, m))'
            /\ Fits(metered[m] + deltas[m], Tally(Under, m))'
            /\ Fits(metered[m] + deltas[m] + Tally(baselined \cap Settled, m), Known(memory, m) + Tally(Under \ Settled, m))'
  BY <1>1 DEF UsageAddsUp, Watched, Models, Uses
<1>5. Known(memory', m) = Tally(Settled, m)
  BY <1>1, ReadingOfToday DEF Known
<1> DEFINE T == Tally(Settled, m)
           c == Tally(counted, m)
           old == Tally(counted \ Settled, m)
           based == Tally(baselined \cap Settled, m)
           fresh == Tally(Settled \ baselined, m)
           all == Tally(counted \cup (Settled \ baselined), m)
           x == metered[m]
           d == AntigravityDeltas[m]
           e == At(memory.totals, m)
<1>6. T \in Nat /\ old \in Nat /\ all \in Nat /\ c \in Nat /\ based \in Nat /\ fresh \in Nat /\ x \in Nat
      /\ T = based + fresh /\ all = fresh + old
  <2>1. Settled \in SUBSET Uses /\ baselined \cap Settled \in SUBSET Settled
        /\ Settled \ (baselined \cap Settled) = Settled \ baselined
    BY CountedAreUses
  <2>2. T = based + Tally(Settled \ (baselined \cap Settled), m)
        /\ T \in Nat /\ based \in Nat /\ Tally(Settled \ (baselined \cap Settled), m) \in Nat
    <3>1. SplitsAt(Settled, baselined \cap Settled, m)
      BY <2>1, TallySplitsAt
    <3>2. QED
      BY <3>1 DEF SplitsAt
  <2>3. counted \ (Settled \ baselined) = counted \ Settled /\ Settled \ baselined \in SUBSET Uses
    BY <1>2, CountedAreUses
  <2>4. /\ all = Tally(Settled \ baselined, m) + Tally(counted \ (Settled \ baselined), m)
        /\ all \in Nat /\ Tally(counted \ (Settled \ baselined), m) \in Nat /\ c \in Nat
    BY <2>3, UnionTally, CountedAreUses
  <2>5. QED
    BY <2>1, <2>2, <2>3, <2>4, CountedAreUses
<1>7. d \in Nat /\ d <= T /\ e \in Nat /\ (e <= T => d = T - e)
  <2>1. m \in DOMAIN memory.totals => memory.totals[m] \in Nat
    <3>1. memory \in Totals
      BY DEF CounterTypes
    <3>2. QED
      BY <3>1, TotalsShape
  <2>2. Increase(memory.totals, m, T) \in Nat /\ Increase(memory.totals, m, T) <= T /\ e \in Nat
        /\ (e <= T => Increase(memory.totals, m, T) = T - e)
    BY <1>6, <2>1, IncreaseIsBounded
  <2>3. CASE m \in DOMAIN ModelTotals
    <3>1. d = Increase(memory.totals, m, T)
      BY <2>3, ReadingOfToday DEF AntigravityDeltas, Scopes
    <3>2. QED
      BY <2>2, <3>1
  <2>4. CASE m \notin DOMAIN ModelTotals
    <3>1. d = 0 /\ T = 0
      BY <2>4, ReadingOfToday DEF AntigravityDeltas, Scopes
    <3>2. QED
      BY <2>2, <3>1
  <2>5. QED
    BY <2>3, <2>4
<1>8. Fits(x, c)
  BY <1>4 DEF UsageAddsUp, Watched
<1>9. CASE memory.day = day
  <2>1. e <= T
    BY <1>9, ReadBefore
  <2>2. Fits(x + 0 + based, e + old)
    BY <1>1, <1>4, <1>9, WhenIdle, KnownIsNatural DEF UsageAddsUp, Watched, Scopes
  <2>3. counterCause' = counterCause
    BY <1>1, <1>9
  <2> HIDE DEF T, c, old, based, fresh, all, x, d, e
  <2>4. Fits(x + d, all) /\ Fits(x + d + based, T + old)
    <3>1. x + based <= e + old /\ (counterCause = {} => x + based = e + old)
      BY <1>6, <2>2 DEF Fits
    <3>2. d = T - e /\ T = based + fresh /\ all = fresh + old
      BY <1>6, <1>7, <2>1
    <3>3. x + d <= all /\ x + d + based <= T + old
      BY <1>6, <1>7, <3>1, <3>2
    <3>4. counterCause = {} => x + d = all /\ x + d + based = T + old
      BY <1>6, <1>7, <3>1, <3>2
    <3>5. QED
      BY <3>3, <3>4 DEF Fits
  <2>5. QED
    BY <1>1, <1>3, <1>5, <1>8, <2>3, <2>4 DEF Fits, T, c, old, based, fresh, all, x, d
<1>10. CASE memory.day # day
  <2>1. \A r \in counted \cup baselined : settledOn[r] # day
    <3>1. memory.day \in Nat /\ memory.day < day /\ day \in Nat
      BY <1>10, KnownIsNatural, DayCountersAssumption DEF CounterTypes, CountersTypeOK
    <3>2. \A r \in counted \cup baselined : settledOn[r] <= memory.day /\ settledOn[r] \in Nat
      BY <1>1, WhenIdle, CountedAreUses DEF PollsAreOrdered, CounterTypes, CountersTypeOK
    <3>3. QED
      BY <3>1, <3>2
  <2>2. counted \ Settled = counted /\ baselined \cap Settled = {}
    BY <2>1 DEF Settled, SettledOn
  <2>3. old = c /\ based = 0
    BY <2>2, TallyOfNone
  <2>4. counterCause' # {}
    BY <1>1, <1>10
  <2> HIDE DEF T, c, old, based, fresh, all, x, d, e
  <2>5. x <= c /\ x + d <= all /\ x + d + based <= T + old
    BY <1>6, <1>7, <1>8, <2>3 DEF Fits
  <2>6. QED
    BY <1>1, <1>3, <1>5, <2>4, <2>5 DEF Fits, T, c, old, based, fresh, all, x, d
<1>11. QED
  BY <1>9, <1>10

\* A poll leaves the order of its steps.
LEMMA MeasureKeepsOrder ==
  ASSUME CounterTypes, PollsAreOrdered, counterPc = "idle", NEW inc, NEW t, NEW next \in {"save", "report"}, NEW base \in BOOLEAN,
         Measure(inc, t, next, base), next = "save" => collector # "antigravity", base => collector = "antigravity"
  PROVE  PollsAreOrdered'
<1>1. /\ collector' = collector /\ day' = day /\ settledOn' = settledOn /\ counted' = counted /\ counterPc' = next
      /\ baselined' \in {baselined, baselined \cup (ReadToday \ counted)} /\ (baselined' = baselined \/ base)
      /\ reading' = ReadToday \ baselined'
      /\ checkpoint' = checkpoint /\ memory' = [day |-> day, totals |-> t]
  BY DEF Measure, world
<1>2. memory'.day = day /\ checkpoint'.day <= day /\ day \in Nat /\ checkpoint'.day \in Nat
  BY <1>1, KnownIsNatural, DayCountersAssumption DEF CounterTypes, CountersTypeOK
<1>3. \A r \in Uses : settledOn'[r] <= day
  BY <1>1 DEF CounterTypes
<1>4. Under' \in SUBSET Uses /\ baselined' \in SUBSET Uses
  BY <1>1, CountedAreUses DEF Under, ReadToday, CounterTypes, CountersTypeOK
<1>5. \A r \in reading' : settledOn'[r] = memory'.day
  BY <1>1, <1>2 DEF ReadToday
<1>6. collector # "antigravity" => baselined' = {}
  BY <1>1, WhenIdle
<1>7. QED
  BY <1>1, <1>2, <1>3, <1>4, <1>5, <1>6 DEF PollsAreOrdered

\* A poll that read the settled totals leaves them read.
LEMMA MeasureKeepsReadings ==
  ASSUME TotalsAreRead, NEW inc, NEW t, NEW next, NEW base, Measure(inc, t, next, base),
         "shrunk" \notin counterCause, \A m \in Models : At(t, m) = Tally(Settled, m) /\ Tally(Settled, m) \in Nat
  PROVE  TotalsAreRead'
<1>1. /\ settledOn' = settledOn /\ checkpoint' = checkpoint /\ memory' = [day |-> day, totals |-> t] /\ Models' = Models
      /\ \A d : SettledOn(d)' = SettledOn(d)
  BY DEF Measure, world, Models, Uses, SettledOn
<1>2. \A m \in Models : Known(memory', m) <= Tally(SettledOn(memory'.day), m)
  BY <1>1 DEF Known, At, Settled
<1>3. QED
  BY <1>1, <1>2 DEF TotalsAreRead

\* An OpenCode poll keeps the invariant.
LEMMA PollOpenCodeKeepsInv ==
  ASSUME CounterInv, PollOpenCode
  PROVE  CounterInv'
<1> USE DEF CounterInv
<1>1. /\ counterPc = "idle" /\ collector = "opencode" /\ Measure(OpenCodeDeltas, OpenCodeMemory, "save", FALSE)
      /\ counterCause' = counterCause
  BY DEF PollOpenCode
<1>2. CounterTypes'
  BY <1>1, OpenCodeTypes, MeasureKeepsTypes
<1>3. PollsAreOrdered'
  BY <1>1, MeasureKeepsOrder
<1>4. /\ collector' = collector /\ Models' = Models /\ memory' = [day |-> day, totals |-> OpenCodeMemory]
      /\ checkpoint' = checkpoint /\ metered' = metered /\ deltas' = OpenCodeDeltas
  BY <1>1 DEF Measure, world, Models, Uses
<1>5. CASE "shrunk" \in counterCause
  BY <1>1, <1>2, <1>3, <1>4, <1>5 DEF TotalsAreRead, UsageAddsUp, WholeIsTheSum
<1>6. CASE "shrunk" \notin counterCause
  <2>1. ReadToday = Settled
    BY <1>6, ReadingOfToday
  <2>2. TotalsAreRead'
    BY <1>1, <1>6, OpenCodeMeasures, MeasureKeepsReadings
  <2>3. UsageAddsUp'
    <3> DEFINE earlier == [m \in Models |-> At(OpenCodePrevious, m)]
    <3>1. ASSUME NEW m \in Models, Watched
          PROVE  Fits(metered[m], earlier[m] + Tally(counted \ Settled, m))
      <4>1. deltas[m] = 0 /\ Under = counted /\ baselined = {} /\ metered[m] \in Nat
            /\ Tally(counted \ Settled, m) \in Nat
        BY <1>1, WhenIdle, CountedAreUses, TallyIsNatural DEF Scopes
      <4>2. Tally(baselined \cap Settled, m) = 0
        BY <4>1, TallyOfNone
      <4>3. CASE memory.day = day
        <5>1. Fits(metered[m] + deltas[m] + Tally(baselined \cap Settled, m), Known(memory, m) + Tally(Under \ Settled, m))
          BY <1>1, <3>1, <4>3 DEF UsageAddsUp, Watched
        <5>2. earlier[m] = Known(memory, m)
          BY <4>3, OpenCodeCompares DEF At, Known
        <5>3. Fits(metered[m] + 0 + 0, earlier[m] + Tally(counted \ Settled, m))
          BY <4>1, <4>2, <5>1, <5>2
        <5>4. QED
          BY <4>1, <5>3 DEF Fits
      <4>4. CASE memory.day # day
        <5>1. Fits(metered[m] + deltas[m], KnownToday(checkpoint, m) + Tally(Under \ Settled, m))
          BY <1>1, <3>1 DEF UsageAddsUp, Watched
        <5>2. earlier[m] = KnownToday(checkpoint, m)
          BY <4>4, OpenCodeCompares DEF At, Known, KnownToday
        <5>3. Fits(metered[m] + 0, earlier[m] + Tally(counted \ Settled, m))
          BY <4>1, <5>1, <5>2
        <5>4. QED
          BY <4>1, <5>3 DEF Fits
      <4>5. QED
        BY <4>3, <4>4
    <3>2. \A m \in Models : /\ earlier[m] \in Nat /\ earlier[m] <= Tally(Settled, m)
                            /\ OpenCodeDeltas[m] = Tally(Settled, m) - earlier[m]
                            /\ At(OpenCodeMemory, m) = Tally(Settled, m)
      BY <1>6, OpenCodeMeasures
    <3> HIDE DEF earlier
    <3>3. Moves(OpenCodeDeltas, OpenCodeMemory, "save", earlier)
      BY <3>1, <3>2 DEF Moves
    <3>4. collector # "antigravity"
      BY <1>1
    <3>5. QED
      BY <1>1, <2>1, <3>3, <3>4, PollKeepsUsage
  <2>4. WholeIsTheSum'
    <3>1. [m \in Models |-> At(OpenCodeMemory, m)] = [m \in Models |-> Known(memory', m)]
          /\ Known(memory', "all") = At(OpenCodeMemory, "all")
      BY <1>4 DEF At, Known
    <3>2. QED
      BY <1>1, <1>4, <1>6, <3>1, OpenCodeWhole DEF WholeIsTheSum
  <2>5. QED
    BY <1>2, <1>3, <2>2, <2>3, <2>4
<1>7. QED
  BY <1>5, <1>6

\* So does one of Infer Runtime, which settles against its history.
LEMMA PollInferKeepsInv ==
  ASSUME CounterInv, PollInfer
  PROVE  CounterInv'
<1> USE DEF CounterInv
<1> DEFINE next == IF memory # [day |-> day, totals |-> ModelTotals] THEN "save" ELSE "report"
<1>1. /\ counterPc = "idle" /\ collector = "infer-runtime" /\ Measure(InferDeltas, ModelTotals, next, FALSE)
      /\ counterCause' = counterCause /\ next \in {"save", "report"} /\ collector # "antigravity"
  BY DEF PollInfer
<1>2. next # "save" => memory.day = day /\ memory.totals = ModelTotals
  <2>1. next # "save" => memory = [day |-> day, totals |-> ModelTotals]
    OBVIOUS
  <2>2. QED
    BY <2>1
<1> HIDE DEF next
<1>3. CounterTypes'
  <2>1. [day |-> day, totals |-> ModelTotals] \in Totals
    <3>1. ModelTotals \in [DOMAIN ModelTotals -> Nat] /\ DOMAIN ModelTotals \in SUBSET Scopes
      <4>1. ModelTotals = [m \in DOMAIN ModelTotals |-> ModelTotals[m]]
        BY DEF ModelTotals
      <4>2. QED
        BY <4>1, ReadingOfToday DEF Scopes
    <3>2. day \in Nat
      BY DayCountersAssumption DEF CounterTypes, CountersTypeOK
    <3>3. QED
      BY <3>1, <3>2, TotalsOf
  <2>2. QED
    BY <1>1, <2>1, InferTypes, MeasureKeepsTypes
<1>4. PollsAreOrdered'
  BY <1>1, MeasureKeepsOrder
<1>5. /\ collector' = collector /\ Models' = Models /\ memory' = [day |-> day, totals |-> ModelTotals]
      /\ checkpoint' = checkpoint /\ metered' = metered /\ deltas' = InferDeltas
  BY <1>1 DEF Measure, world, Models, Uses
<1>6. \A c \in {memory, checkpoint}' : DOMAIN c.totals \subseteq Models
  BY <1>1, <1>5, ReadingOfToday DEF WholeIsTheSum
<1>7. CASE "shrunk" \in counterCause
  BY <1>1, <1>3, <1>4, <1>5, <1>6, <1>7 DEF TotalsAreRead, UsageAddsUp, WholeIsTheSum
<1>8. CASE "shrunk" \notin counterCause
  <2>1. ReadToday = Settled
    BY <1>8, ReadingOfToday
  <2>2. TotalsAreRead'
    BY <1>1, <1>8, InferMeasures, MeasureKeepsReadings
  <2>3. UsageAddsUp'
    <3> DEFINE earlier == [m \in Models |-> KnownToday(memory, m)]
    <3>1. ASSUME NEW m \in Models, Watched
          PROVE  Fits(metered[m], earlier[m] + Tally(counted \ Settled, m))
      <4>1. deltas[m] = 0 /\ Under = counted /\ baselined = {} /\ metered[m] \in Nat
            /\ Tally(counted \ Settled, m) \in Nat
        BY <1>1, WhenIdle, CountedAreUses, TallyIsNatural DEF Scopes
      <4>2. Tally(baselined \cap Settled, m) = 0
        BY <4>1, TallyOfNone
      <4>3. CASE memory.day = day
        <5>1. Fits(metered[m] + deltas[m] + Tally(baselined \cap Settled, m), Known(memory, m) + Tally(Under \ Settled, m))
          BY <1>1, <3>1, <4>3 DEF UsageAddsUp, Watched
        <5>2. earlier[m] = Known(memory, m)
          BY <4>3 DEF KnownToday
        <5>3. Fits(metered[m] + 0 + 0, earlier[m] + Tally(counted \ Settled, m))
          BY <4>1, <4>2, <5>1, <5>2
        <5>4. QED
          BY <4>1, <5>3 DEF Fits
      <4>4. CASE memory.day # day
        <5>1. Fits(metered[m] + deltas[m], KnownToday(checkpoint, m) + Tally(Under \ Settled, m))
          BY <1>1, <3>1 DEF UsageAddsUp, Watched
        <5>2. checkpoint.day # day
          <6>1. checkpoint.day <= memory.day /\ memory.day \in 0 .. day /\ checkpoint.day \in 0 .. day /\ day \in Nat
            BY <1>1, KnownIsNatural, DayCountersAssumption DEF PollsAreOrdered, CounterTypes, CountersTypeOK
          <6>2. QED
            BY <4>4, <6>1
        <5>3. earlier[m] = KnownToday(checkpoint, m)
          BY <4>4, <5>2 DEF KnownToday
        <5>4. Fits(metered[m] + 0, earlier[m] + Tally(counted \ Settled, m))
          BY <4>1, <5>1, <5>3
        <5>5. QED
          BY <4>1, <5>4 DEF Fits
      <4>5. QED
        BY <4>3, <4>4
    <3>2. \A m \in Models : /\ earlier[m] \in Nat /\ earlier[m] <= Tally(Settled, m)
                            /\ InferDeltas[m] = Tally(Settled, m) - earlier[m]
                            /\ At(ModelTotals, m) = Tally(Settled, m)
      BY <1>1, <1>8, InferMeasures
    <3>3. \A m \in Models : next # "save" => earlier[m] = Tally(Settled, m)
      BY <1>2, <3>2 DEF KnownToday, Known, At
    <3> HIDE DEF earlier
    <3>4. Moves(InferDeltas, ModelTotals, next, earlier)
      BY <3>1, <3>2, <3>3 DEF Moves
    <3>5. QED
      BY <1>1, <2>1, <3>4, PollKeepsUsage
  <2>4. WholeIsTheSum'
    BY <1>1, <1>5, <1>6, <1>8, InferMeasures DEF WholeIsTheSum
  <2>5. QED
    BY <1>3, <1>4, <2>2, <2>3, <2>4
<1>9. QED
  BY <1>7, <1>8

\* So does one of Antigravity, whose first reading is a baseline.
LEMMA PollAntigravityKeepsInv ==
  ASSUME CounterInv, PollAntigravity
  PROVE  CounterInv'
<1> USE DEF CounterInv
<1> DEFINE base == memory.totals = <<>>
<1>1. /\ counterPc = "idle" /\ collector = "antigravity" /\ Measure(AntigravityDeltas, ModelTotals, "report", base)
      /\ ("shrunk" \in counterCause <=> "shrunk" \in counterCause')
  BY DEF PollAntigravity
<1>2. base \in BOOLEAN
  OBVIOUS
<1>3. AntigravityDeltas \in [Scopes -> Nat] /\ [day |-> day, totals |-> ModelTotals] \in Totals
  <2>1. ModelTotals \in [DOMAIN ModelTotals -> Nat] /\ DOMAIN ModelTotals \in SUBSET Scopes
    <3>1. ModelTotals = [m \in DOMAIN ModelTotals |-> ModelTotals[m]]
      BY DEF ModelTotals
    <3>2. QED
      BY <3>1, ReadingOfToday DEF Scopes
  <2>2. day \in Nat
    BY DayCountersAssumption DEF CounterTypes, CountersTypeOK
  <2>3. \A s \in DOMAIN ModelTotals : Increase(memory.totals, s, ModelTotals[s]) \in Nat
    <3>1. memory \in Totals
      BY DEF CounterTypes
    <3>2. QED
      BY <3>1, TotalsShape, ReadingOfToday, IncreaseIsBounded
  <2>4. QED
    BY <2>1, <2>2, <2>3, TotalsOf DEF AntigravityDeltas
<1>4. CounterTypes'
  <2> HIDE DEF base
  <2>1. QED
    BY <1>1, <1>2, <1>3, MeasureKeepsTypes
<1>5. PollsAreOrdered'
  <2> HIDE DEF base
  <2>1. QED
    BY <1>1, <1>2, MeasureKeepsOrder
<1>6. /\ collector' = collector /\ Models' = Models
  BY <1>1 DEF Measure, world, Models, Uses
<1>7. WholeIsTheSum'
  BY <1>1, <1>6 DEF WholeIsTheSum
<1>8. CASE "shrunk" \in counterCause
  BY <1>1, <1>4, <1>5, <1>7, <1>8 DEF TotalsAreRead, UsageAddsUp
<1>9. CASE "shrunk" \notin counterCause
  <2>1. ReadToday = Settled
    BY <1>9, ReadingOfToday
  <2>2. TotalsAreRead'
    <3>1. \A m \in Models : At(ModelTotals, m) = Tally(Settled, m) /\ Tally(Settled, m) \in Nat
      BY <2>1, ReadingOfToday, SettledAreUses DEF At
    <3> HIDE DEF base
    <3>2. QED
      BY <1>1, <1>9, <3>1, MeasureKeepsReadings
  <2>3. UsageAddsUp'
    BY <1>9, <2>1, BaselineKeepsUsage, AntigravityKeepsUsage
  <2>4. QED
    BY <1>4, <1>5, <1>7, <2>2, <2>3
<1>10. QED
  BY <1>8, <1>9

-------------------------------------------------------------------------------
\* The other steps of a collector.
LEMMA WorldStands ==
  ASSUME UNCHANGED world
  PROVE  /\ collector' = collector /\ day' = day /\ settledOn' = settledOn /\ readable' = readable
         /\ Models' = Models /\ Settled' = Settled /\ (\A d : SettledOn(d)' = SettledOn(d))
  BY DEF world, Models, Uses, Settled, SettledOn

\* So does a poll that read nothing.
LEMMA PollWithoutReadingKeepsInv ==
  ASSUME CounterInv, NEW status \in {"available", "error"}, PollWithoutReading(status)
  PROVE  CounterInv'
<1> USE DEF CounterInv
<1>1. /\ UNCHANGED <<world, memory, checkpoint, deltas, window, metered, reading, counted, baselined, counterCause>>
      /\ counterPc = "idle" /\ counterPc' = "report"
  BY DEF PollWithoutReading, observer
<1>2. CounterTypes'
  BY OtherStepsKeepTypes
<1>3. reading = {} /\ Under' = Under
  BY <1>1, WhenIdle DEF Under
<1>4. PollsAreOrdered'
  BY <1>1, <1>3, WorldStands DEF PollsAreOrdered
<1>5. TotalsAreRead'
  BY <1>1, WorldStands DEF TotalsAreRead
<1>6. UsageAddsUp'
  BY <1>1, <1>3, WorldStands DEF UsageAddsUp, KnownToday, Fits
<1>7. WholeIsTheSum'
  BY <1>1, WorldStands DEF WholeIsTheSum
<1>8. QED
  BY <1>2, <1>4, <1>5, <1>6, <1>7

\* So does a report from the cache, of increments of zero.
LEMMA ReportCachedKeepsInv ==
  ASSUME CounterInv, ReportCached
  PROVE  CounterInv'
<1> USE DEF CounterInv
<1>1. /\ UNCHANGED <<world, memory, checkpoint, deltas, metered, reading, counted, baselined, counterCause, counterPc>>
  BY DEF ReportCached, observer
<1>2. CounterTypes'
  BY OtherStepsKeepTypes
<1>3. Under' = Under
  BY <1>1 DEF Under
<1>4. PollsAreOrdered'
  BY <1>1, <1>3, WorldStands DEF PollsAreOrdered
<1>5. TotalsAreRead'
  BY <1>1, WorldStands DEF TotalsAreRead
<1>6. UsageAddsUp'
  BY <1>1, <1>3, WorldStands DEF UsageAddsUp, KnownToday, Fits
<1>7. WholeIsTheSum'
  BY <1>1, WorldStands DEF WholeIsTheSum
<1>8. QED
  BY <1>2, <1>4, <1>5, <1>6, <1>7

\* Usage measured while a save is under way is of the day of the reading.
LEMMA ReadingsOfADay ==
  ASSUME CounterTypes, PollsAreOrdered, counterPc = "save" \/ reading # {}
  PROVE  /\ memory.day = day => Under \ Settled = counted \ Settled
         /\ memory.day # day => Under \ Settled = Under /\ counted \ Settled = counted
<1>1. /\ \A r \in Under : settledOn[r] <= memory.day
      /\ \A r \in reading : settledOn[r] = memory.day
  BY DEF PollsAreOrdered
<1>2. memory.day = day => Under \ Settled = counted \ Settled
  BY <1>1, CountedAreUses DEF Under, Settled, SettledOn
<1>3. ASSUME memory.day # day PROVE \A r \in Under : settledOn[r] # day
  <2>1. memory.day \in Nat /\ memory.day < day /\ day \in Nat
    BY <1>3, KnownIsNatural, DayCountersAssumption DEF CounterTypes, CountersTypeOK
  <2>2. \A r \in Under : settledOn[r] \in Nat
    BY CountedAreUses DEF CounterTypes, CountersTypeOK
  <2>3. QED
    BY <1>1, <2>1, <2>2
<1>4. memory.day # day => Under \ Settled = Under /\ counted \ Settled = counted
  BY <1>3 DEF Under, Settled, SettledOn
<1>5. QED
  BY <1>2, <1>4

\* So does saving the checkpoint, before the points are reported.
LEMMA SaveKeepsInv ==
  ASSUME CounterInv, SaveCheckpoint
  PROVE  CounterInv'
<1> USE DEF CounterInv
<1>1. /\ UNCHANGED <<world, memory, deltas, metered, reading, counted, baselined, counterCause>>
      /\ counterPc = "save" /\ counterPc' = "report" /\ checkpoint' = memory
  BY DEF SaveCheckpoint, observer
<1>2. CounterTypes'
  BY OtherStepsKeepTypes
<1>3. Under' = Under
  BY <1>1 DEF Under
<1>4. memory.day \in Nat /\ collector # "antigravity" /\ baselined = {}
  BY <1>1, KnownIsNatural DEF PollsAreOrdered
<1>5. PollsAreOrdered'
  BY <1>1, <1>3, <1>4, WorldStands DEF PollsAreOrdered
<1>6. TotalsAreRead'
  BY <1>1, WorldStands DEF TotalsAreRead
<1>7. UsageAddsUp'
  <2>1. SUFFICES ASSUME Watched, NEW m \in Models
        PROVE  Fits(metered[m] + deltas[m], KnownToday(memory, m) + Tally(Under \ Settled, m))
    BY <1>1, <1>3, <1>4, WorldStands DEF UsageAddsUp, KnownToday, Fits, Watched
  <2>2. metered[m] \in Nat /\ deltas[m] \in Nat /\ Under \in SUBSET Uses /\ Tally(Under, m) \in Nat
    BY CountedAreUses, TallyIsNatural
  <2>3. Tally(baselined \cap Settled, m) = 0
    BY <1>4, TallyOfNone
  <2>4. CASE memory.day = day
    <3>1. Fits(metered[m] + deltas[m] + 0, KnownToday(memory, m) + Tally(Under \ Settled, m))
      BY <1>4, <2>1, <2>3, <2>4 DEF UsageAddsUp, KnownToday, Watched
    <3>2. QED
      BY <2>2, <3>1 DEF Fits
  <2>5. CASE memory.day # day
    <3>1. KnownToday(memory, m) = 0 /\ Under \ Settled = Under
      BY <1>1, <2>5, ReadingsOfADay DEF KnownToday
    <3>2. Fits(metered[m] + deltas[m], Tally(Under, m))
      BY <2>1 DEF UsageAddsUp, Watched
    <3>3. \A n \in Nat : 0 + n = n
      OBVIOUS
    <3>4. QED
      BY <2>2, <3>1, <3>2, <3>3
  <2>6. QED
    BY <2>4, <2>5
<1>8. WholeIsTheSum'
  BY <1>1, WorldStands DEF WholeIsTheSum
<1>9. QED
  BY <1>2, <1>5, <1>6, <1>7, <1>8

\* A cause is noted exactly where an increment was missed.
LEMMA MissedIsNoted ==
  ASSUME CounterTypes, NEW cause \in {"dropped", "withheld"}, counterCause' = Missed(cause)
  PROVE  /\ counterCause' = {} => counterCause = {} /\ \A m \in Models : deltas[m] = 0
         /\ counterCause' \cap {"lost", "shrunk"} = counterCause \cap {"lost", "shrunk"}
         /\ "shrunk" \in counterCause' <=> "shrunk" \in counterCause
  BY DEF Missed, NoDeltas, Scopes

\* So does a failed save.
LEMMA SaveFailsKeepsInv ==
  ASSUME CounterInv, SaveCheckpointFails
  PROVE  CounterInv'
<1> USE DEF CounterInv
<1>1. /\ UNCHANGED <<world, memory, checkpoint, metered, reading, counted, baselined>>
      /\ counterPc = "save" /\ counterPc' = "report" /\ deltas' = NoDeltas /\ counterCause' = Missed("dropped")
  BY DEF SaveCheckpointFails, observer
<1>2. CounterTypes'
  BY OtherStepsKeepTypes
<1>3. Under' = Under
  BY <1>1 DEF Under
<1>4. memory.day \in 0 .. day /\ checkpoint.day \in 0 .. day /\ checkpoint.day <= memory.day /\ day \in Nat
      /\ collector # "antigravity" /\ baselined = {}
  BY <1>1, KnownIsNatural, DayCountersAssumption DEF PollsAreOrdered, CounterTypes, CountersTypeOK
<1>5. /\ counterCause' = {} => counterCause = {} /\ \A m \in Models : deltas[m] = 0
      /\ counterCause' \cap {"lost", "shrunk"} = counterCause \cap {"lost", "shrunk"}
      /\ "shrunk" \in counterCause' <=> "shrunk" \in counterCause
  BY <1>1, MissedIsNoted
<1>6. \A s \in Scopes : deltas'[s] = 0
  BY <1>1 DEF NoDeltas
<1>7. PollsAreOrdered'
  BY <1>1, <1>3, <1>4, WorldStands DEF PollsAreOrdered
<1>8. TotalsAreRead'
  BY <1>1, <1>5, WorldStands DEF TotalsAreRead
<1>9. UsageAddsUp'
  <2> DEFINE FitsNow(a, b) == a <= b /\ (counterCause' = {} => a = b)
  <2>1. SUFFICES ASSUME Watched, NEW m \in Models
        PROVE  /\ FitsNow(metered[m], Tally(counted, m))
               /\ FitsNow(metered[m] + 0, Tally(Under, m))
               /\ memory.day = day => FitsNow(metered[m] + 0 + Tally(baselined \cap Settled, m), Known(memory, m) + Tally(Under \ Settled, m))
               /\ FitsNow(metered[m] + 0, KnownToday(checkpoint, m) + Tally(Under \ Settled, m))
    <3>1. \A m \in Models : deltas'[m] = 0
      BY <1>6 DEF Scopes
    <3>2. QED
      BY <1>1, <1>3, <1>4, <1>5, <3>1, WorldStands DEF UsageAddsUp, KnownToday, Fits, Watched
  <2> DEFINE x == metered[m]
             d == deltas[m]
             c == Tally(counted, m)
             u == Tally(Under, m)
             old == Tally(counted \ Settled, m)
             oldu == Tally(Under \ Settled, m)
             based == Tally(baselined \cap Settled, m)
             k == Known(memory, m)
             t == KnownToday(checkpoint, m)
  <2>2. x \in Nat /\ d \in Nat /\ c \in Nat /\ u \in Nat /\ old \in Nat /\ oldu \in Nat /\ based \in Nat /\ k \in Nat /\ t \in Nat
    BY CountedAreUses, TallyIsNatural, KnownIsNatural
  <2>3. Fits(x, c) /\ Fits(x + d, u) /\ (memory.day = day => Fits(x + d + based, k + oldu)) /\ Fits(x, t + old)
    BY <1>1, <1>4, <2>1 DEF UsageAddsUp, Watched
  <2>4. \/ memory.day = day /\ oldu = old
        \/ memory.day # day /\ oldu = u /\ t = 0
    <3>1. CASE memory.day = day
      BY <1>1, <3>1, ReadingsOfADay
    <3>2. CASE memory.day # day
      <4>1. checkpoint.day # day
        BY <1>4, <3>2
      <4>2. QED
        BY <1>1, <3>2, <4>1, ReadingsOfADay DEF KnownToday
    <3>3. QED
      BY <3>1, <3>2
  <2>5. counterCause' = {} => counterCause = {} /\ d = 0
    BY <1>5
  <2> HIDE DEF x, d, c, u, old, oldu, based, k, t
  <2>6. x <= c /\ x + 0 <= u /\ (memory.day = day => x + 0 + based <= k + oldu) /\ x + 0 <= t + oldu
    BY <2>2, <2>3, <2>4 DEF Fits
  <2>7. counterCause' = {} => x = c /\ x + 0 = u /\ (memory.day = day => x + 0 + based = k + oldu) /\ x + 0 = t + oldu
    BY <2>2, <2>3, <2>4, <2>5 DEF Fits
  <2>8. QED
    BY <2>6, <2>7 DEF x, d, c, u, old, oldu, based, k, t
<1>10. WholeIsTheSum'
  <2>1. SumFunctionOnSet(deltas', Models) = 0 /\ deltas'["all"] = 0
    BY <1>6, SumOfNothing, UsesAreFinite DEF Scopes
  <2>2. QED
    BY <1>1, <1>5, <2>1, WorldStands DEF WholeIsTheSum
<1>11. QED
  BY <1>2, <1>7, <1>8, <1>9, <1>10

\* So does reporting the points of a poll.
LEMMA ReportKeepsInv ==
  ASSUME CounterInv, ReportDeltas
  PROVE  CounterInv'
<1> USE DEF CounterInv
<1>1. /\ UNCHANGED <<world, memory, checkpoint, baselined>>
      /\ counterPc = "report" /\ counterPc' = "idle" /\ deltas' = NoDeltas
      /\ counted' = counted \cup reading /\ reading' = {}
      /\ \/ metered' = [s \in Scopes |-> metered[s] + deltas[s]] /\ counterCause' = counterCause
         \/ metered' = metered /\ counterCause' = Missed("withheld")
  BY DEF ReportDeltas
<1>2. CounterTypes'
  BY OtherStepsKeepTypes
<1>3. Under' = Under /\ counted' = Under
  BY <1>1 DEF Under
<1>4. /\ counterCause' \cap {"lost", "shrunk"} = counterCause \cap {"lost", "shrunk"}
      /\ "shrunk" \in counterCause' <=> "shrunk" \in counterCause
  BY <1>1, MissedIsNoted
<1>5. \A s \in Scopes : deltas'[s] = 0
  BY <1>1 DEF NoDeltas
<1>6. PollsAreOrdered'
  BY <1>1, <1>3, WorldStands DEF PollsAreOrdered
<1>7. TotalsAreRead'
  BY <1>1, <1>4, WorldStands DEF TotalsAreRead
<1>8. UsageAddsUp'
  <2> DEFINE FitsNow(a, b) == a <= b /\ (counterCause' = {} => a = b)
  <2>1. SUFFICES ASSUME Watched, NEW m \in Models
        PROVE  /\ FitsNow(metered'[m], Tally(Under, m))
               /\ FitsNow(metered'[m] + 0, Tally(Under, m))
               /\ memory.day = day /\ (collector = "antigravity" => memory.totals # <<>>) =>
                    FitsNow(metered'[m] + 0 + Tally(baselined \cap Settled, m), Known(memory, m) + Tally(Under \ Settled, m))
               /\ collector # "antigravity" => FitsNow(metered'[m] + 0, KnownToday(checkpoint, m) + Tally(Under \ Settled, m))
    <3>1. \A m \in Models : deltas'[m] = 0
      BY <1>5 DEF Scopes
    <3>2. QED
      BY <1>1, <1>3, <1>4, <3>1, WorldStands DEF UsageAddsUp, KnownToday, Fits, Watched
  <2> DEFINE x == metered[m]
             d == deltas[m]
             y == metered'[m]
             u == Tally(Under, m)
             oldu == Tally(Under \ Settled, m)
             based == Tally(baselined \cap Settled, m)
             k == Known(memory, m)
             t == KnownToday(checkpoint, m)
             C == memory.day = day /\ (collector = "antigravity" => memory.totals # <<>>)
  <2>2. x \in Nat /\ d \in Nat /\ u \in Nat /\ oldu \in Nat /\ based \in Nat /\ k \in Nat /\ t \in Nat
    BY CountedAreUses, TallyIsNatural, KnownIsNatural
  <2>3. Fits(x + d, u) /\ (C => Fits(x + d + based, k + oldu)) /\ (collector # "antigravity" => Fits(x + d, t + oldu))
    BY <1>1, <2>1 DEF UsageAddsUp, Watched
  <2>4. \/ y = x + d /\ counterCause' = counterCause
        \/ y = x /\ (counterCause' = {} => counterCause = {} /\ d = 0)
    <3>1. m \in Scopes
      BY DEF Scopes
    <3>2. QED
      BY <1>1, <3>1, MissedIsNoted
  <2> HIDE DEF x, d, y, u, oldu, based, k, t, C
  <2>5. y \in Nat
    BY <2>2, <2>4
  <2>6. y <= u /\ y + 0 <= u /\ (C => y + 0 + based <= k + oldu) /\ (collector # "antigravity" => y + 0 <= t + oldu)
    BY <2>2, <2>3, <2>4 DEF Fits
  <2>7. counterCause' = {} => y = u /\ y + 0 = u /\ (C => y + 0 + based = k + oldu)
                              /\ (collector # "antigravity" => y + 0 = t + oldu)
    BY <2>2, <2>3, <2>4 DEF Fits
  <2>8. QED
    BY <2>6, <2>7 DEF y, u, oldu, based, k, t, C
<1>9. WholeIsTheSum'
  <2>1. SumFunctionOnSet(deltas', Models) = 0 /\ deltas'["all"] = 0
    BY <1>5, SumOfNothing, UsesAreFinite DEF Scopes
  <2>2. ASSUME metered["all"] = SumFunctionOnSet(metered, Models), deltas["all"] = SumFunctionOnSet(deltas, Models)
        PROVE  metered'["all"] = SumFunctionOnSet(metered', Models)
    <3>1. CASE metered' = metered
      BY <2>2, <3>1
    <3>2. CASE metered' = [s \in Scopes |-> metered[s] + deltas[s]]
      <4>1. \A m \in Models : metered[m] \in Nat /\ deltas[m] \in Nat /\ metered'[m] = metered[m] + deltas[m]
        BY <3>2, CountedAreUses DEF Scopes
      <4>2. SumFunctionOnSet(metered', Models) = SumFunctionOnSet(metered, Models) + SumFunctionOnSet(deltas, Models)
        BY <4>1, SumOfBoth, UsesAreFinite
      <4>3. metered'["all"] = metered["all"] + deltas["all"]
        BY <3>2 DEF Scopes
      <4>4. QED
        BY <2>2, <4>2, <4>3
    <3>3. QED
      BY <1>1, <3>1, <3>2
  <2>3. QED
    BY <1>1, <1>4, <2>1, <2>2, WorldStands DEF WholeIsTheSum
<1>10. QED
  BY <1>2, <1>6, <1>7, <1>8, <1>9

\* So does a restart, which notes what it loses.
LEMMA RestartKeepsInv ==
  ASSUME CounterInv, RestartCollector
  PROVE  CounterInv'
<1> USE DEF CounterInv
<1>1. /\ UNCHANGED <<world, checkpoint, metered, counted, baselined>>
      /\ counterPc' = "idle" /\ deltas' = NoDeltas /\ reading' = {}
      /\ memory' = IF collector = "infer-runtime" THEN checkpoint ELSE NoTotals
      /\ counterCause' = IF counterPc = "report" THEN Missed("dropped") ELSE counterCause
  BY DEF RestartCollector
<1>2. CounterTypes'
  BY OtherStepsKeepTypes
<1>3. Under' = counted
  BY <1>1 DEF Under
<1>4. /\ counterCause' \cap {"lost", "shrunk"} = counterCause \cap {"lost", "shrunk"}
      /\ "shrunk" \in counterCause' <=> "shrunk" \in counterCause
      /\ counterCause' = {} => counterCause = {}
      /\ counterPc = "report" /\ counterCause' = {} => \A m \in Models : deltas[m] = 0
  BY <1>1, MissedIsNoted
<1>5. \A s \in Scopes : deltas'[s] = 0
  BY <1>1 DEF NoDeltas
<1>6. day \in Nat /\ day # 0 /\ checkpoint.day \in Nat
  BY KnownIsNatural, DayCountersAssumption DEF CounterTypes, CountersTypeOK
<1>7. \A m : Known(NoTotals, m) = 0
  BY NothingKept DEF Known
<1>8. PollsAreOrdered'
  BY <1>1, <1>3, <1>6, WorldStands, NothingKept DEF PollsAreOrdered
<1>9. TotalsAreRead'
  <2>1. \A d, m : Tally(SettledOn(d), m) \in Nat
    BY TallyIsNatural DEF SettledOn
  <2>2. \A d, m : Known(NoTotals, m) <= Tally(SettledOn(d), m)
    BY <1>7, <2>1
  <2>3. QED
    BY <1>1, <1>4, <2>2, WorldStands DEF TotalsAreRead
<1>10. UsageAddsUp'
  <2> DEFINE FitsNow(a, b) == a <= b /\ (counterCause' = {} => a = b)
  <2>1. SUFFICES ASSUME Watched, NEW m \in Models
        PROVE  /\ FitsNow(metered[m], Tally(counted, m))
               /\ FitsNow(metered[m] + 0, Tally(counted, m))
               /\ checkpoint.day = day /\ collector = "infer-runtime" =>
                    FitsNow(metered[m] + 0 + Tally(baselined \cap Settled, m), Known(checkpoint, m) + Tally(counted \ Settled, m))
               /\ collector # "antigravity" => FitsNow(metered[m] + 0, KnownToday(checkpoint, m) + Tally(counted \ Settled, m))
    <3>1. \A m \in Models : deltas'[m] = 0
      BY <1>5 DEF Scopes
    <3>2. memory'.day = day => collector = "infer-runtime" /\ memory' = checkpoint
      BY <1>1, <1>6, NothingKept
    <3>3. QED
      BY <1>1, <1>3, <1>4, <3>1, <3>2, WorldStands DEF UsageAddsUp, KnownToday, Fits, Watched
  <2> DEFINE x == metered[m]
             d == deltas[m]
             c == Tally(counted, m)
             u == Tally(Under, m)
             old == Tally(counted \ Settled, m)
             oldu == Tally(Under \ Settled, m)
             t == KnownToday(checkpoint, m)
  <2>2. x \in Nat /\ d \in Nat /\ c \in Nat /\ u \in Nat /\ old \in Nat /\ oldu \in Nat /\ t \in Nat
    BY CountedAreUses, TallyIsNatural, KnownIsNatural
  <2>3. Fits(x, c) /\ Fits(x + d, u)
    BY <2>1 DEF UsageAddsUp, Watched
  <2>4. ASSUME collector # "antigravity" PROVE FitsNow(x, t + old)
    <3>1. IF counterPc = "save" THEN Fits(x, t + old) ELSE Fits(x + d, t + oldu)
      BY <2>1, <2>4 DEF UsageAddsUp, Watched
    <3>2. CASE counterPc = "save"
      <4>1. Fits(x, t + old)
        BY <3>1, <3>2
      <4>2. QED
        BY <1>4, <4>1 DEF Fits
    <3>3. CASE counterPc = "idle"
      <4>1. d = 0 /\ oldu = old
        BY <3>3, WhenIdle DEF Scopes
      <4>2. Fits(x + 0, t + old)
        BY <3>1, <3>3, <4>1
      <4> HIDE DEF x, d, c, u, old, oldu, t
      <4>3. QED
        BY <1>4, <2>2, <4>2 DEF Fits
    <3>4. CASE counterPc = "report"
      <4>1. Fits(x + d, t + oldu) /\ (counterCause' = {} => counterCause = {} /\ d = 0)
        BY <1>4, <3>1, <3>4
      <4>2. \/ oldu = old
            \/ oldu = u /\ old = c /\ c <= u
        <5>1. CASE reading = {}
          BY <5>1 DEF Under
        <5>2. CASE reading # {} /\ memory.day = day
          BY <5>2, ReadingsOfADay
        <5>3. CASE reading # {} /\ memory.day # day
          <6>1. counted \in SUBSET Under /\ Under \in SUBSET Uses
            BY CountedAreUses DEF Under
          <6>2. c <= u
            BY <6>1, TallySplits
          <6>3. QED
            BY <5>3, <6>2, ReadingsOfADay
        <5>4. QED
          BY <5>1, <5>2, <5>3
      <4> HIDE DEF x, d, c, u, old, oldu, t
      <4>3. x <= t + old
        BY <2>2, <2>3, <4>1, <4>2 DEF Fits
      <4>4. counterCause' = {} => x = t + old
        BY <2>2, <2>3, <4>1, <4>2 DEF Fits
      <4>5. QED
        BY <4>3, <4>4
    <3>5. QED
      BY <3>2, <3>3, <3>4 DEF CounterTypes, CountersTypeOK
  <2>5. collector = "infer-runtime" => Tally(baselined \cap Settled, m) = 0
    BY TallyOfNone DEF PollsAreOrdered
  <2>6. checkpoint.day = day => Known(checkpoint, m) = t
    BY DEF KnownToday
  <2> HIDE DEF x, d, c, u, old, oldu, t
  <2>7. FitsNow(x, c) /\ FitsNow(x + 0, c)
    BY <1>4, <2>2, <2>3 DEF Fits
  <2>8. collector # "antigravity" => FitsNow(x + 0, t + old) /\ FitsNow(x + 0 + 0, t + old)
    BY <2>2, <2>4
  <2>9. QED
    BY <2>5, <2>6, <2>7, <2>8 DEF x, c, old, t
<1>11. WholeIsTheSum'
  <2>1. SumFunctionOnSet(deltas', Models) = 0 /\ deltas'["all"] = 0
    BY <1>5, SumOfNothing, UsesAreFinite DEF Scopes
  <2>2. SumFunctionOnSet([m \in Models |-> Known(NoTotals, m)], Models) = 0
    BY <1>7, SumOfNothing, UsesAreFinite
  <2>3. QED
    BY <1>1, <1>4, <1>7, <2>1, <2>2, WorldStands, NothingKept DEF WholeIsTheSum
<1>12. QED
  BY <1>2, <1>8, <1>9, <1>10, <1>11

-------------------------------------------------------------------------------
\* So does a checkpoint that is lost.
LEMMA LoseCheckpointKeepsInv ==
  ASSUME CounterInv, LoseCheckpoint
  PROVE  CounterInv'
<1> USE DEF CounterInv
<1>1. /\ UNCHANGED <<world, memory, deltas, metered, reading, counted, baselined, counterPc>>
      /\ checkpoint' = NoTotals /\ counterCause' = counterCause \cup {"lost"}
  BY DEF LoseCheckpoint, observer
<1>2. CounterTypes'
  BY OtherStepsKeepTypes
<1>3. Under' = Under /\ NoTotals.day <= memory.day
  BY <1>1, NothingKept, KnownIsNatural DEF Under
<1>4. \A m : Known(NoTotals, m) = 0
  BY NothingKept DEF Known
<1>5. PollsAreOrdered'
  BY <1>1, <1>3, WorldStands DEF PollsAreOrdered
<1>6. TotalsAreRead'
  <2>1. \A d, m : Tally(SettledOn(d), m) \in Nat
    BY TallyIsNatural DEF SettledOn
  <2>2. \A d, m : Known(NoTotals, m) <= Tally(SettledOn(d), m)
    BY <1>4, <2>1
  <2>3. QED
    BY <1>1, <2>2, WorldStands DEF TotalsAreRead
<1>7. UsageAddsUp'
  BY <1>1 DEF UsageAddsUp
<1>8. WholeIsTheSum'
  <2>1. SumFunctionOnSet([m \in Models |-> Known(NoTotals, m)], Models) = 0
    BY <1>4, SumOfNothing, UsesAreFinite
  <2>2. QED
    BY <1>1, <1>4, <2>1, WorldStands, NothingKept DEF WholeIsTheSum
<1>9. QED
  BY <1>2, <1>5, <1>6, <1>7, <1>8

\* So does a deletion in the source, whose totals shrink.
LEMMA DeleteKeepsInv ==
  ASSUME CounterInv, NEW r \in Uses, DeleteConversation(r)
  PROVE  CounterInv'
<1> USE DEF CounterInv
<1>1. /\ UNCHANGED <<collector, day, settledOn, memory, checkpoint, deltas, metered, reading, counted, baselined, counterPc>>
      /\ "shrunk" \in counterCause'
  BY DEF DeleteConversation, observer
<1>2. CounterTypes'
  BY ProvidersKeepTypes
<1>3. Under' = Under /\ Models' = Models
  BY <1>1 DEF Under, Models, Uses
<1>4. QED
  BY <1>1, <1>2, <1>3 DEF PollsAreOrdered, TotalsAreRead, UsageAddsUp, WholeIsTheSum

\* So does a request that is settled.
LEMMA SettleKeepsInv ==
  ASSUME CounterInv, NEW r \in Uses, Settle(r)
  PROVE  CounterInv'
<1> USE DEF CounterInv
<1>1. /\ UNCHANGED <<collector, day, readable, memory, checkpoint, deltas, metered, reading, counted, baselined, counterPc, counterCause>>
      /\ settledOn[r] = 0 /\ settledOn' = [settledOn EXCEPT ![r] = day] /\ settledOn \in [Uses -> 0 .. LastDay]
      /\ day \in Nat /\ day # 0
  BY DayCountersAssumption DEF Settle, observer, CounterTypes, CountersTypeOK
<1>2. CounterTypes'
  BY ProvidersKeepTypes
<1>3. Under' = Under /\ Models' = Models
  BY <1>1 DEF Under, Models, Uses
<1>4. r \notin Under /\ r \notin baselined
  BY <1>1 DEF CounterTypes
<1>5. \A q \in Under \cup baselined : settledOn'[q] = settledOn[q]
  BY <1>1, <1>4, CountedAreUses
<1>6. Settled' = Settled \cup {r}
  BY <1>1 DEF Settled, SettledOn, Uses
<1>7. Under \ Settled' = Under \ Settled /\ counted \ Settled' = counted \ Settled
      /\ baselined \cap Settled' = baselined \cap Settled
  BY <1>4, <1>6 DEF Under
<1>8. PollsAreOrdered'
  <2>1. \A q \in reading : settledOn'[q] = settledOn[q]
    BY <1>5 DEF Under
  <2>2. QED
    BY <1>1, <1>3, <1>5, <2>1 DEF PollsAreOrdered
<1>9. TotalsAreRead'
  <2>1. SUFFICES ASSUME "shrunk" \notin counterCause, NEW c \in {memory, checkpoint}, NEW m \in Models
        PROVE  Known(c, m) <= Tally(SettledOn(c.day)', m)
    BY <1>1, <1>3 DEF TotalsAreRead
  <2>2. Known(c, m) <= Tally(SettledOn(c.day), m) /\ Known(c, m) \in Nat
    BY <2>1, KnownIsNatural DEF TotalsAreRead
  <2>3. SettledOn(c.day)' \in SUBSET Uses
    BY DEF SettledOn, Uses
  <2>4. CASE c.day = 0
    <3>1. Known(c, m) = 0
      BY <2>4 DEF CounterTypes, Known
    <3>2. QED
      BY <2>3, <3>1, TallyIsNatural
  <2>5. CASE c.day # 0
    <3>1. SettledOn(c.day) \in SUBSET SettledOn(c.day)'
      BY <1>1, <2>5 DEF SettledOn, Uses
    <3>2. /\ Tally(SettledOn(c.day), m) <= Tally(SettledOn(c.day)', m)
          /\ Tally(SettledOn(c.day), m) \in Nat /\ Tally(SettledOn(c.day)', m) \in Nat
      BY <2>3, <3>1, TallySplits
    <3>3. \A a, b, d \in Nat : a <= b /\ b <= d => a <= d
      OBVIOUS
    <3>4. QED
      BY <2>2, <3>2, <3>3
  <2>6. QED
    BY <2>4, <2>5
<1>10. UsageAddsUp'
  BY <1>1, <1>3, <1>7 DEF UsageAddsUp, KnownToday, Fits
<1>11. WholeIsTheSum'
  BY <1>1, <1>3 DEF WholeIsTheSum
<1>12. QED
  BY <1>2, <1>8, <1>9, <1>10, <1>11

\* So does midnight, which starts the day's totals again.
LEMMA MidnightKeepsInv ==
  ASSUME CounterInv, Midnight
  PROVE  CounterInv'
<1> USE DEF CounterInv
<1>1. /\ UNCHANGED <<collector, settledOn, readable, memory, checkpoint, deltas, metered, reading, counted, baselined, counterPc, counterCause>>
      /\ day' = day + 1 /\ day \in Nat
  BY DayCountersAssumption DEF Midnight, observer, CounterTypes, CountersTypeOK
<1>2. CounterTypes'
  BY ProvidersKeepTypes
<1>3. Under' = Under /\ Models' = Models /\ \A d : SettledOn(d)' = SettledOn(d)
  BY <1>1 DEF Under, Models, Uses, SettledOn
<1>4. Settled' = {}
  <2>1. \A q \in Uses : settledOn[q] <= day /\ settledOn[q] \in Nat
    BY DEF CounterTypes, CountersTypeOK
  <2>2. \A q \in Uses : settledOn[q] # day + 1
    BY <1>1, <2>1
  <2>3. QED
    BY <1>1, <2>2 DEF Settled, SettledOn, Uses
<1>5. memory.day # day' /\ \A m : KnownToday(checkpoint, m)' = 0
  <2>1. \A c \in {memory, checkpoint} : c.day \in 0 .. day
    BY KnownIsNatural
  <2>2. memory.day # day' /\ checkpoint.day # day'
    BY <1>1, <2>1
  <2>3. QED
    BY <1>1, <2>2 DEF KnownToday
<1>6. PollsAreOrdered'
  BY <1>1, <1>3 DEF PollsAreOrdered
<1>7. TotalsAreRead'
  BY <1>1, <1>3 DEF TotalsAreRead
<1>8. UsageAddsUp'
  <2>1. SUFFICES ASSUME Watched, NEW m \in Models
        PROVE  /\ Fits(metered[m], Tally(counted, m))
               /\ Fits(metered[m] + deltas[m], Tally(Under, m))
               /\ IF counterPc = "save" THEN Fits(metered[m], 0 + Tally(counted \ {}, m))
                  ELSE Fits(metered[m] + deltas[m], 0 + Tally(Under \ {}, m))
    BY <1>1, <1>3, <1>4, <1>5 DEF UsageAddsUp, Fits, Watched
  <2>2. Fits(metered[m], Tally(counted, m)) /\ Fits(metered[m] + deltas[m], Tally(Under, m))
    BY <2>1 DEF UsageAddsUp, Watched
  <2>3. counted \ {} = counted /\ Under \ {} = Under
    OBVIOUS
  <2>4. 0 + Tally(counted, m) = Tally(counted, m) /\ 0 + Tally(Under, m) = Tally(Under, m)
    <3>1. Tally(counted, m) \in Nat /\ Tally(Under, m) \in Nat
      BY CountedAreUses, TallyIsNatural
    <3>2. \A n \in Nat : 0 + n = n
      OBVIOUS
    <3>3. QED
      BY <3>1, <3>2
  <2>5. QED
    BY <2>2, <2>3, <2>4
<1>9. WholeIsTheSum'
  BY <1>1, <1>3 DEF WholeIsTheSum
<1>10. QED
  BY <1>2, <1>6, <1>7, <1>8, <1>9

\* So does a stutter.
LEMMA StutterKeepsInv ==
  ASSUME CounterInv, UNCHANGED counterVars
  PROVE  CounterInv'
<1>1. UNCHANGED <<collector, day, settledOn, readable, memory, checkpoint, counterPc, deltas,
                  reported, window, metered, reading, counted, baselined, counterCause, counterFaults>>
  BY DEF counterVars
<1>2. Totals' = Totals /\ Uses' = Uses /\ Scopes' = Scopes /\ Models' = Models /\ Under' = Under /\ Settled' = Settled
      /\ NoDeltas' = NoDeltas /\ \A d : SettledOn(d)' = SettledOn(d)
  BY <1>1 DEF Totals, Uses, Scopes, Models, Under, Settled, SettledOn, NoDeltas
<1>3. CounterTypes'
  BY <1>1, <1>2 DEF CounterInv, CounterTypes, CountersTypeOK
<1>4. PollsAreOrdered' /\ TotalsAreRead' /\ WholeIsTheSum'
  BY <1>1, <1>2 DEF CounterInv, PollsAreOrdered, TotalsAreRead, WholeIsTheSum
<1>5. UsageAddsUp'
  BY <1>1, <1>2 DEF CounterInv, UsageAddsUp, KnownToday, Fits
<1>6. QED
  BY <1>3, <1>4, <1>5 DEF CounterInv

\* The parts hold together through every step of the three collectors.
THEOREM CountersInvariance == CountersSpec => []CounterInv
<1>1. CounterInv /\ [CountersNext]_counterVars => CounterInv'
  <2> SUFFICES ASSUME CounterInv, [CountersNext]_counterVars PROVE CounterInv'
    OBVIOUS
  <2>1. CASE PollOpenCode
    BY <2>1, PollOpenCodeKeepsInv
  <2>2. CASE PollAntigravity
    BY <2>2, PollAntigravityKeepsInv
  <2>3. CASE PollInfer
    BY <2>3, PollInferKeepsInv
  <2>4. CASE \E status \in {"available", "error"} : PollWithoutReading(status)
    BY <2>4, PollWithoutReadingKeepsInv
  <2>5. CASE SaveCheckpoint
    BY <2>5, SaveKeepsInv
  <2>6. CASE SaveCheckpointFails
    BY <2>6, SaveFailsKeepsInv
  <2>7. CASE ReportDeltas
    BY <2>7, ReportKeepsInv
  <2>8. CASE ReportCached
    BY <2>8, ReportCachedKeepsInv
  <2>9. CASE RestartCollector
    BY <2>9, RestartKeepsInv
  <2>10. CASE LoseCheckpoint
    BY <2>10, LoseCheckpointKeepsInv
  <2>11. CASE Midnight
    BY <2>11, MidnightKeepsInv
  <2>12. CASE \E r \in Uses : Settle(r)
    BY <2>12, SettleKeepsInv
  <2>13. CASE \E r \in Uses : DeleteConversation(r)
    BY <2>13, DeleteKeepsInv
  <2>14. CASE UNCHANGED counterVars
    BY <2>14, StutterKeepsInv
  <2>15. QED
    BY <2>1, <2>2, <2>3, <2>4, <2>5, <2>6, <2>7, <2>8, <2>9, <2>10, <2>11, <2>12, <2>13, <2>14 DEF CountersNext
<1>2. QED
  BY InitCounterInv, <1>1, PTL DEF CountersSpec

\* The invariant implies the property that the run checks.
LEMMA CounterInvExact == CounterInv => CountersAreExact
<1> SUFFICES ASSUME CounterInv PROVE CountersAreExact
  OBVIOUS
<1> USE DEF CounterInv
<1>1. ASSUME counterCause \cap {"lost", "shrunk"} = {}, NEW m \in Models
      PROVE  Fits(metered[m], TokensOf(OfModel(counted, m)))
  BY <1>1 DEF UsageAddsUp, Tally
<1>2. ASSUME counterPc = "idle", counterCause = {}, NEW m \in Models
      PROVE  metered[m] = TokensOf(OfModel(counted, m))
  BY <1>1, <1>2 DEF Fits
<1>3. QED
  BY <1>1, <1>2 DEF CountersAreExact, Fits, WholeIsTheSum

\* The increments add up to the usage read, per model, for every set of requests and models:
\* nothing twice, nothing missing, but for the causes noted; and the whole is the sum of the
\* models (opencode.py:649, antigravity.py:627, infer_runtime.py:406).
THEOREM CountersStayExact == CountersSpec => []CountersAreExact
  BY CountersInvariance, CounterInvExact, PTL

\* Days, totals, increments and the registry's window keep their types.
THEOREM CountersKeepTypes == CountersSpec => []CountersTypeOK
<1>1. CounterInv => CountersTypeOK
  BY DEF CounterInv, CounterTypes
<1>2. QED
  BY <1>1, CountersInvariance, PTL

-------------------------------------------------------------------------------
(* Codex telemetry: streams of events, and the samples made of them. *)

EventKeys == {Key(e) : e \in Events}
EventModels == {e.model : e \in Events}
StreamRecord == [key : EventKeys, epoch : Nat, pending : Events \cup {NoEvent}, ambiguous : BOOLEAN]
TimedSample == [start : Events, end : Events]
Made == UNION {[d -> TimedSample] : d \in SUBSET EventModels}
Origin == UNION {[d -> EventKeys] : d \in SUBSET EventModels}

OneStreamPerKey(q) == \A i, j \in DOMAIN q : q[i].key = q[j].key => i = j

ReceiverShape == [streams : Seq(StreamRecord), seen : Seq(Events), samples : Made, origins : Origin,
                  dirty : BOOLEAN, lost : BOOLEAN]
WithinBounds(st) ==
    /\ OneStreamPerKey(st.streams) /\ Len(st.streams) <= MaxStreams /\ Len(st.seen) <= MaxSeen
    /\ DOMAIN st.origins \subseteq DOMAIN st.samples
Receiver == {st \in ReceiverShape : WithinBounds(st)}

\* A stream stands at its last event, and holds a send with nothing after it; the events of
\* one that is gone are too old to be admitted again.  Of the other sends of a stream that is
\* gone or not ambiguous each was followed by an end.
StreamsFollow(flows, known) ==
    /\ \A e \in known, s \in flows : s.key = Key(e) => e.epoch <= s.epoch
    /\ \A e \in known : (\A s \in flows : s.key # Key(e)) => e.epoch + EventWindow < clock
    /\ \A s \in flows : s.pending # NoEvent =>
           /\ s.pending \in known /\ s.pending.kind = "start"
           /\ Key(s.pending) = s.key /\ s.pending.epoch = s.epoch
    /\ \A s \in flows, a \in known :
           ~s.ambiguous /\ s.key = Key(a) /\ a.kind = "start" /\ a # s.pending =>
               EndedBetween(a, s.epoch, known)
    /\ \A a \in known :
           a.kind = "start" /\ (\A s \in flows : s.key # Key(a)) =>
               \E c \in known : Key(c) = Key(a) /\ c.kind # "start" /\ a.epoch <= c.epoch

\* Between the two events of a sample none of its stream is known, and every other send that
\* came before its own was followed by an end before that.
IsTimed(m, s, key, known) ==
    /\ s.start \in known /\ s.end \in known
    /\ s.start.kind = "start" /\ s.end.kind = "complete" /\ s.end.model = m
    /\ Key(s.start) = key /\ Key(s.end) = key /\ s.start.epoch <= s.end.epoch
    /\ \A e \in known : Key(e) = key => ~(s.start.epoch < e.epoch /\ e.epoch < s.end.epoch)
    /\ \A a \in known :
           Key(a) = key /\ a.kind = "start" /\ a # s.start /\ a.epoch <= s.start.epoch =>
               EndedBetween(a, s.start.epoch, known)

SamplesAreTimed(made, from, known) ==
    /\ DOMAIN from = DOMAIN made
    /\ \A m \in DOMAIN made : IsTimed(m, made[m], from[m], known)

Correlated(st, known) ==
    /\ StreamsFollow(ToSet(st.streams), known)
    /\ SamplesAreTimed(st.samples, st.origins, known)

Now == [streams |-> streams, seen |-> seenEvents, samples |-> samples, origins |-> origins,
        dirty |-> dirty, lost |-> FALSE]

TelemetryInv ==
    /\ clock \in 0 .. LastTick /\ deliveries \in [Batches -> 0 .. MaxDeliveries]
    /\ admitted \subseteq Events /\ forgotten \in BOOLEAN
    /\ Now \in Receiver /\ ToSet(seenEvents) \subseteq admitted
    /\ IsFiniteSet(DOMAIN samples) /\ Cardinality(DOMAIN samples) <= MaxModels
    /\ samplesFile \in Made
    /\ IsFiniteSet(DOMAIN samplesFile) /\ Cardinality(DOMAIN samplesFile) <= MaxModels
    /\ ~forgotten => Correlated(Now, admitted)

\* What the assumption says of an event.
LEMMA EventsAreTyped ==
  /\ IsFiniteSet(Events) /\ EventWindow \in Nat /\ LastTick \in Nat /\ MaxDeliveries \in Nat
  /\ MaxStreams \in Nat \ {0} /\ MaxSeen \in Nat \ {0} /\ MaxModels \in Nat \ {0}
  /\ NoEvent \notin Events
  /\ \A e \in Events :
       /\ e.kind \in {"start", "failed", "complete"} /\ e.epoch \in Nat /\ e.tokens \in Nat
       /\ Key(e) \in EventKeys /\ e.model \in EventModels
<1>1. NoEvent.kind = "none"
  BY DEF NoEvent
<1>2. QED
  BY <1>1, TelemetryAssumption DEF EventKeys, EventModels

\* The first of the elements that satisfy a test, if any does.
LEMMA FirstPosition ==
  ASSUME NEW n \in Nat, NEW I \in SUBSET (1 .. n), I # {}
  PROVE  Min(I) \in I
<1>1. I \in SUBSET Nat
  OBVIOUS
<1>2. PICK x \in I : \A y \in I : x <= y
  BY <1>1, LeastElement
<1>3. QED
  BY <1>2 DEF Min

\* What is left when one element is removed.
LEMMA Removed ==
  ASSUME NEW X, NEW q \in Seq(X), NEW i \in 1 .. Len(q)
  PROVE  /\ RemoveAt(q, i) \in Seq(X) /\ Len(RemoveAt(q, i)) = Len(q) - 1
         /\ \A j \in 1 .. Len(q) - 1 : RemoveAt(q, i)[j] = IF j < i THEN q[j] ELSE q[j + 1]
<1> DEFINE a == SubSeq(q, 1, i - 1)
           b == SubSeq(q, i + 1, Len(q))
<1>1. Len(q) \in Nat /\ i \in Nat
  OBVIOUS
<1>2. /\ a \in Seq(X) /\ Len(a) = i - 1 /\ \A j \in 1 .. i - 1 : a[j] = q[j]
  BY <1>1
<1>3. /\ b \in Seq(X) /\ Len(b) = Len(q) - i /\ \A j \in 1 .. Len(q) - i : b[j] = q[i + j]
  BY <1>1
<1>4. RemoveAt(q, i) = a \o b
  BY DEF RemoveAt
<1> HIDE DEF a, b
<1>5. a \o b \in Seq(X) /\ Len(a \o b) = Len(q) - 1
  <2>1. a \in Seq(X) /\ b \in Seq(X)
    BY <1>2, <1>3
  <2>2. a \o b \in Seq(X) /\ Len(a \o b) = Len(a) + Len(b)
    BY <2>1
  <2>3. Len(a) + Len(b) = Len(q) - 1
    BY <1>1, <1>2, <1>3
  <2>4. QED
    BY <2>2, <2>3
<1>6. ASSUME NEW j \in 1 .. Len(q) - 1
      PROVE  (a \o b)[j] = IF j < i THEN q[j] ELSE q[j + 1]
  <2>1. CASE j < i
    BY <1>1, <1>2, <1>3, <2>1
  <2>2. CASE ~(j < i)
    <3>1. j - (i - 1) \in 1 .. Len(q) - i /\ i + (j - (i - 1)) = j + 1
      BY <1>1, <2>2
    <3>2. (a \o b)[j] = b[j - (i - 1)]
      BY <1>1, <1>2, <1>3, <2>2
    <3>3. QED
      BY <1>3, <2>2, <3>1, <3>2
  <2>3. QED
    BY <2>1, <2>2
<1>7. QED
  BY <1>4, <1>5, <1>6

\* The stream of a key is the only one there is, or a new one.
LEMMA StreamOfKey ==
  ASSUME NEW st \in Receiver, NEW key \in EventKeys
  PROVE  LET s == StreamOf(st, key)
         IN  /\ s \in StreamRecord /\ s.key = key
             /\ \/ s \in ToSet(st.streams)
                \/ /\ s.epoch = 0 /\ s.pending = NoEvent /\ ~s.ambiguous
                   /\ \A x \in ToSet(st.streams) : x.key # key
             /\ \A x \in ToSet(st.streams) : x.key = key => x = s
<1> DEFINE q == st.streams
           I == {i \in 1 .. Len(q) : q[i].key = key}
           i == SelectInSeq(q, LAMBDA s : s.key = key)
           new == [key |-> key, epoch |-> 0, pending |-> NoEvent, ambiguous |-> FALSE]
<1>1. /\ q \in Seq(StreamRecord) /\ Len(q) \in Nat /\ DOMAIN q = 1 .. Len(q)
      /\ OneStreamPerKey(q) /\ \A j \in DOMAIN q : q[j] \in StreamRecord
      /\ ToSet(q) = {q[j] : j \in 1 .. Len(q)}
  BY DEF Receiver, ReceiverShape, WithinBounds, ToSet
<1>2. i = IF I # {} THEN Min(I) ELSE 0
  BY DEF SelectInSeq
<1>3. StreamOf(st, key) = IF i = 0 THEN new ELSE q[i]
  BY DEF StreamOf
<1> HIDE DEF q, i
<1>4. CASE I = {}
  <2>1. StreamOf(st, key) = new /\ new \in StreamRecord
    BY <1>2, <1>3, <1>4 DEF StreamRecord
  <2>2. \A x \in ToSet(q) : x.key # key
    BY <1>1, <1>4
  <2>3. QED
    BY <2>1, <2>2 DEF q
<1>5. CASE I # {}
  <2>1. i \in I
    BY <1>1, <1>2, <1>5, FirstPosition
  <2>2. StreamOf(st, key) = q[i] /\ q[i] \in StreamRecord /\ q[i].key = key /\ i \in DOMAIN q
    BY <1>1, <1>3, <2>1
  <2>3. q[i] \in ToSet(q)
    BY <1>1, <2>2
  <2>4. ASSUME NEW x \in ToSet(q), x.key = key PROVE x = q[i]
    <3>1. PICK j \in 1 .. Len(q) : x = q[j]
      BY <1>1
    <3>2. j = i
      BY <1>1, <2>2, <2>4, <3>1 DEF OneStreamPerKey
    <3>3. QED
      BY <3>1, <3>2
  <2>5. QED
    BY <2>2, <2>3, <2>4 DEF q
<1>6. QED
  BY <1>4, <1>5

\* Without the stream of a key the others are left, in their order.
LEMMA OthersAreLeft ==
  ASSUME NEW st \in Receiver, NEW key
  PROVE  LET r == Others(st, key)
         IN  /\ r \in Seq(StreamRecord) /\ OneStreamPerKey(r) /\ Len(r) <= Len(st.streams)
             /\ ToSet(r) = {s \in ToSet(st.streams) : s.key # key}
<1> DEFINE q == st.streams
           r == Others(st, key)
           I == {i \in 1 .. Len(q) : q[i].key = key}
           i == SelectInSeq(q, LAMBDA s : s.key = key)
<1>1. /\ q \in Seq(StreamRecord) /\ Len(q) \in Nat /\ DOMAIN q = 1 .. Len(q)
      /\ OneStreamPerKey(q)
      /\ ToSet(q) = {q[j] : j \in 1 .. Len(q)}
  BY DEF Receiver, ReceiverShape, WithinBounds, ToSet
<1>2. i = IF I # {} THEN Min(I) ELSE 0
  BY DEF SelectInSeq
<1>3. r = IF I # {} THEN RemoveAt(q, i) ELSE q
  BY DEF Others, RemoveFirstMatch
<1> HIDE DEF q, r, i
<1>4. CASE I = {}
  <2>1. r = q /\ \A s \in ToSet(q) : s.key # key
    BY <1>1, <1>3, <1>4
  <2>2. QED
    BY <1>1, <2>1 DEF q, r
<1>5. CASE I # {}
  <2>1. i \in 1 .. Len(q) /\ q[i].key = key
    BY <1>1, <1>2, <1>5, FirstPosition
  <2>2. /\ r \in Seq(StreamRecord) /\ Len(r) = Len(q) - 1
        /\ \A j \in 1 .. Len(q) - 1 : r[j] = IF j < i THEN q[j] ELSE q[j + 1]
    BY <1>1, <1>3, <1>5, <2>1, Removed
  <2>3. DOMAIN r = 1 .. Len(q) - 1 /\ ToSet(r) = {r[j] : j \in 1 .. Len(q) - 1}
    BY <1>1, <2>2 DEF ToSet
  <2>4. ASSUME NEW j \in 1 .. Len(q) - 1
        PROVE  \E k \in 1 .. Len(q) : k # i /\ r[j] = q[k] /\ k = IF j < i THEN j ELSE j + 1
    BY <1>1, <2>1, <2>2
  <2>5. OneStreamPerKey(r)
    <3>1. ASSUME NEW j \in 1 .. Len(q) - 1, NEW k \in 1 .. Len(q) - 1, r[j].key = r[k].key PROVE j = k
      <4>1. PICK a \in 1 .. Len(q) : r[j] = q[a] /\ a = IF j < i THEN j ELSE j + 1
        BY <2>4
      <4>2. PICK b \in 1 .. Len(q) : r[k] = q[b] /\ b = IF k < i THEN k ELSE k + 1
        BY <2>4
      <4>3. a = b
        BY <1>1, <3>1, <4>1, <4>2 DEF OneStreamPerKey
      <4>4. QED
        BY <1>1, <2>1, <4>1, <4>2, <4>3
    <3>2. QED
      BY <2>3, <3>1 DEF OneStreamPerKey
  <2>6. ASSUME NEW s \in ToSet(r) PROVE s \in ToSet(q) /\ s.key # key
    <3>1. PICK j \in 1 .. Len(q) - 1 : s = r[j]
      BY <2>3
    <3>2. PICK k \in 1 .. Len(q) : k # i /\ s = q[k]
      BY <2>4, <3>1
    <3>3. q[k].key # key
      BY <1>1, <2>1, <3>2 DEF OneStreamPerKey
    <3>4. QED
      BY <1>1, <3>2, <3>3
  <2>7. ASSUME NEW s \in ToSet(q), s.key # key PROVE s \in ToSet(r)
    <3>1. PICK k \in 1 .. Len(q) : s = q[k]
      BY <1>1
    <3>2. k # i
      BY <2>1, <2>7, <3>1
    <3>3. CASE k < i
      BY <1>1, <2>1, <2>2, <2>3, <3>1, <3>3
    <3>4. CASE k > i
      <4>1. k - 1 \in 1 .. Len(q) - 1 /\ ~(k - 1 < i) /\ (k - 1) + 1 = k
        BY <1>1, <2>1, <3>4
      <4>2. r[k - 1] = q[k]
        BY <2>2, <4>1
      <4>3. QED
        BY <2>3, <3>1, <4>1, <4>2
    <3>5. QED
      BY <1>1, <2>1, <3>2, <3>3, <3>4
  <2>8. QED
    BY <1>1, <2>2, <2>5, <2>6, <2>7 DEF q, r
<1>6. QED
  BY <1>4, <1>5

\* A stream of another key goes to the end.
LEMMA OneMoreStream ==
  ASSUME NEW q \in Seq(StreamRecord), OneStreamPerKey(q), NEW s \in StreamRecord,
         \A i \in 1 .. Len(q) : q[i].key # s.key
  PROVE  LET all == Append(q, s)
         IN  /\ all \in Seq(StreamRecord) /\ OneStreamPerKey(all)
             /\ Len(all) = Len(q) + 1 /\ ToSet(all) = ToSet(q) \cup {s}
<1> DEFINE all == Append(q, s)
<1>1. /\ all \in Seq(StreamRecord) /\ Len(all) = Len(q) + 1 /\ Len(q) \in Nat
      /\ \A i \in 1 .. Len(q) : all[i] = q[i]
      /\ all[Len(q) + 1] = s /\ DOMAIN all = 1 .. Len(q) + 1 /\ DOMAIN q = 1 .. Len(q)
  OBVIOUS
<1> HIDE DEF all
<1>2. \A i \in 1 .. Len(q) + 1 : i \in 1 .. Len(q) \/ i = Len(q) + 1
  BY <1>1
<1>3. OneStreamPerKey(all)
  <2>1. \A i, j \in 1 .. Len(q) : q[i].key = q[j].key => i = j
    BY <1>1 DEF OneStreamPerKey
  <2>2. QED
    BY <1>1, <1>2, <2>1 DEF OneStreamPerKey
<1>4. ToSet(all) = ToSet(q) \cup {s}
  <2>1. (1 .. Len(q)) \subseteq (1 .. Len(q) + 1) /\ Len(q) + 1 \in 1 .. Len(q) + 1
    BY <1>1
  <2>2. \A x \in ToSet(all) : x \in ToSet(q) \cup {s}
    BY <1>1, <1>2 DEF ToSet
  <2>3. \A x \in ToSet(q) \cup {s} : x \in ToSet(all)
    BY <1>1, <2>1 DEF ToSet
  <2>4. QED
    BY <2>2, <2>3
<1>5. QED
  BY <1>1, <1>3, <1>4 DEF all

\* A kept stream replaces the one of its key; the oldest goes if there are too many.
LEMMA StreamIsKept ==
  ASSUME NEW st \in Receiver, NEW s \in StreamRecord
  PROVE  LET new == KeepStream(st, s)
         IN  /\ new \in Receiver /\ (st.lost => new.lost)
             /\ new.seen = st.seen /\ new.samples = st.samples /\ new.origins = st.origins
             /\ ~new.lost =>
                  ToSet(new.streams) = {x \in ToSet(st.streams) : x.key # s.key} \cup {s}
<1> DEFINE q == Others(st, s.key)
           all == Append(q, s)
           cut == Len(all) > MaxStreams
           kept == IF cut THEN Tail(all) ELSE all
           new == KeepStream(st, s)
<1>1. /\ st \in ReceiverShape /\ OneStreamPerKey(st.streams) /\ Len(st.streams) <= MaxStreams
      /\ Len(st.seen) <= MaxSeen /\ DOMAIN st.origins \subseteq DOMAIN st.samples
      /\ Len(st.streams) \in Nat
  BY DEF Receiver, ReceiverShape, WithinBounds
<1>2. /\ q \in Seq(StreamRecord) /\ OneStreamPerKey(q) /\ Len(q) <= Len(st.streams)
      /\ ToSet(q) = {x \in ToSet(st.streams) : x.key # s.key}
  BY OthersAreLeft
<1>3. new = [st EXCEPT !.streams = kept, !.lost = @ \/ cut]
  BY DEF KeepStream
<1> HIDE DEF q, new
<1>4. \A i \in 1 .. Len(q) : q[i].key # s.key
  <2>1. \A i \in 1 .. Len(q) : q[i] \in ToSet(q)
    BY <1>2 DEF ToSet
  <2>2. QED
    BY <1>2, <2>1
<1>5. all \in Seq(StreamRecord) /\ OneStreamPerKey(all) /\ Len(all) = Len(q) + 1 /\ Len(q) \in Nat
  BY <1>2, <1>4, OneMoreStream
<1>6. ToSet(all) = ToSet(q) \cup {s}
  BY <1>2, <1>4, OneMoreStream
<1>7. kept \in Seq(StreamRecord) /\ OneStreamPerKey(kept) /\ Len(kept) <= MaxStreams
  <2>1. CASE ~cut
    BY <1>5, <2>1, EventsAreTyped
  <2>2. CASE cut
    <3>1. all # <<>>
      BY <1>5
    <3>2. /\ Tail(all) \in Seq(StreamRecord) /\ Len(Tail(all)) = Len(q)
          /\ \A i \in 1 .. Len(q) : Tail(all)[i] = all[i + 1]
      BY <1>5, <3>1
    <3>3. OneStreamPerKey(Tail(all))
      <4>1. \A i, j \in 1 .. Len(q) + 1 : all[i].key = all[j].key => i = j
        BY <1>5 DEF OneStreamPerKey
      <4>2. DOMAIN Tail(all) = 1 .. Len(q)
        BY <1>5, <3>2
      <4> HIDE DEF all
      <4>3. ASSUME NEW i \in 1 .. Len(q), NEW j \in 1 .. Len(q), Tail(all)[i].key = Tail(all)[j].key
            PROVE  i = j
        <5>1. i + 1 \in 1 .. Len(q) + 1 /\ j + 1 \in 1 .. Len(q) + 1
          BY <1>5
        <5>2. i + 1 = j + 1
          BY <3>2, <4>1, <4>3, <5>1
        <5>3. QED
          BY <1>5, <5>2
      <4>4. QED
        BY <4>2, <4>3 DEF OneStreamPerKey
    <3>4. kept = Tail(all)
      BY <2>2
    <3> HIDE DEF all, kept
    <3>5. Len(q) <= MaxStreams
      BY <1>1, <1>2, <1>5, EventsAreTyped
    <3>6. QED
      BY <3>2, <3>3, <3>4, <3>5
  <2>3. QED
    BY <2>1, <2>2
<1> HIDE DEF all
<1>8. cut \in BOOLEAN
  OBVIOUS
<1> HIDE DEF cut
<1>9. /\ new \in ReceiverShape /\ new.streams = kept /\ new.lost = (st.lost \/ cut)
      /\ new.seen = st.seen /\ new.samples = st.samples /\ new.origins = st.origins
  BY <1>1, <1>3, <1>7, <1>8 DEF ReceiverShape
<1>10. new \in Receiver
  BY <1>1, <1>7, <1>9 DEF Receiver, WithinBounds
<1>11. ~new.lost => ToSet(new.streams) = {x \in ToSet(st.streams) : x.key # s.key} \cup {s}
  BY <1>2, <1>6, <1>9
<1>12. QED
  BY <1>1, <1>9, <1>10, <1>11 DEF new, ReceiverShape

Spoiled(x) == [x EXCEPT !.pending = NoEvent, !.ambiguous = TRUE]

\* What a late event of a stream leaves of the streams and the samples.
SpoiledBy(st, e, new) ==
    LET withdrawn == e.model \in DOMAIN st.origins /\ st.origins[e.model] = Key(e)
        left(d) == IF withdrawn THEN d \ {e.model} ELSE d
    IN  /\ ToSet(new.streams) = {IF x.key = Key(e) THEN Spoiled(x) ELSE x : x \in ToSet(st.streams)}
        /\ new.samples = [m \in left(DOMAIN st.samples) |-> st.samples[m]]
        /\ new.origins = [m \in left(DOMAIN st.origins) |-> st.origins[m]]

\* A late event spoils its stream, and withdraws the sample that came of it.
LEMMA StreamIsSpoiled ==
  ASSUME NEW st \in Receiver, NEW e \in Events, NEW s \in StreamRecord, s.key = Key(e)
  PROVE  /\ Late(st, e, s) \in Receiver /\ Late(st, e, s).lost = st.lost /\ Late(st, e, s).seen = st.seen
         /\ SpoiledBy(st, e, Late(st, e, s))
<1> DEFINE new == Late(st, e, s)
           q == st.streams
           r == [i \in DOMAIN q |-> IF q[i].key = s.key THEN Spoiled(q[i]) ELSE q[i]]
           withdrawn == e.model \in DOMAIN st.origins /\ st.origins[e.model] = Key(e)
           samplesLeft == [m \in DOMAIN st.samples \ {e.model} |-> st.samples[m]]
           originsLeft == [m \in DOMAIN st.origins \ {e.model} |-> st.origins[m]]
<1>1. /\ st \in ReceiverShape /\ OneStreamPerKey(q) /\ Len(q) <= MaxStreams
      /\ Len(st.seen) <= MaxSeen /\ DOMAIN st.origins \subseteq DOMAIN st.samples
      /\ q \in Seq(StreamRecord) /\ Len(q) \in Nat /\ DOMAIN q = 1 .. Len(q)
      /\ st.samples \in Made /\ st.origins \in Origin
  BY DEF Receiver, ReceiverShape, WithinBounds
<1>2. \A i \in DOMAIN q : q[i] \in StreamRecord
  BY <1>1
<1>3. \A x \in StreamRecord : Spoiled(x) \in StreamRecord /\ Spoiled(x).key = x.key
  BY DEF Spoiled, StreamRecord
<1>4. /\ r \in Seq(StreamRecord) /\ Len(r) = Len(q) /\ DOMAIN r = DOMAIN q
      /\ \A i \in DOMAIN q : r[i].key = q[i].key
  <2>1. r \in [1 .. Len(q) -> StreamRecord]
    BY <1>1, <1>2, <1>3
  <2>2. r \in Seq(StreamRecord) /\ Len(r) = Len(q)
    BY <1>1, <2>1
  <2>3. QED
    BY <1>2, <1>3, <2>2
<1>5. OneStreamPerKey(r)
  <2>1. SUFFICES ASSUME NEW i \in DOMAIN r, NEW j \in DOMAIN r, i # j
                 PROVE  r[i].key # r[j].key
    BY DEF OneStreamPerKey
  <2>2. i \in DOMAIN q /\ j \in DOMAIN q /\ r[i].key = q[i].key /\ r[j].key = q[j].key
    BY <1>4
  <2>3. q[i].key # q[j].key
    BY <1>1, <2>1, <2>2 DEF OneStreamPerKey
  <2>4. QED
    BY <2>2, <2>3
<1>6. ToSet(r) = {IF x.key = Key(e) THEN Spoiled(x) ELSE x : x \in ToSet(q)}
  BY DEF ToSet
<1>7. samplesLeft \in Made /\ originsLeft \in Origin
  <2>1. PICK d \in SUBSET EventModels : st.samples \in [d -> TimedSample]
    BY <1>1 DEF Made
  <2>2. PICK c \in SUBSET EventModels : st.origins \in [c -> EventKeys]
    BY <1>1 DEF Origin
  <2>3. samplesLeft \in [d \ {e.model} -> TimedSample] /\ originsLeft \in [c \ {e.model} -> EventKeys]
    BY <2>1, <2>2
  <2>4. QED
    BY <2>3 DEF Made, Origin
<1>8. new = IF withdrawn
            THEN [[st EXCEPT !.streams = r] EXCEPT !.samples = samplesLeft, !.origins = originsLeft,
                                                   !.dirty = TRUE]
            ELSE [st EXCEPT !.streams = r]
  BY <1>1 DEF Late, Without, Spoiled, ReceiverShape
<1>9. DOMAIN samplesLeft = DOMAIN st.samples \ {e.model} /\ DOMAIN originsLeft = DOMAIN st.origins \ {e.model}
  OBVIOUS
<1>10. /\ st.samples = [m \in DOMAIN st.samples |-> st.samples[m]]
       /\ st.origins = [m \in DOMAIN st.origins |-> st.origins[m]]
  BY <1>1 DEF Made, Origin
<1> HIDE DEF new, r, samplesLeft, originsLeft
<1>11. /\ new \in ReceiverShape /\ new.streams = r /\ new.lost = st.lost /\ new.seen = st.seen
       /\ withdrawn => new.samples = samplesLeft /\ new.origins = originsLeft
       /\ ~withdrawn => new.samples = st.samples /\ new.origins = st.origins
  <2>1. CASE withdrawn
    BY <1>1, <1>4, <1>7, <1>8, <2>1 DEF ReceiverShape
  <2>2. CASE ~withdrawn
    BY <1>1, <1>4, <1>7, <1>8, <2>2 DEF ReceiverShape
  <2>3. QED
    BY <2>1, <2>2
<1>12. new \in Receiver
  BY <1>1, <1>4, <1>5, <1>9, <1>11 DEF Receiver, WithinBounds
<1>13. SpoiledBy(st, e, new)
  BY <1>6, <1>10, <1>11 DEF SpoiledBy, samplesLeft, originsLeft
<1>14. QED
  BY <1>11, <1>12, <1>13 DEF new

\* A completion makes a sample or leaves everything as it was.
LEMMA SampleIsMade ==
  ASSUME NEW st \in Receiver, NEW e \in Events, NEW s \in StreamRecord, s.key = Key(e)
  PROVE  LET new == Complete(st, e, s)
             made == [start |-> s.pending, end |-> e]
         IN  /\ new \in Receiver /\ new.lost = st.lost /\ new.seen = st.seen
             /\ new.streams = st.streams
             /\ \/ new.samples = st.samples /\ new.origins = st.origins
                \/ /\ s.pending # NoEvent /\ ~s.ambiguous
                   /\ new.samples = With(st.samples, e.model, made)
                   /\ new.origins = With(st.origins, e.model, Key(e))
<1> DEFINE new == Complete(st, e, s)
           made == [start |-> s.pending, end |-> e]
           a == With(st.samples, e.model, made)
           o == With(st.origins, e.model, Key(e))
           pairs == /\ s.pending # NoEvent /\ ~s.ambiguous /\ e.tokens > 0
                    /\ (e.model \notin DOMAIN st.samples \/ e.epoch > st.samples[e.model].end.epoch)
<1>1. /\ st \in ReceiverShape /\ DOMAIN st.origins \subseteq DOMAIN st.samples
      /\ st.samples \in Made /\ st.origins \in Origin
  BY DEF Receiver, ReceiverShape, WithinBounds
<1>2. CASE ~pairs
  <2>1. new = st
    BY <1>2 DEF Complete
  <2>2. QED
    BY <2>1
<1>3. CASE pairs
  <2>1. made \in TimedSample /\ e.model \in EventModels /\ Key(e) \in EventKeys
    BY <1>3, EventsAreTyped DEF TimedSample, StreamRecord
  <2>2. PICK d \in SUBSET EventModels : st.samples \in [d -> TimedSample]
    BY <1>1 DEF Made
  <2>3. PICK c \in SUBSET EventModels : st.origins \in [c -> EventKeys]
    BY <1>1 DEF Origin
  <2>4. a \in [d \cup {e.model} -> TimedSample] /\ o \in [c \cup {e.model} -> EventKeys]
    BY <2>1, <2>2, <2>3 DEF With
  <2>5. a \in Made /\ o \in Origin /\ DOMAIN o \subseteq DOMAIN a
    <3>1. a \in Made
      BY <2>1, <2>2, <2>4 DEF Made
    <3>2. o \in Origin
      BY <2>1, <2>3, <2>4 DEF Origin
    <3>3. QED
      BY <1>1, <2>2, <2>3, <2>4, <3>1, <3>2
  <2>6. new = [st EXCEPT !.samples = a, !.origins = o, !.dirty = TRUE]
    BY <1>3 DEF Complete
  <2> HIDE DEF new, a, o
  <2>7. /\ new \in ReceiverShape /\ new.streams = st.streams /\ new.seen = st.seen
        /\ new.lost = st.lost /\ new.samples = a /\ new.origins = o
    BY <1>1, <2>5, <2>6 DEF ReceiverShape
  <2>8. new \in Receiver
    BY <2>5, <2>7 DEF Receiver, WithinBounds
  <2>9. QED
    BY <1>3, <2>7, <2>8 DEF new, a, o
<1>4. QED
  BY <1>2, <1>3

\* Streams untouched for an hour are left out; the others stay in their order.
LEMMA LiveIs ==
  ASSUME streams \in Seq(StreamRecord), OneStreamPerKey(streams), clock \in Nat
  PROVE  /\ Live \in Seq(StreamRecord) /\ OneStreamPerKey(Live) /\ Len(Live) <= Len(streams)
         /\ ToSet(Live) = {s \in ToSet(streams) : s.epoch + EventWindow >= clock}
<1> DEFINE D == DOMAIN streams
           n == Len(streams)
           T == Seq(StreamRecord)
           More(kept, s) == IF s.epoch + EventWindow >= clock THEN Append(kept, s) ELSE kept
           step == [x \in T \X StreamRecord |-> More(x[1], x[2])]
           Folds(g) == g = [s \in SUBSET D |-> IF s = {} THEN <<>>
                                               ELSE More(g[s \ {Max(s)}], streams[Max(s)])]
           h == CHOOSE g : Folds(g)
<1>1. Live = h[D]
  BY DEF Live, FoldLeft, MapThenFoldSet
<1>2. /\ n \in Nat /\ D = 1 .. n /\ \A i \in D : streams[i] \in StreamRecord
      /\ ToSet(streams) = {streams[i] : i \in 1 .. n}
  BY DEF ToSet
<1>3. \A kept \in T, s \in StreamRecord : More(kept, s) \in T
  OBVIOUS
<1>4. step \in [T \X StreamRecord -> T] /\ <<>> \in T
      /\ \A kept \in T, s \in StreamRecord : step[<<kept, s>>] = More(kept, s)
  <2>1. step \in [T \X StreamRecord -> T]
    BY <1>3
  <2>2. ASSUME NEW kept \in T, NEW s \in StreamRecord PROVE step[<<kept, s>>] = More(kept, s)
    BY <2>1
  <2>3. QED
    BY <2>1, <2>2
<1> HIDE DEF step, More, T
<1>5. Folds(h)
  <2>1. PICK g : FoldsAll(step, <<>>, streams, T, g)
    BY <1>4, FoldExists
  <2>2. ASSUME NEW s \in SUBSET D, s # {} PROVE g[s] = More(g[s \ {Max(s)}], streams[Max(s)])
    <3>1. Max(s) \in s
      BY <1>2, <2>2, LastPosition
    <3>2. g[s \ {Max(s)}] \in T /\ streams[Max(s)] \in StreamRecord
      BY <1>2, <2>1, <3>1 DEF FoldsAll
    <3>3. QED
      BY <1>4, <2>1, <2>2, <3>2 DEF FoldsAll
  <2>3. Folds(g)
    BY <2>1, <2>2 DEF FoldsAll
  <2>4. QED
    BY <2>3
<1> HIDE DEF h
<1>6. h[{}] = <<>> /\ \A k \in 1 .. n : h[1 .. k] = More(h[1 .. (k - 1)], streams[k])
  <2>1. h[{}] = <<>>
    BY <1>5
  <2>2. ASSUME NEW k \in 1 .. n PROVE h[1 .. k] = More(h[1 .. (k - 1)], streams[k])
    <3> DEFINE s == 1 .. k
    <3>1. s \in SUBSET D /\ s # {} /\ Max(s) = k /\ s \ {k} = 1 .. (k - 1)
      BY <1>2, PrefixEnds
    <3> HIDE DEF s
    <3>2. h[s] = More(h[s \ {Max(s)}], streams[Max(s)])
      BY <1>5, <3>1
    <3>3. QED
      BY <3>1, <3>2 DEF s
  <2>3. QED
    BY <2>1, <2>2
<1> DEFINE Fresh(k) == {s \in {streams[i] : i \in 1 .. k} : s.epoch + EventWindow >= clock}
           Good(k) == /\ h[1 .. k] \in T /\ OneStreamPerKey(h[1 .. k]) /\ Len(h[1 .. k]) <= k
                      /\ ToSet(h[1 .. k]) = Fresh(k)
           G == {k \in 0 .. n : Good(k)}
<1>7. 0 \in G
  <2>1. 1 .. 0 = {} /\ h[1 .. 0] = <<>>
    BY <1>6
  <2>2. Len(<<>>) = 0 /\ DOMAIN <<>> = {}
    OBVIOUS
  <2>3. OneStreamPerKey(<<>>) /\ ToSet(<<>>) = {} /\ Fresh(0) = {}
    BY <2>1, <2>2 DEF OneStreamPerKey, ToSet
  <2>4. QED
    BY <1>2, <1>4, <2>1, <2>2, <2>3
<1>8. ASSUME NEW k \in 1 .. n, k - 1 \in G PROVE k \in G
  <2> DEFINE kept == h[1 .. (k - 1)]
             s == streams[k]
  <2>1. /\ kept \in T /\ OneStreamPerKey(kept) /\ Len(kept) <= k - 1 /\ ToSet(kept) = Fresh(k - 1)
        /\ s \in StreamRecord /\ h[1 .. k] = More(kept, s) /\ k \in Nat
    BY <1>2, <1>6, <1>8
  <2>2. Fresh(k) = Fresh(k - 1) \cup {x \in {s} : x.epoch + EventWindow >= clock}
    <3>1. \A i \in 1 .. k : i \in 1 .. (k - 1) \/ i = k
      OBVIOUS
    <3>2. (1 .. (k - 1)) \subseteq (1 .. k) /\ k \in 1 .. k
      OBVIOUS
    <3>3. QED
      BY <3>1, <3>2
  <2>3. \A x \in Fresh(k - 1) : x.key # s.key
    <3>1. ASSUME NEW x \in Fresh(k - 1), x.key = s.key PROVE FALSE
      <4>1. PICK i \in 1 .. (k - 1) : x = streams[i]
        OBVIOUS
      <4>2. i \in D /\ k \in D /\ i # k
        BY <1>2
      <4>3. QED
        BY <3>1, <4>1, <4>2 DEF OneStreamPerKey
    <3>2. QED
      BY <3>1
  <2> HIDE DEF kept, s, Fresh, h
  <2>4. CASE ~(s.epoch + EventWindow >= clock)
    <3>1. h[1 .. k] = kept
      BY <2>1, <2>4 DEF More
    <3>2. Fresh(k) = Fresh(k - 1)
      BY <2>2, <2>4
    <3>3. Len(kept) <= k
      BY <2>1 DEF T
    <3>4. QED
      BY <2>1, <3>1, <3>2, <3>3
  <2>5. CASE s.epoch + EventWindow >= clock
    <3>1. h[1 .. k] = Append(kept, s)
      BY <2>1, <2>5 DEF More
    <3>2. /\ kept \in Seq(StreamRecord) /\ \A i \in 1 .. Len(kept) : kept[i].key # s.key
      <4>1. \A i \in 1 .. Len(kept) : kept[i] \in ToSet(kept)
        BY <2>1 DEF T, ToSet
      <4>2. QED
        BY <2>1, <2>3, <4>1 DEF T
    <3>3. /\ Append(kept, s) \in Seq(StreamRecord) /\ OneStreamPerKey(Append(kept, s))
          /\ Len(Append(kept, s)) = Len(kept) + 1 /\ ToSet(Append(kept, s)) = ToSet(kept) \cup {s}
      BY <2>1, <3>2, OneMoreStream
    <3>4. Fresh(k) = Fresh(k - 1) \cup {s}
      BY <2>2, <2>5
    <3>5. Len(kept) + 1 <= k
      BY <2>1, <3>2
    <3>6. Good(k)
      BY <2>1, <3>1, <3>3, <3>4, <3>5 DEF T
    <3>7. QED
      BY <3>6
  <2>6. QED
    BY <2>4, <2>5
<1>9. n \in G
  <2>1. \A k \in 1 .. n : k - 1 \in G => k \in G
    BY <1>8
  <2> HIDE DEF G
  <2>2. n \in 0 .. n
    BY <1>2
  <2>3. QED
    BY <1>2, <1>7, <2>1, <2>2, Stepwise
<1>10. h[1 .. n] = Live
  BY <1>1, <1>2
<1>11. Fresh(n) = {s \in ToSet(streams) : s.epoch + EventWindow >= clock}
  BY <1>2
<1>12. QED
  BY <1>9, <1>10, <1>11 DEF T

\* No event of a key is later than its stream, and those without one are too old.
LEMMA KnownAreEarlier ==
  ASSUME NEW st \in Receiver, NEW known \in SUBSET Events, Correlated(st, known), NEW e \in Events,
         clock \in Nat, clock <= e.epoch + EventWindow, ~(e.epoch < StreamOf(st, Key(e)).epoch)
  PROVE  \A x \in known : Key(x) = Key(e) => x.epoch <= e.epoch
<1> DEFINE s == StreamOf(st, Key(e))
<1>1. ASSUME NEW x \in known, Key(x) = Key(e) PROVE x.epoch <= e.epoch
  <2>1. e.epoch \in Nat /\ x.epoch \in Nat /\ EventWindow \in Nat /\ Key(e) \in EventKeys
    BY EventsAreTyped
  <2>2. /\ s \in StreamRecord /\ s.key = Key(e)
        /\ s \in ToSet(st.streams) \/ \A y \in ToSet(st.streams) : y.key # Key(e)
    BY <2>1, StreamOfKey
  <2>3. s.epoch \in Nat /\ ~(e.epoch < s.epoch)
    BY <2>2 DEF StreamRecord
  <2>4. StreamsFollow(ToSet(st.streams), known)
    BY DEF Correlated
  <2> HIDE DEF s
  <2>5. CASE s \in ToSet(st.streams)
    <3>1. x.epoch <= s.epoch
      BY <1>1, <2>2, <2>4, <2>5 DEF StreamsFollow
    <3>2. QED
      BY <2>1, <2>3, <3>1
  <2>6. CASE \A y \in ToSet(st.streams) : y.key # Key(e)
    <3>1. x.epoch + EventWindow < clock
      BY <1>1, <2>4, <2>6 DEF StreamsFollow
    <3>2. QED
      BY <2>1, <3>1
  <2>7. QED
    BY <2>2, <2>5, <2>6
<1>2. QED
  BY <1>1

\* An end that is known stays known, and lies before every later time.
LEMMA EndsStay ==
  ASSUME NEW a, NEW epoch \in Nat, NEW later \in Nat, epoch <= later,
         NEW known \in SUBSET Events, NEW e, EndedBetween(a, epoch, known)
  PROVE  EndedBetween(a, later, known \cup {e})
<1>1. PICK c \in known : Key(c) = Key(a) /\ c.kind # "start" /\ a.epoch <= c.epoch /\ c.epoch <= epoch
  BY DEF EndedBetween
<1>2. c.epoch <= later
  BY <1>1, EventsAreTyped
<1>3. QED
  BY <1>1, <1>2 DEF EndedBetween

\* What is pending after an event, and that a stream without a doubt has no other open send.
MovesStream(was, s, e) ==
    /\ s.pending # NoEvent => s.pending = e /\ e.kind = "start"
    /\ s.pending = NoEvent => e.kind # "start"
    /\ s.pending # NoEvent /\ ~s.ambiguous => ~InUse(was)

\* The stream of an event moves on to it: what is known of the others stays.
LEMMA StreamsMoveOn ==
  ASSUME NEW flows \in SUBSET StreamRecord, NEW known \in SUBSET Events, StreamsFollow(flows, known),
         NEW e \in Events, \A x \in known : Key(x) = Key(e) => x.epoch <= e.epoch,
         NEW s \in StreamRecord, s.key = Key(e), s.epoch = e.epoch,
         NEW was \in StreamRecord, MovesStream(was, s, e),
         \/ was \in flows /\ was.key = Key(e) /\ was.epoch <= e.epoch
         \/ \A x \in flows : x.key # Key(e)
  PROVE  StreamsFollow({x \in flows : x.key # Key(e)} \cup {s}, known \cup {e})
<1> DEFINE left == {x \in flows : x.key # Key(e)} \cup {s}
<1>1. e.epoch <= e.epoch /\ e.epoch \in Nat /\ NoEvent \notin Events
  BY EventsAreTyped
<1>2. /\ \A x \in known \cup {e}, y \in left : y.key = Key(x) => x.epoch <= y.epoch
      /\ \A x \in known \cup {e} : (\A y \in left : y.key # Key(x)) => x.epoch + EventWindow < clock
      /\ \A y \in left : y.pending # NoEvent =>
             /\ y.pending \in known \cup {e} /\ y.pending.kind = "start"
             /\ Key(y.pending) = y.key /\ y.pending.epoch = y.epoch
  BY <1>1 DEF StreamsFollow, MovesStream
<1>3. ASSUME NEW y \in left, NEW a \in known \cup {e}, ~y.ambiguous, y.key = Key(a), a.kind = "start",
             a # y.pending
      PROVE  EndedBetween(a, y.epoch, known \cup {e})
  <2>1. CASE y # s
    <3>1. y \in flows /\ Key(a) # Key(e) /\ a \in known /\ y.epoch \in Nat
      BY <1>3, <2>1 DEF StreamRecord
    <3>2. EndedBetween(a, y.epoch, known)
      BY <1>3, <3>1 DEF StreamsFollow
    <3>3. y.epoch <= y.epoch
      BY <3>1
    <3>4. QED
      BY <3>1, <3>2, <3>3, EndsStay
  <2>2. CASE y = s /\ s.pending = NoEvent
    <3>1. e.kind # "start" /\ a.epoch <= e.epoch
      BY <1>1, <1>3, <2>2 DEF MovesStream
    <3>2. QED
      BY <1>1, <1>3, <2>2, <3>1 DEF EndedBetween
  <2>3. CASE y = s /\ s.pending # NoEvent
    <3>1. ~InUse(was) /\ a \in known /\ a # NoEvent /\ Key(a) = Key(e) /\ a.epoch <= e.epoch
      BY <1>1, <1>3, <2>3 DEF MovesStream
    <3>2. CASE was \in flows /\ was.key = Key(e) /\ was.epoch <= e.epoch
      <4>1. EndedBetween(a, was.epoch, known) /\ was.epoch \in Nat
        BY <1>3, <3>1, <3>2 DEF StreamsFollow, InUse, StreamRecord
      <4>2. QED
        BY <1>1, <2>3, <3>2, <4>1, EndsStay
    <3>3. CASE \A x \in flows : x.key # Key(e)
      <4>1. PICK c \in known : Key(c) = Key(a) /\ c.kind # "start" /\ a.epoch <= c.epoch
        BY <1>3, <3>1, <3>3 DEF StreamsFollow
      <4>2. c.epoch <= e.epoch
        BY <3>1, <4>1
      <4>3. QED
        BY <2>3, <4>1, <4>2 DEF EndedBetween
    <3>4. QED
      BY <3>2, <3>3
  <2>4. QED
    BY <2>1, <2>2, <2>3
<1>4. ASSUME NEW a \in known \cup {e}, a.kind = "start", \A y \in left : y.key # Key(a)
      PROVE  \E c \in known \cup {e} : Key(c) = Key(a) /\ c.kind # "start" /\ a.epoch <= c.epoch
  <2>1. Key(a) # Key(e) /\ a \in known
    BY <1>4
  <2>2. \A x \in flows : x.key # Key(a)
    BY <1>4, <2>1
  <2>3. QED
    BY <1>4, <2>1, <2>2 DEF StreamsFollow
<1> HIDE DEF left
<1>5. StreamsFollow(left, known \cup {e})
  BY <1>2, <1>3, <1>4 DEF StreamsFollow
<1>6. QED
  BY <1>5 DEF left

\* An event that is no earlier than those known falls into no sample of its stream.
LEMMA SamplesStayTimed ==
  ASSUME NEW made \in Made, NEW from \in Origin, NEW known \in SUBSET Events,
         SamplesAreTimed(made, from, known),
         NEW e \in Events, \A x \in known : Key(x) = Key(e) => x.epoch <= e.epoch
  PROVE  SamplesAreTimed(made, from, known \cup {e})
<1>1. ASSUME NEW m \in DOMAIN made PROVE IsTimed(m, made[m], from[m], known \cup {e})
  <2>1. IsTimed(m, made[m], from[m], known)
    BY DEF SamplesAreTimed
  <2>2. ASSUME Key(e) = from[m] PROVE ~(e.epoch < made[m].end.epoch)
    <3>1. made[m].end \in known /\ Key(made[m].end) = Key(e)
      BY <2>1, <2>2 DEF IsTimed
    <3>2. made[m].end.epoch <= e.epoch /\ made[m].end.epoch \in Nat /\ e.epoch \in Nat
      BY <3>1, EventsAreTyped
    <3>3. QED
      BY <3>2
  <2>3. ASSUME NEW a \in known \cup {e}, Key(a) = from[m], a.kind = "start", a # made[m].start,
               a.epoch <= made[m].start.epoch
        PROVE  EndedBetween(a, made[m].start.epoch, known \cup {e})
    <3>1. /\ made[m].start \in known /\ made[m].end \in known /\ Key(made[m].end) = from[m]
          /\ made[m].end.kind = "complete" /\ made[m].start.epoch <= made[m].end.epoch
      BY <2>1 DEF IsTimed
    <3>2. made[m].start.epoch \in Nat /\ made[m].end.epoch \in Nat /\ e.epoch \in Nat
      BY <3>1, EventsAreTyped
    <3>3. CASE a \in known
      <4>1. EndedBetween(a, made[m].start.epoch, known) /\ made[m].start.epoch <= made[m].start.epoch
        BY <2>1, <2>3, <3>2, <3>3 DEF IsTimed
      <4>2. QED
        BY <3>2, <4>1, EndsStay
    <3>4. CASE a = e
      <4>1. made[m].end.epoch <= e.epoch
        BY <2>3, <3>1, <3>4
      <4>2. e.epoch <= made[m].end.epoch /\ made[m].end.epoch <= made[m].start.epoch
        BY <2>3, <3>1, <3>2, <3>4, <4>1
      <4>3. QED
        BY <2>3, <3>1, <3>4, <4>2 DEF EndedBetween
    <3>5. QED
      BY <2>3, <3>3, <3>4
  <2>4. QED
    BY <2>1, <2>2, <2>3 DEF IsTimed
<1>2. QED
  BY <1>1 DEF SamplesAreTimed

\* A pair made of a pending send is timed.
LEMMA PairIsTimed ==
  ASSUME NEW st \in Receiver, NEW known \in SUBSET Events, Correlated(st, known),
         NEW e \in Events, e.kind = "complete", NEW s \in ToSet(st.streams), s.key = Key(e),
         s.pending # NoEvent, ~s.ambiguous, ~(e.epoch < s.epoch)
  PROVE  IsTimed(e.model, [start |-> s.pending, end |-> e], Key(e), known \cup {e})
<1>1. /\ StreamsFollow(ToSet(st.streams), known)
      /\ st.streams \in Seq(StreamRecord)
  BY DEF Correlated, Receiver, ReceiverShape
<1>2. /\ s.pending \in known /\ s.pending.kind = "start" /\ Key(s.pending) = Key(e)
      /\ s.pending.epoch = s.epoch
  BY <1>1 DEF StreamsFollow
<1>3. s.pending.epoch \in Nat /\ e.epoch \in Nat
  BY <1>2, EventsAreTyped
<1>4. \A x \in known : Key(x) = Key(e) => ~(s.pending.epoch < x.epoch)
  <2>1. ASSUME NEW x \in known, Key(x) = Key(e) PROVE ~(s.pending.epoch < x.epoch)
    <3>1. x.epoch <= s.epoch /\ x.epoch \in Nat
      BY <1>1, <2>1, EventsAreTyped DEF StreamsFollow
    <3>2. QED
      BY <1>2, <1>3, <3>1
  <2>2. QED
    BY <2>1
<1>5. s.pending.epoch <= e.epoch /\ ~(e.epoch < e.epoch)
  BY <1>2, <1>3
<1>6. ASSUME NEW a \in known \cup {e}, Key(a) = Key(e), a.kind = "start", a # s.pending
      PROVE  EndedBetween(a, s.pending.epoch, known \cup {e})
  <2>1. EndedBetween(a, s.epoch, known) /\ s.epoch <= s.pending.epoch
    BY <1>1, <1>2, <1>3, <1>6 DEF StreamsFollow
  <2>2. QED
    BY <1>2, <1>3, <2>1, EndsStay
<1>7. QED
  BY <1>2, <1>4, <1>5, <1>6 DEF IsTimed

\* An event is remembered; the oldest is forgotten beyond the limit.
LEMMA EventIsSeen ==
  ASSUME NEW st \in Receiver, NEW e \in Events
  PROVE  LET all == Append(st.seen, e)
             known == [st EXCEPT !.seen = IF Len(all) > MaxSeen THEN Tail(all) ELSE all]
         IN  /\ known \in Receiver /\ known.lost = st.lost
             /\ known.streams = st.streams /\ known.samples = st.samples /\ known.origins = st.origins
             /\ ToSet(known.seen) \subseteq ToSet(st.seen) \cup {e}
<1> DEFINE all == Append(st.seen, e)
           kept == IF Len(all) > MaxSeen THEN Tail(all) ELSE all
           known == [st EXCEPT !.seen = kept]
<1>1. /\ st \in ReceiverShape /\ st.seen \in Seq(Events) /\ Len(st.seen) <= MaxSeen /\ WithinBounds(st)
      /\ Len(st.seen) \in Nat /\ MaxSeen \in Nat \ {0}
  BY EventsAreTyped DEF Receiver, ReceiverShape, WithinBounds
<1>2. /\ all \in Seq(Events) /\ Len(all) = Len(st.seen) + 1
      /\ \A i \in 1 .. Len(st.seen) + 1 : all[i] = IF i = Len(st.seen) + 1 THEN e ELSE st.seen[i]
  BY <1>1
<1> HIDE DEF all
<1>3. ToSet(all) \subseteq ToSet(st.seen) \cup {e}
  <2>1. DOMAIN all = 1 .. Len(st.seen) + 1 /\ DOMAIN st.seen = 1 .. Len(st.seen)
    BY <1>1, <1>2
  <2>2. \A i \in 1 .. Len(st.seen) + 1 : i \in 1 .. Len(st.seen) \/ i = Len(st.seen) + 1
    BY <1>1
  <2>3. QED
    BY <1>2, <2>1, <2>2 DEF ToSet
<1>4. kept \in Seq(Events) /\ Len(kept) <= MaxSeen /\ ToSet(kept) \subseteq ToSet(all)
  <2>1. CASE Len(all) > MaxSeen
    <3>1. all # <<>>
      BY <1>1, <1>2
    <3>2. /\ Tail(all) \in Seq(Events) /\ Len(Tail(all)) = Len(st.seen)
          /\ \A i \in 1 .. Len(st.seen) : Tail(all)[i] = all[i + 1]
      BY <1>1, <1>2, <3>1
    <3>3. ToSet(Tail(all)) \subseteq ToSet(all)
      <4>1. DOMAIN Tail(all) = 1 .. Len(st.seen) /\ DOMAIN all = 1 .. Len(st.seen) + 1
        BY <1>1, <1>2, <3>2
      <4>2. \A i \in 1 .. Len(st.seen) : i + 1 \in 1 .. Len(st.seen) + 1
        BY <1>1
      <4>3. QED
        BY <3>2, <4>1, <4>2 DEF ToSet
    <3>4. QED
      BY <1>1, <2>1, <3>2, <3>3
  <2>2. CASE ~(Len(all) > MaxSeen)
    <3>1. Len(all) <= MaxSeen
      BY <1>1, <1>2, <2>2
    <3>2. QED
      BY <1>2, <2>2, <3>1
  <2>3. QED
    BY <2>1, <2>2
<1> HIDE DEF kept
<1>5. /\ known \in ReceiverShape /\ known.seen = kept /\ known.lost = st.lost
      /\ known.streams = st.streams /\ known.samples = st.samples /\ known.origins = st.origins
  BY <1>1, <1>4 DEF ReceiverShape
<1>6. known \in Receiver
  BY <1>1, <1>4, <1>5 DEF Receiver, WithinBounds
<1>7. QED
  BY <1>3, <1>4, <1>5, <1>6 DEF kept, all

\* A late event leaves a spoiled stream, and no sample that it falls into.
LEMMA LateKeeps ==
  ASSUME NEW st \in Receiver, NEW known \in SUBSET Events, Correlated(st, known),
         NEW e \in Events, e.epoch < StreamOf(st, Key(e)).epoch
  PROVE  Correlated(Late(st, e, StreamOf(st, Key(e))), known \cup {e})
<1> DEFINE s == StreamOf(st, Key(e))
           new == Late(st, e, s)
           flows == ToSet(st.streams)
           left == {IF x.key = Key(e) THEN Spoiled(x) ELSE x : x \in flows}
           withdrawn == e.model \in DOMAIN st.origins /\ st.origins[e.model] = Key(e)
<1>1. e.epoch \in Nat /\ Key(e) \in EventKeys /\ NoEvent \notin Events /\ e.epoch < s.epoch
  BY EventsAreTyped
<1>2. s \in StreamRecord /\ s.key = Key(e) /\ s \in flows /\ \A x \in flows : x.key = Key(e) => x = s
  <2>1. /\ s \in StreamRecord /\ s.key = Key(e)
        /\ s \in flows \/ s.epoch = 0
        /\ \A x \in flows : x.key = Key(e) => x = s
    BY <1>1, StreamOfKey
  <2>2. ~(s.epoch = 0)
    BY <1>1
  <2>3. QED
    BY <2>1, <2>2
<1> HIDE DEF s
<1>3. /\ ToSet(new.streams) = left
      /\ withdrawn => /\ new.samples = [m \in DOMAIN st.samples \ {e.model} |-> st.samples[m]]
                       /\ new.origins = [m \in DOMAIN st.origins \ {e.model} |-> st.origins[m]]
      /\ ~withdrawn => /\ new.samples = [m \in DOMAIN st.samples |-> st.samples[m]]
                        /\ new.origins = [m \in DOMAIN st.origins |-> st.origins[m]]
  <2>1. SpoiledBy(st, e, new)
    BY <1>2, StreamIsSpoiled
  <2>2. QED
    BY <2>1 DEF SpoiledBy
<1>4. flows \in SUBSET StreamRecord /\ StreamsFollow(flows, known) /\ SamplesAreTimed(st.samples, st.origins, known)
  <2>1. st.streams \in Seq(StreamRecord)
    BY DEF Receiver, ReceiverShape
  <2>2. QED
    BY <2>1 DEF Correlated, ToSet
<1>5. StreamsFollow(left, known \cup {e})
  <2>1. ASSUME NEW y \in left
        PROVE  \E x \in flows : /\ y.key = x.key
                                 /\ y.epoch = x.epoch
                                 /\ (y.pending = x.pending \/ y.pending = NoEvent)
                                 /\ ((y = x /\ x.key # Key(e)) \/ y.ambiguous)
    <3>1. PICK x \in flows : y = IF x.key = Key(e) THEN Spoiled(x) ELSE x
      OBVIOUS
    <3>2. x \in StreamRecord
      BY <1>4
    <3>3. /\ Spoiled(x).key = x.key /\ Spoiled(x).epoch = x.epoch /\ Spoiled(x).pending = NoEvent
          /\ Spoiled(x).ambiguous
      BY <3>2 DEF Spoiled, StreamRecord
    <3>4. QED
      BY <3>1, <3>3
  <2>2. ASSUME NEW x \in flows PROVE \E y \in left : y.key = x.key
    <3>1. Spoiled(x).key = x.key
      BY <1>4 DEF Spoiled, StreamRecord
    <3>2. (IF x.key = Key(e) THEN Spoiled(x) ELSE x) \in left
      OBVIOUS
    <3>3. QED
      BY <3>1, <3>2
  <2> HIDE DEF left, flows
  <2>3. ASSUME NEW x \in known \cup {e}, NEW y \in left, y.key = Key(x) PROVE x.epoch <= y.epoch
    <3>1. PICK z \in flows : y.key = z.key /\ y.epoch = z.epoch
      BY <2>1, Zenon
    <3>2. CASE x \in known
      BY <1>4, <2>3, <3>1, <3>2 DEF StreamsFollow
    <3>3. CASE x = e
      <4>1. z = s
        BY <1>2, <2>3, <3>1, <3>3
      <4>2. s.epoch \in Nat
        BY <1>2 DEF StreamRecord
      <4>3. QED
        BY <1>1, <3>1, <3>3, <4>1, <4>2
    <3>4. QED
      BY <2>3, <3>2, <3>3
  <2>4. ASSUME NEW x \in known \cup {e}, \A y \in left : y.key # Key(x) PROVE x.epoch + EventWindow < clock
    <3>1. \A z \in flows : z.key # Key(x)
      BY <2>2, <2>4
    <3>2. x # e
      BY <1>2, <3>1
    <3>3. QED
      BY <1>4, <2>4, <3>1, <3>2 DEF StreamsFollow
  <2>5. ASSUME NEW y \in left, y.pending # NoEvent
        PROVE  /\ y.pending \in known /\ y.pending.kind = "start"
               /\ Key(y.pending) = y.key /\ y.pending.epoch = y.epoch
    BY <1>4, <2>1, <2>5 DEF StreamsFollow
  <2>6. ASSUME NEW y \in left, NEW a \in known \cup {e}, ~y.ambiguous, y.key = Key(a), a.kind = "start",
               a # y.pending
        PROVE  EndedBetween(a, y.epoch, known \cup {e})
    <3>1. y \in flows /\ y.key # Key(e) /\ a \in known
      BY <2>1, <2>6
    <3>2. EndedBetween(a, y.epoch, known) /\ y.epoch \in Nat
      BY <1>4, <2>6, <3>1 DEF StreamsFollow, StreamRecord
    <3>3. y.epoch <= y.epoch
      BY <3>2
    <3>4. QED
      BY <3>2, <3>3, EndsStay
  <2>7. ASSUME NEW a \in known \cup {e}, a.kind = "start", \A y \in left : y.key # Key(a)
        PROVE  \E c \in known : Key(c) = Key(a) /\ c.kind # "start" /\ a.epoch <= c.epoch
    <3>1. \A z \in flows : z.key # Key(a)
      BY <2>2, <2>7
    <3>2. a # e
      BY <1>2, <3>1
    <3>3. QED
      BY <1>4, <2>7, <3>1, <3>2 DEF StreamsFollow
  <2>8. QED
    BY <2>3, <2>4, <2>5, <2>6, <2>7 DEF StreamsFollow
<1>6. SamplesAreTimed(new.samples, new.origins, known \cup {e})
  <2>1. DOMAIN new.samples \subseteq DOMAIN st.samples /\ DOMAIN new.samples = DOMAIN new.origins
    BY <1>3, <1>4 DEF SamplesAreTimed
  <2>2. ASSUME NEW m \in DOMAIN new.samples
        PROVE  IsTimed(m, new.samples[m], new.origins[m], known \cup {e})
    <3>1. new.samples[m] = st.samples[m] /\ new.origins[m] = st.origins[m] /\ m \in DOMAIN st.samples
          /\ (withdrawn => m # e.model) /\ DOMAIN st.origins = DOMAIN st.samples
      BY <1>3, <1>4 DEF SamplesAreTimed
    <3>2. IsTimed(m, st.samples[m], st.origins[m], known)
      BY <1>4, <3>1 DEF SamplesAreTimed
    <3>3. st.origins[m] # Key(e)
      <4>1. ASSUME st.origins[m] = Key(e) PROVE FALSE
        <5>1. Key(st.samples[m].end) = Key(e) /\ st.samples[m].end.model = m
          BY <3>2, <4>1 DEF IsTimed
        <5>2. m = e.model
          BY <5>1 DEF Key
        <5>3. QED
          BY <3>1, <4>1, <5>2
      <4>2. QED
        BY <4>1
    <3>4. st.samples[m].start.epoch \in Nat /\ st.samples[m].start.epoch <= st.samples[m].start.epoch
      BY <3>2, EventsAreTyped DEF IsTimed
    <3>5. \A a \in known : EndedBetween(a, st.samples[m].start.epoch, known) =>
                            EndedBetween(a, st.samples[m].start.epoch, known \cup {e})
      BY <3>4, EndsStay
    <3>6. QED
      BY <3>1, <3>2, <3>3, <3>5 DEF IsTimed
  <2>3. QED
    BY <2>1, <2>2 DEF SamplesAreTimed
<1>7. QED
  BY <1>3, <1>5, <1>6 DEF Correlated, s

\* A completion pairs with the send of its stream, or leaves the samples as they were.
LEMMA CompleteKeeps ==
  ASSUME NEW st \in Receiver, NEW known \in SUBSET Events, Correlated(st, known),
         NEW e \in Events, e.kind = "complete", ~(e.epoch < StreamOf(st, Key(e)).epoch),
         \A x \in known : Key(x) = Key(e) => x.epoch <= e.epoch
  PROVE  LET new == Complete(st, e, StreamOf(st, Key(e)))
         IN  SamplesAreTimed(new.samples, new.origins, known \cup {e})
<1> DEFINE s == StreamOf(st, Key(e))
           new == Complete(st, e, s)
           made == [start |-> s.pending, end |-> e]
<1>1. /\ s \in StreamRecord /\ s.key = Key(e)
      /\ s \in ToSet(st.streams) \/ s.pending = NoEvent
  BY EventsAreTyped, StreamOfKey
<1>2. st.samples \in Made /\ st.origins \in Origin /\ SamplesAreTimed(st.samples, st.origins, known)
  BY DEF Correlated, Receiver, ReceiverShape
<1>3. SamplesAreTimed(st.samples, st.origins, known \cup {e})
  BY <1>2, SamplesStayTimed
<1>4. ~(e.epoch < s.epoch)
  OBVIOUS
<1> HIDE DEF s
<1>5. \/ new.samples = st.samples /\ new.origins = st.origins
      \/ /\ s.pending # NoEvent /\ ~s.ambiguous
         /\ new.samples = With(st.samples, e.model, made)
         /\ new.origins = With(st.origins, e.model, Key(e))
  BY <1>1, SampleIsMade
<1> HIDE DEF new
<1>6. CASE new.samples = st.samples /\ new.origins = st.origins
  BY <1>3, <1>6 DEF new, s
<1>7. CASE /\ s.pending # NoEvent /\ ~s.ambiguous
           /\ new.samples = With(st.samples, e.model, made)
           /\ new.origins = With(st.origins, e.model, Key(e))
  <2>1. IsTimed(e.model, made, Key(e), known \cup {e})
    BY <1>1, <1>4, <1>7, PairIsTimed
  <2> HIDE DEF made
  <2>2. SamplesAreTimed(new.samples, new.origins, known \cup {e})
    <3>1. DOMAIN new.samples = DOMAIN st.samples \cup {e.model} /\ DOMAIN new.origins = DOMAIN st.origins \cup {e.model}
          /\ new.samples[e.model] = made /\ new.origins[e.model] = Key(e)
      BY <1>7 DEF With
    <3>2. \A m \in DOMAIN st.samples \ {e.model} : new.samples[m] = st.samples[m]
      BY <1>7 DEF With
    <3>3. \A m \in DOMAIN st.origins \ {e.model} : new.origins[m] = st.origins[m]
      BY <1>7 DEF With
    <3>4. QED
      BY <1>3, <2>1, <3>1, <3>2, <3>3 DEF SamplesAreTimed
  <2>3. QED
    BY <2>2 DEF new, s
<1>8. QED
  BY <1>5, <1>6, <1>7

\* What recording an event makes of a state.
Follows(new, st, e, known) ==
    /\ new \in Receiver /\ (st.lost => new.lost)
    /\ ToSet(new.seen) \subseteq known \cup {e}
    /\ (~new.lost /\ Correlated(st, known) /\ clock <= e.epoch + EventWindow)
         => Correlated(new, known \cup {e})

\* Keeping a stream at an event leaves a receiver that follows the events known with it.
KeepFollows(st, s, e, known) ==
    LET new == KeepStream(st, s)
    IN  /\ new \in Receiver /\ (st.lost => new.lost) /\ new.seen = st.seen
        /\ (/\ ~new.lost /\ StreamsFollow(ToSet(st.streams), known)
            /\ SamplesAreTimed(st.samples, st.origins, known \cup {e})
            /\ \A x \in known : Key(x) = Key(e) => x.epoch <= e.epoch)
              => Correlated(new, known \cup {e})

\* A stream that moved on is kept, with the samples made before.
LEMMA KeptFollows ==
  ASSUME NEW st \in Receiver, NEW known \in SUBSET Events, NEW e \in Events,
         NEW s \in StreamRecord, s.key = Key(e), s.epoch = e.epoch,
         NEW was \in StreamRecord, MovesStream(was, s, e),
         \/ was \in ToSet(st.streams) /\ was.key = Key(e) /\ was.epoch <= e.epoch
         \/ \A x \in ToSet(st.streams) : x.key # Key(e)
  PROVE  KeepFollows(st, s, e, known)
<1> DEFINE new == KeepStream(st, s)
<1>1. /\ new \in Receiver /\ (st.lost => new.lost)
      /\ new.seen = st.seen /\ new.samples = st.samples /\ new.origins = st.origins
      /\ ~new.lost => ToSet(new.streams) = {x \in ToSet(st.streams) : x.key # Key(e)} \cup {s}
  BY StreamIsKept
<1>2. ToSet(st.streams) \in SUBSET StreamRecord
  <2>1. st.streams \in Seq(StreamRecord)
    BY DEF Receiver, ReceiverShape
  <2>2. QED
    BY <2>1 DEF ToSet
<1> HIDE DEF new
<1>3. ASSUME ~new.lost, StreamsFollow(ToSet(st.streams), known),
             SamplesAreTimed(st.samples, st.origins, known \cup {e}),
             \A x \in known : Key(x) = Key(e) => x.epoch <= e.epoch
      PROVE  Correlated(new, known \cup {e})
  <2>1. StreamsFollow({x \in ToSet(st.streams) : x.key # Key(e)} \cup {s}, known \cup {e})
    BY <1>2, <1>3, StreamsMoveOn
  <2>2. QED
    BY <1>1, <1>3, <2>1 DEF Correlated
<1>4. QED
  BY <1>1, <1>3 DEF new, KeepFollows

\* Recording an event that is not too old keeps streams and samples in step with what is known.
LEMMA RecordKeeps ==
  ASSUME NEW st \in Receiver, NEW known \in SUBSET Events, ToSet(st.seen) \subseteq known,
         NEW e \in Events, clock \in Nat
  PROVE  Follows(RecordEvent(st, e), st, e, known)
<1> DEFINE s == StreamOf(st, Key(e))
           all == Append(st.seen, e)
           was == [st EXCEPT !.seen = IF Len(all) > MaxSeen THEN Tail(all) ELSE all]
           after(pending, ambiguous) ==
               [s EXCEPT !.epoch = e.epoch, !.pending = pending, !.ambiguous = ambiguous]
           new == RecordEvent(st, e)
           started == after(e, InUse(s))
           ended == after(NoEvent, FALSE)
<1>1. new = IF e \in ToSet(st.seen) THEN st
            ELSE IF e.epoch < s.epoch THEN Late(was, e, s)
            ELSE CASE e.kind = "start" -> KeepStream(was, started)
                   [] e.kind = "failed" -> KeepStream(was, ended)
                   [] e.kind = "complete" -> KeepStream(Complete(was, e, s), ended)
  BY DEF RecordEvent
<1>2. /\ was \in Receiver /\ was.lost = st.lost
      /\ was.streams = st.streams /\ was.samples = st.samples /\ was.origins = st.origins
      /\ ToSet(was.seen) \subseteq known \cup {e}
  <2>1. ToSet(was.seen) \subseteq ToSet(st.seen) \cup {e}
    BY EventIsSeen
  <2>2. QED
    BY <2>1, EventIsSeen
<1> HIDE DEF was
<1>3. StreamOf(was, Key(e)) = s
  BY <1>2 DEF StreamOf
<1>4. /\ s \in StreamRecord /\ s.key = Key(e) /\ e.epoch \in Nat /\ e \notin {NoEvent}
      /\ e.kind \in {"start", "failed", "complete"}
      /\ \/ s \in ToSet(was.streams) /\ s.key = Key(e)
         \/ \A x \in ToSet(was.streams) : x.key # Key(e)
  BY <1>2, EventsAreTyped, StreamOfKey
<1>5. Correlated(st, known) => Correlated(was, known)
  BY <1>2 DEF Correlated
<1> HIDE DEF s
<1>6. /\ started \in StreamRecord /\ started.key = Key(e) /\ started.epoch = e.epoch /\ started.pending = e
      /\ started.ambiguous = InUse(s)
      /\ ended \in StreamRecord /\ ended.key = Key(e) /\ ended.epoch = e.epoch /\ ended.pending = NoEvent
  <2>1. InUse(s) \in BOOLEAN
    BY <1>4 DEF InUse, StreamRecord
  <2> HIDE DEF InUse
  <2>2. QED
    BY <1>4, <2>1 DEF StreamRecord
<1> HIDE DEF started, ended, new
<1>14. ASSUME ~(e.epoch < s.epoch)
       PROVE  /\ \/ s \in ToSet(was.streams) /\ s.key = Key(e) /\ s.epoch <= e.epoch
                 \/ \A x \in ToSet(was.streams) : x.key # Key(e)
              /\ e.kind = "start" => MovesStream(s, started, e)
              /\ e.kind # "start" => MovesStream(s, ended, e)
  BY <1>4, <1>6, <1>14 DEF StreamRecord, MovesStream
<1>7. CASE e \in ToSet(st.seen)
  <2>1. new = st /\ known \cup {e} = known
    BY <1>1, <1>7
  <2>2. QED
    BY <2>1 DEF Follows, new
<1>8. CASE e \notin ToSet(st.seen) /\ e.epoch < s.epoch
  <2>1. new = Late(was, e, s)
    BY <1>1, <1>8
  <2>2. new \in Receiver /\ new.lost = was.lost /\ new.seen = was.seen
    BY <1>2, <1>4, <2>1, StreamIsSpoiled
  <2>3. Correlated(was, known) => Correlated(new, known \cup {e})
    BY <1>2, <1>3, <1>8, <2>1, LateKeeps
  <2>4. QED
    BY <1>2, <1>5, <2>2, <2>3 DEF Follows, new
<1>9. Correlated(was, known) /\ ~(e.epoch < s.epoch) /\ clock <= e.epoch + EventWindow =>
        /\ StreamsFollow(ToSet(was.streams), known)
        /\ \A x \in known : Key(x) = Key(e) => x.epoch <= e.epoch
        /\ SamplesAreTimed(was.samples, was.origins, known \cup {e})
  <2>1. ASSUME Correlated(was, known), ~(e.epoch < s.epoch), clock <= e.epoch + EventWindow
        PROVE  /\ StreamsFollow(ToSet(was.streams), known)
               /\ \A x \in known : Key(x) = Key(e) => x.epoch <= e.epoch
               /\ SamplesAreTimed(was.samples, was.origins, known \cup {e})
    <3>1. \A x \in known : Key(x) = Key(e) => x.epoch <= e.epoch
      BY <1>2, <1>3, <2>1, KnownAreEarlier
    <3>2. was.samples \in Made /\ was.origins \in Origin
      BY <1>2 DEF Receiver, ReceiverShape
    <3>3. StreamsFollow(ToSet(was.streams), known) /\ SamplesAreTimed(was.samples, was.origins, known)
      BY <2>1 DEF Correlated
    <3>4. QED
      BY <3>1, <3>2, <3>3, SamplesStayTimed
  <2>2. QED
    BY <2>1
<1>10. CASE e \notin ToSet(st.seen) /\ ~(e.epoch < s.epoch) /\ e.kind = "start"
  <2>1. new = KeepStream(was, started)
    BY <1>1, <1>10
  <2>2. KeepFollows(was, started, e, known)
    BY <1>2, <1>4, <1>6, <1>10, <1>14, KeptFollows
  <2>3. /\ new \in Receiver /\ (was.lost => new.lost) /\ new.seen = was.seen
        /\ ~new.lost /\ Correlated(was, known) /\ clock <= e.epoch + EventWindow => Correlated(new, known \cup {e})
    BY <1>9, <1>10, <2>1, <2>2 DEF KeepFollows
  <2>4. QED
    BY <1>2, <1>5, <2>3 DEF Follows, new
<1>11. CASE e \notin ToSet(st.seen) /\ ~(e.epoch < s.epoch) /\ e.kind = "failed"
  <2>1. new = KeepStream(was, ended)
    BY <1>1, <1>11
  <2>2. KeepFollows(was, ended, e, known)
    BY <1>2, <1>4, <1>6, <1>11, <1>14, KeptFollows
  <2>3. /\ new \in Receiver /\ (was.lost => new.lost) /\ new.seen = was.seen
        /\ ~new.lost /\ Correlated(was, known) /\ clock <= e.epoch + EventWindow => Correlated(new, known \cup {e})
    BY <1>9, <1>11, <2>1, <2>2 DEF KeepFollows
  <2>4. QED
    BY <1>2, <1>5, <2>3 DEF Follows, new
<1>12. CASE e \notin ToSet(st.seen) /\ ~(e.epoch < s.epoch) /\ e.kind = "complete"
  <2> DEFINE mid == Complete(was, e, s)
  <2>1. new = KeepStream(mid, ended)
    BY <1>1, <1>12
  <2>2. /\ mid \in Receiver /\ mid.lost = was.lost /\ mid.seen = was.seen /\ mid.streams = was.streams
    BY <1>2, <1>4, SampleIsMade
  <2>3. Correlated(was, known) /\ clock <= e.epoch + EventWindow => SamplesAreTimed(mid.samples, mid.origins, known \cup {e})
    BY <1>2, <1>3, <1>9, <1>12, CompleteKeeps
  <2> HIDE DEF mid
  <2>4. /\ new \in Receiver /\ (mid.lost => new.lost) /\ new.seen = mid.seen
        /\ (/\ ~new.lost /\ StreamsFollow(ToSet(mid.streams), known)
            /\ SamplesAreTimed(mid.samples, mid.origins, known \cup {e})
            /\ \A x \in known : Key(x) = Key(e) => x.epoch <= e.epoch)
              => Correlated(new, known \cup {e})
    <3>1. KeepFollows(mid, ended, e, known)
      BY <1>4, <1>6, <1>12, <1>14, <2>2, KeptFollows
    <3>2. QED
      BY <2>1, <3>1 DEF KeepFollows
  <2>5. ~new.lost /\ Correlated(was, known) /\ clock <= e.epoch + EventWindow => Correlated(new, known \cup {e})
    BY <1>9, <1>12, <2>2, <2>3, <2>4
  <2>6. QED
    BY <1>2, <1>5, <2>2, <2>4, <2>5 DEF Follows, new
<1>13. QED
  BY <1>4, <1>7, <1>8, <1>10, <1>11, <1>12

\* Events recorded one after the other, none of them too old.
LEMMA FoldKeeps ==
  ASSUME NEW st \in Receiver, NEW known \in SUBSET Events, ToSet(st.seen) \subseteq known,
         clock \in Nat, NEW events \in Seq(Events),
         \A i \in DOMAIN events : clock <= events[i].epoch + EventWindow
  PROVE  LET new == FoldLeft(RecordEvent, st, events)
         IN  /\ new \in Receiver /\ (st.lost => new.lost)
             /\ ToSet(new.seen) \subseteq known \cup ToSet(events)
             /\ (~new.lost /\ Correlated(st, known)) => Correlated(new, known \cup ToSet(events))
<1> DEFINE D == DOMAIN events
           n == Len(events)
           step == [x \in Receiver \X Events |-> RecordEvent(x[1], x[2])]
           Folds(g) == g = [s \in SUBSET D |-> IF s = {} THEN st
                                               ELSE RecordEvent(g[s \ {Max(s)}], events[Max(s)])]
           h == CHOOSE g : Folds(g)
<1>1. FoldLeft(RecordEvent, st, events) = h[D]
  BY DEF FoldLeft, MapThenFoldSet
<1>2. n \in Nat /\ D = 1 .. n /\ \A i \in D : events[i] \in Events
  OBVIOUS
<1>3. \A x \in Receiver, e \in Events : RecordEvent(x, e) \in Receiver
  <2>1. ASSUME NEW x \in Receiver, NEW e \in Events PROVE RecordEvent(x, e) \in Receiver
    <3>1. ToSet(x.seen) \subseteq Events
      <4>1. x.seen \in Seq(Events)
        BY DEF Receiver, ReceiverShape
      <4>2. QED
        BY <4>1 DEF ToSet
    <3>2. Follows(RecordEvent(x, e), x, e, Events)
      BY <3>1, RecordKeeps
    <3>3. QED
      BY <3>2 DEF Follows
  <2>2. QED
    BY <2>1
<1>4. step \in [Receiver \X Events -> Receiver]
      /\ \A x \in Receiver, e \in Events : step[<<x, e>>] = RecordEvent(x, e)
  <2>1. step \in [Receiver \X Events -> Receiver]
    BY <1>3
  <2>2. ASSUME NEW x \in Receiver, NEW e \in Events PROVE step[<<x, e>>] = RecordEvent(x, e)
    BY <2>1
  <2>3. QED
    BY <2>1, <2>2
<1> HIDE DEF step
<1>5. Folds(h)
  <2>1. PICK g : FoldsAll(step, st, events, Receiver, g)
    BY <1>4, FoldExists
  <2>2. ASSUME NEW s \in SUBSET D, s # {} PROVE g[s] = RecordEvent(g[s \ {Max(s)}], events[Max(s)])
    <3>1. Max(s) \in s
      BY <1>2, <2>2, LastPosition
    <3>2. g[s \ {Max(s)}] \in Receiver /\ events[Max(s)] \in Events
      BY <1>2, <2>1, <3>1 DEF FoldsAll
    <3>3. QED
      BY <1>4, <2>1, <2>2, <3>2 DEF FoldsAll
  <2>3. Folds(g)
    BY <2>1, <2>2 DEF FoldsAll
  <2>4. QED
    BY <2>3
<1> HIDE DEF h
<1>6. h[{}] = st /\ \A k \in 1 .. n : h[1 .. k] = RecordEvent(h[1 .. (k - 1)], events[k])
  <2>1. h[{}] = st
    BY <1>5
  <2>2. ASSUME NEW k \in 1 .. n PROVE h[1 .. k] = RecordEvent(h[1 .. (k - 1)], events[k])
    <3> DEFINE s == 1 .. k
    <3>1. s \in SUBSET D /\ s # {} /\ Max(s) = k /\ s \ {k} = 1 .. (k - 1)
      BY <1>2, PrefixEnds
    <3> HIDE DEF s
    <3>2. h[s] = RecordEvent(h[s \ {Max(s)}], events[Max(s)])
      BY <1>5, <3>1
    <3>3. QED
      BY <3>1, <3>2 DEF s
  <2>3. QED
    BY <2>1, <2>2
<1> DEFINE at(k) == h[1 .. k]
           sofar(k) == known \cup {events[i] : i \in 1 .. k}
           Good(k) == /\ at(k) \in Receiver /\ (st.lost => at(k).lost)
                      /\ ToSet(at(k).seen) \subseteq sofar(k)
                      /\ (~at(k).lost /\ Correlated(st, known)) => Correlated(at(k), sofar(k))
           G == {k \in 0 .. n : Good(k)}
<1>7. 0 \in G
  <2>1. 1 .. 0 = {}
    OBVIOUS
  <2>2. at(0) = st /\ sofar(0) = known /\ 0 \in 0 .. n
    BY <1>2, <1>6, <2>1
  <2> HIDE DEF at, sofar
  <2>3. QED
    BY <2>2
<1>8. ASSUME NEW k \in 1 .. n, k - 1 \in G PROVE k \in G
  <2> DEFINE e == events[k]
             was == at(k - 1)
             old == sofar(k - 1)
  <2>1. /\ was \in Receiver /\ (st.lost => was.lost) /\ ToSet(was.seen) \subseteq old
        /\ (~was.lost /\ Correlated(st, known)) => Correlated(was, old)
    BY <1>8
  <2>2. e \in Events /\ clock <= e.epoch + EventWindow /\ at(k) = RecordEvent(was, e) /\ old \in SUBSET Events
    <3>1. k \in D /\ \A i \in 1 .. (k - 1) : i \in D
      BY <1>2
    <3>2. QED
      BY <1>2, <1>6, <3>1
  <2>3. sofar(k) = old \cup {e}
    <3>1. \A i \in 1 .. k : i \in 1 .. (k - 1) \/ i = k
      OBVIOUS
    <3>2. (1 .. (k - 1)) \subseteq (1 .. k) /\ k \in 1 .. k
      OBVIOUS
    <3>3. QED
      BY <3>1, <3>2
  <2> HIDE DEF e, was, old, at, sofar
  <2>4. Follows(at(k), was, e, old)
    BY <2>1, <2>2, RecordKeeps
  <2>5. Good(k)
    BY <2>1, <2>2, <2>3, <2>4 DEF Follows
  <2>6. QED
    BY <2>5
<1>9. n \in G
  <2>1. \A k \in 1 .. n : k - 1 \in G => k \in G
    BY <1>8
  <2> HIDE DEF G
  <2>2. n \in 0 .. n
    BY <1>2
  <2>3. QED
    BY <1>2, <1>7, <2>1, <2>2, Stepwise
<1>10. at(n) = FoldLeft(RecordEvent, st, events) /\ sofar(n) = known \cup ToSet(events)
  BY <1>1, <1>2 DEF ToSet
<1> HIDE DEF at, sofar
<1>11. QED
  BY <1>9, <1>10

\* The events of a batch come in a sequence, and none of them is too old.
LEMMA BatchIsTyped ==
  ASSUME NEW b \in Batches, NEW events \in ByTime(Admissible(b))
  PROVE  /\ events \in Seq(Events) /\ ToSet(events) \subseteq Events
         /\ \A i \in DOMAIN events : clock <= events[i].epoch + EventWindow
<1> DEFINE some == Admissible(b)
           n == Cardinality(some)
<1>1. some \in SUBSET Events /\ \A e \in some : clock <= e.epoch + EventWindow
  BY DEF Admissible, Events
<1>2. n \in Nat
  BY <1>1, EventsAreTyped, FS_Subset, FS_CardinalityType
<1>3. events \in [1 .. n -> some]
  BY DEF ByTime, SetToSeqs
<1> HIDE DEF some, n
<1>4. events \in Seq(Events)
  BY <1>1, <1>2, <1>3
<1>5. \A i \in DOMAIN events : events[i] \in some
  BY <1>3
<1>6. QED
  BY <1>1, <1>4, <1>5 DEF ToSet

\* The models of the samples kept are some of those there were, and not too many.
LEMMA NewestAreKept ==
  ASSUME NEW made \in Made, NEW kept \in Newest(made)
  PROVE  kept \in SUBSET (DOMAIN made) /\ IsFiniteSet(kept) /\ Cardinality(kept) <= MaxModels
<1>1. IsFiniteSet(DOMAIN made)
  <2>1. PICK d \in SUBSET EventModels : made \in [d -> TimedSample]
    BY DEF Made
  <2>2. IsFiniteSet(EventModels)
    <3> DEFINE f == [e \in Events |-> e.model]
    <3>1. f \in Surjection(Events, EventModels)
      BY DEF Surjection, EventModels
    <3>2. QED
      BY <3>1, EventsAreTyped, FS_Surjection
  <2>3. QED
    BY <2>1, <2>2, FS_Subset
<1>2. MaxModels \in Nat
  BY EventsAreTyped
<1>3. CASE Cardinality(DOMAIN made) <= MaxModels
  BY <1>1, <1>3 DEF Newest
<1>4. CASE ~(Cardinality(DOMAIN made) <= MaxModels)
  <2>1. kept \in SUBSET (DOMAIN made) /\ Cardinality(kept) = MaxModels
    BY <1>4 DEF Newest, kSubset
  <2>2. QED
    BY <1>1, <1>2, <2>1, FS_Subset
<1>5. QED
  BY <1>3, <1>4

\* The invariant holds of a new receiver.
LEMMA InitTelemetryInv == TelemetryInit => TelemetryInv
<1> SUFFICES ASSUME TelemetryInit PROVE TelemetryInv
  OBVIOUS
<1> USE DEF TelemetryInit
<1>1. Now = [streams |-> <<>>, seen |-> <<>>, samples |-> <<>>, origins |-> <<>>, dirty |-> FALSE, lost |-> FALSE]
  BY DEF Now
<1>2. <<>> \in Made /\ <<>> \in Origin
  <2>1. <<>> \in [{} -> TimedSample] /\ <<>> \in [{} -> EventKeys]
    OBVIOUS
  <2>2. QED
    BY <2>1 DEF Made, Origin
<1>3. DOMAIN <<>> = {} /\ Len(<<>>) = 0
  OBVIOUS
<1>4. Now \in Receiver
  <2>1. Now \in ReceiverShape
    BY <1>1, <1>2 DEF ReceiverShape
  <2>2. OneStreamPerKey(<<>>)
    BY <1>3 DEF OneStreamPerKey
  <2>3. WithinBounds(Now)
    BY <1>1, <1>3, <2>2, EventsAreTyped DEF WithinBounds
  <2>4. QED
    BY <2>1, <2>3 DEF Receiver
<1>5. ToSet(<<>>) = {}
  BY <1>3 DEF ToSet
<1>6. Correlated(Now, admitted)
  BY <1>1, <1>3, <1>5 DEF Correlated, StreamsFollow, SamplesAreTimed
<1>7. IsFiniteSet(DOMAIN <<>>) /\ Cardinality(DOMAIN <<>>) = 0
  BY <1>3, FS_EmptySet
<1>8. QED
  <2>1. clock \in 0 .. LastTick /\ deliveries \in [Batches -> 0 .. MaxDeliveries]
    BY EventsAreTyped
  <2>2. admitted \subseteq Events /\ forgotten \in BOOLEAN /\ ToSet(seenEvents) \subseteq admitted
    BY <1>5
  <2>3. IsFiniteSet(DOMAIN samples) /\ Cardinality(DOMAIN samples) <= MaxModels
    BY <1>3, <1>7, EventsAreTyped
  <2>4. samplesFile \in Made /\ IsFiniteSet(DOMAIN samplesFile) /\ Cardinality(DOMAIN samplesFile) <= MaxModels
    BY <1>2, <1>3, <1>7, EventsAreTyped
  <2>5. QED
    BY <1>4, <1>6, <2>1, <2>2, <2>3, <2>4 DEF TelemetryInv

\* What the invariant says of the receiver's state at the start of a batch.
LEMMA BaseIsReceiver ==
  ASSUME TelemetryInv
  PROVE  LET base == [streams |-> Live, seen |-> seenEvents, samples |-> samples, origins |-> origins,
                      dirty |-> dirty, lost |-> Outlived]
         IN  base \in Receiver /\ ((~forgotten /\ ~Outlived) => Correlated(base, admitted))
<1> DEFINE base == [streams |-> Live, seen |-> seenEvents, samples |-> samples, origins |-> origins,
                    dirty |-> dirty, lost |-> Outlived]
<1>1. /\ Now \in ReceiverShape /\ WithinBounds(Now) /\ clock \in Nat
      /\ ~forgotten => Correlated(Now, admitted)
  BY EventsAreTyped DEF TelemetryInv, Receiver
<1>2. /\ streams \in Seq(StreamRecord) /\ seenEvents \in Seq(Events) /\ samples \in Made
      /\ origins \in Origin /\ dirty \in BOOLEAN
      /\ OneStreamPerKey(streams) /\ Len(streams) <= MaxStreams /\ Len(seenEvents) <= MaxSeen
      /\ DOMAIN origins \subseteq DOMAIN samples /\ MaxStreams \in Nat
  BY <1>1, EventsAreTyped DEF Now, ReceiverShape, WithinBounds
<1>3. /\ Live \in Seq(StreamRecord) /\ OneStreamPerKey(Live) /\ Len(Live) <= Len(streams)
      /\ ToSet(Live) = {s \in ToSet(streams) : s.epoch + EventWindow >= clock}
      /\ Outlived \in BOOLEAN
  BY <1>1, <1>2, LiveIs DEF Outlived
<1>4. base \in Receiver
  <2>1. Len(Live) <= MaxStreams
    <3>1. Len(Live) \in Nat /\ Len(streams) \in Nat
      BY <1>2, <1>3
    <3>2. QED
      BY <1>2, <1>3, <3>1
  <2>2. QED
    BY <1>2, <1>3, <2>1 DEF Receiver, ReceiverShape, WithinBounds
<1>5. ASSUME ~forgotten, ~Outlived PROVE Correlated(base, admitted)
  <2>1. /\ StreamsFollow(ToSet(streams), admitted) /\ SamplesAreTimed(samples, origins, admitted)
    BY <1>1, <1>5 DEF Correlated, Now
  <2>2. admitted \subseteq Events
    BY DEF TelemetryInv
  <2>3. StreamsFollow(ToSet(Live), admitted)
    <3>1. ASSUME NEW e \in admitted, \A s \in ToSet(Live) : s.key # Key(e)
          PROVE  e.epoch + EventWindow < clock
      <4>1. CASE \A s \in ToSet(streams) : s.key # Key(e)
        BY <2>1, <4>1 DEF StreamsFollow
      <4>2. CASE \E s \in ToSet(streams) : s.key = Key(e)
        <5>1. PICK s \in ToSet(streams) : s.key = Key(e)
          BY <4>2
        <5>2. s.epoch \in Nat
          <6>1. s \in StreamRecord
            BY <1>2 DEF ToSet
          <6>2. QED
            BY <6>1 DEF StreamRecord
        <5>3. e.epoch <= s.epoch /\ ~(s.epoch + EventWindow >= clock)
          BY <1>3, <2>1, <3>1, <5>1 DEF StreamsFollow
        <5>4. e.epoch \in Nat /\ EventWindow \in Nat
          BY <2>2, EventsAreTyped
        <5>5. QED
          BY <1>1, <5>2, <5>3, <5>4
      <4>3. QED
        BY <4>1, <4>2
    <3>2. ASSUME NEW a \in admitted, a.kind = "start", \A s \in ToSet(Live) : s.key # Key(a)
          PROVE  \E c \in admitted : Key(c) = Key(a) /\ c.kind # "start" /\ a.epoch <= c.epoch
      <4>1. CASE \A s \in ToSet(streams) : s.key # Key(a)
        BY <2>1, <3>2, <4>1 DEF StreamsFollow
      <4>2. CASE \E s \in ToSet(streams) : s.key = Key(a)
        <5>1. PICK s \in ToSet(streams) : s.key = Key(a)
          BY <4>2
        <5>2. s.epoch \in Nat /\ EventWindow \in Nat /\ a # NoEvent
          <6>1. s \in StreamRecord
            BY <1>2 DEF ToSet
          <6>2. QED
            BY <2>2, <6>1, EventsAreTyped DEF StreamRecord
        <5>3. ~(s.epoch + EventWindow >= clock)
          BY <1>3, <3>2, <5>1
        <5>4. s.epoch + EventWindow < clock
          BY <1>1, <5>2, <5>3
        <5>5. s.pending = NoEvent /\ ~s.ambiguous
          BY <1>5, <5>1, <5>4 DEF Outlived, InUse
        <5>6. EndedBetween(a, s.epoch, admitted)
          BY <2>1, <3>2, <5>1, <5>2, <5>5 DEF StreamsFollow
        <5>7. QED
          BY <5>6 DEF EndedBetween
      <4>3. QED
        BY <4>1, <4>2
    <3>3. QED
      BY <1>3, <2>1, <3>1, <3>2 DEF StreamsFollow
  <2>4. QED
    BY <2>1, <2>3 DEF Correlated
<1>6. QED
  BY <1>4, <1>5

\* A batch is recorded under the lock.
LEMMA ReceiveKeeps ==
  ASSUME TelemetryInv, NEW b \in Batches, Receive(b)
  PROVE  TelemetryInv'
<1> DEFINE base == [streams |-> Live, seen |-> seenEvents, samples |-> samples, origins |-> origins,
                    dirty |-> dirty, lost |-> Outlived]
<1>1. /\ base \in Receiver /\ ((~forgotten /\ ~Outlived) => Correlated(base, admitted))
      /\ base.seen = seenEvents /\ base.lost = Outlived
  BY BaseIsReceiver
<1>2. /\ admitted \in SUBSET Events /\ ToSet(seenEvents) \subseteq admitted /\ clock \in Nat
      /\ forgotten \in BOOLEAN /\ clock \in 0 .. LastTick
  BY EventsAreTyped DEF TelemetryInv
<1>3. PICK events \in ByTime(Admissible(b)) :
        /\ streams' = Recorded(events).streams /\ seenEvents' = Recorded(events).seen
        /\ dirty' = Recorded(events).dirty
        /\ \E kept \in Newest(Recorded(events).samples) :
              /\ samples' = Restrict(Recorded(events).samples, kept)
              /\ origins' = Restrict(Recorded(events).origins, kept \cap DOMAIN Recorded(events).origins)
        /\ admitted' = admitted \cup ToSet(events)
        /\ forgotten' = (forgotten \/ Recorded(events).lost)
  BY DEF Receive
<1> DEFINE st == Recorded(events)
<1>4. /\ events \in Seq(Events) /\ ToSet(events) \subseteq Events
      /\ \A i \in DOMAIN events : clock <= events[i].epoch + EventWindow
  BY BatchIsTyped
<1>5. st = FoldLeft(RecordEvent, base, events)
  BY DEF Recorded
<1> HIDE DEF base, st
<1>6. /\ st \in Receiver /\ ToSet(st.seen) \subseteq admitted'
      /\ (~st.lost /\ ~forgotten) => Correlated(st, admitted')
  <2>1. /\ st \in Receiver /\ ToSet(st.seen) \subseteq admitted \cup ToSet(events)
        /\ (base.lost => st.lost)
        /\ (~st.lost /\ Correlated(base, admitted)) => Correlated(st, admitted \cup ToSet(events))
    BY <1>1, <1>2, <1>4, <1>5, FoldKeeps
  <2>2. admitted' = admitted \cup ToSet(events)
    BY <1>3
  <2>3. ~st.lost /\ ~forgotten => Correlated(base, admitted)
    BY <1>1, <2>1
  <2>4. QED
    BY <1>1, <2>1, <2>2, <2>3
<1>7. PICK kept \in Newest(st.samples) :
        /\ samples' = Restrict(st.samples, kept)
        /\ origins' = Restrict(st.origins, kept \cap DOMAIN st.origins)
  BY <1>3 DEF st
<1>8. /\ st \in ReceiverShape /\ WithinBounds(st) /\ st.samples \in Made /\ st.origins \in Origin
      /\ st.lost \in BOOLEAN
  BY <1>6 DEF Receiver, ReceiverShape
<1>9. kept \in SUBSET (DOMAIN st.samples) /\ IsFiniteSet(kept) /\ Cardinality(kept) <= MaxModels
  BY <1>8, NewestAreKept
<1>10. /\ DOMAIN samples' = kept /\ \A m \in kept : samples'[m] = st.samples[m]
       /\ DOMAIN origins' = kept \cap DOMAIN st.origins
       /\ \A m \in kept \cap DOMAIN st.origins : origins'[m] = st.origins[m]
  BY <1>7 DEF Restrict
<1>11. samples' \in Made /\ origins' \in Origin
  <2>1. PICK d \in SUBSET EventModels : st.samples \in [d -> TimedSample]
    BY <1>8 DEF Made
  <2>2. PICK c \in SUBSET EventModels : st.origins \in [c -> EventKeys]
    BY <1>8 DEF Origin
  <2>3. samples' \in [kept -> TimedSample] /\ kept \in SUBSET EventModels
    BY <1>7, <1>9, <2>1 DEF Restrict
  <2>4. origins' \in [kept \cap c -> EventKeys] /\ (kept \cap c) \in SUBSET EventModels
    BY <1>7, <2>2 DEF Restrict
  <2>5. QED
    BY <2>3, <2>4 DEF Made, Origin
<1>12. /\ streams' = st.streams /\ seenEvents' = st.seen /\ dirty' = st.dirty
       /\ admitted' = admitted \cup ToSet(events) /\ forgotten' = (forgotten \/ st.lost)
       /\ clock' = clock /\ samplesFile' = samplesFile
       /\ deliveries' = [deliveries EXCEPT ![b] = @ + 1] /\ deliveries[b] < MaxDeliveries
  BY <1>3 DEF Receive, st
<1>13. Now' \in Receiver
  <2>1. Now' = [streams |-> st.streams, seen |-> st.seen, samples |-> samples', origins |-> origins',
                dirty |-> st.dirty, lost |-> FALSE]
    BY <1>12 DEF Now
  <2>2. QED
    BY <1>8, <1>10, <1>11, <2>1 DEF Receiver, ReceiverShape, WithinBounds
<1>14. ~forgotten' => Correlated(Now, admitted)'
  <2>1. ASSUME ~forgotten' PROVE Correlated(Now, admitted)'
    <3>1. StreamsFollow(ToSet(st.streams), admitted') /\ SamplesAreTimed(st.samples, st.origins, admitted')
      BY <1>6, <1>12, <2>1 DEF Correlated
    <3>2. SamplesAreTimed(samples', origins', admitted')
      <4>1. DOMAIN origins' = DOMAIN samples'
        BY <1>9, <1>10, <3>1 DEF SamplesAreTimed
      <4>2. \A m \in DOMAIN samples' : IsTimed(m, samples'[m], origins'[m], admitted')
        BY <1>9, <1>10, <3>1, <4>1 DEF SamplesAreTimed
      <4>3. QED
        BY <4>1, <4>2 DEF SamplesAreTimed
    <3>3. StreamsFollow(ToSet(streams), admitted)'
      BY <1>12, <3>1 DEF StreamsFollow
    <3>4. SamplesAreTimed(samples, origins, admitted)'
      BY <3>2 DEF SamplesAreTimed, IsTimed
    <3>5. QED
      BY <3>3, <3>4 DEF Correlated, Now
  <2>2. QED
    BY <2>1
<1>15. /\ deliveries' \in [Batches -> 0 .. MaxDeliveries] /\ admitted' \subseteq Events
       /\ forgotten' \in BOOLEAN /\ clock' \in 0 .. LastTick
  <2>1. deliveries \in [Batches -> 0 .. MaxDeliveries]
    BY DEF TelemetryInv
  <2>2. deliveries[b] + 1 \in 0 .. MaxDeliveries
    BY <1>12, <2>1, EventsAreTyped
  <2>3. QED
    BY <1>2, <1>4, <1>8, <1>12, <2>1, <2>2
<1>16. /\ samplesFile' \in Made /\ IsFiniteSet(DOMAIN samplesFile') /\ Cardinality(DOMAIN samplesFile') <= MaxModels
  BY <1>12 DEF TelemetryInv
<1>17. ToSet(seenEvents') \subseteq admitted'
  BY <1>6, <1>12
<1>18. QED
  BY <1>9, <1>10, <1>13, <1>14, <1>15, <1>16, <1>17 DEF TelemetryInv

\* What the invariant says of a state that is not forgotten, in the names of its parts.
LEMMA Parts ==
  ASSUME TelemetryInv
  PROVE  /\ streams \in Seq(StreamRecord) /\ seenEvents \in Seq(Events) /\ samples \in Made
         /\ origins \in Origin /\ dirty \in BOOLEAN
         /\ OneStreamPerKey(streams) /\ Len(streams) <= MaxStreams /\ Len(seenEvents) <= MaxSeen
         /\ DOMAIN origins \subseteq DOMAIN samples
         /\ ~forgotten => /\ StreamsFollow(ToSet(streams), admitted)
                          /\ SamplesAreTimed(samples, origins, admitted)
<1>1. Now \in ReceiverShape /\ WithinBounds(Now) /\ (~forgotten => Correlated(Now, admitted))
  BY DEF TelemetryInv, Receiver
<1>2. QED
  BY <1>1 DEF Now, ReceiverShape, WithinBounds, Correlated

\* A checkpoint changes nothing of what is known.
LEMMA CheckpointKeeps == TelemetryInv /\ CheckpointSamples => TelemetryInv'
<1> SUFFICES ASSUME TelemetryInv, CheckpointSamples PROVE TelemetryInv'
  OBVIOUS
<1>1. /\ samplesFile' = samples /\ dirty' = FALSE
      /\ UNCHANGED <<clock, deliveries, streams, seenEvents, samples, origins, admitted, forgotten,
                     telemetryRestarts>>
  BY DEF CheckpointSamples
<1>2. Now' = [streams |-> streams, seen |-> seenEvents, samples |-> samples, origins |-> origins,
              dirty |-> FALSE, lost |-> FALSE]
  BY <1>1 DEF Now
<1>3. Now \in Receiver /\ (~forgotten => Correlated(Now, admitted))
  BY DEF TelemetryInv
<1>4. Now' \in Receiver
  BY <1>2, Parts DEF Receiver, ReceiverShape, WithinBounds
<1>5. ~forgotten' => Correlated(Now, admitted)'
  BY <1>1, <1>3 DEF Now, Correlated, StreamsFollow, SamplesAreTimed, IsTimed
<1>6. samples \in Made
  BY Parts
<1>7. QED
  BY <1>1, <1>4, <1>5, <1>6 DEF TelemetryInv

\* A new receiver knows the samples of the file, and that the rest is lost.
LEMMA RestartReceiverKeeps == TelemetryInv /\ RestartReceiver => TelemetryInv'
<1> SUFFICES ASSUME TelemetryInv, RestartReceiver PROVE TelemetryInv'
  OBVIOUS
<1>1. /\ samples' = samplesFile /\ origins' = <<>> /\ dirty' = FALSE /\ streams' = <<>>
      /\ seenEvents' = <<>> /\ forgotten' = TRUE
      /\ UNCHANGED <<clock, deliveries, samplesFile, admitted>>
  BY DEF RestartReceiver
<1>2. Now' = [streams |-> <<>>, seen |-> <<>>, samples |-> samplesFile, origins |-> <<>>,
              dirty |-> FALSE, lost |-> FALSE]
  BY <1>1 DEF Now
<1>3. <<>> \in Origin
  <2>1. <<>> \in [{} -> EventKeys]
    OBVIOUS
  <2>2. QED
    BY <2>1 DEF Origin
<1>4. DOMAIN <<>> = {} /\ Len(<<>>) = 0
  OBVIOUS
<1>5. Now' \in Receiver
  <2>1. Now' \in ReceiverShape
    BY <1>2, <1>3 DEF ReceiverShape, TelemetryInv
  <2>2. OneStreamPerKey(<<>>)
    BY <1>4 DEF OneStreamPerKey
  <2>3. WithinBounds(Now')
    BY <1>2, <1>4, <2>2, EventsAreTyped DEF WithinBounds
  <2>4. QED
    BY <2>1, <2>3 DEF Receiver
<1>6. ToSet(seenEvents') = {}
  BY <1>1, <1>4 DEF ToSet
<1>7. QED
  BY <1>1, <1>5, <1>6 DEF TelemetryInv

\* Time passes: what was too old stays too old.
LEMMA TickKeeps == TelemetryInv /\ Tick => TelemetryInv'
<1> SUFFICES ASSUME TelemetryInv, Tick PROVE TelemetryInv'
  OBVIOUS
<1>1. /\ clock < LastTick /\ clock' = clock + 1
      /\ UNCHANGED <<deliveries, streams, seenEvents, samples, origins, dirty, samplesFile, admitted,
                     forgotten, telemetryRestarts>>
  BY DEF Tick
<1>2. clock \in 0 .. LastTick /\ LastTick \in Nat
  BY EventsAreTyped DEF TelemetryInv
<1>3. clock' \in 0 .. LastTick
  BY <1>1, <1>2
<1>4. Now' = Now
  BY <1>1 DEF Now
<1>5. ~forgotten' => Correlated(Now, admitted)'
  <2>1. ASSUME ~forgotten' PROVE Correlated(Now, admitted)'
    <3>1. StreamsFollow(ToSet(streams), admitted) /\ SamplesAreTimed(samples, origins, admitted)
          /\ admitted \subseteq Events
      BY <1>1, <2>1, Parts DEF TelemetryInv
    <3>2. \A e \in admitted : e.epoch + EventWindow < clock => e.epoch + EventWindow < clock'
      BY <1>1, <1>2, <3>1, EventsAreTyped
    <3>3. StreamsFollow(ToSet(streams), admitted)'
      BY <1>1, <3>1, <3>2 DEF StreamsFollow
    <3>4. SamplesAreTimed(samples, origins, admitted)'
      BY <1>1, <3>1 DEF SamplesAreTimed, IsTimed
    <3>5. QED
      BY <3>3, <3>4 DEF Correlated, Now
  <2>2. QED
    BY <2>1
<1>6. Now' \in Receiver
  BY <1>4 DEF TelemetryInv
<1>7. QED
  BY <1>1, <1>3, <1>5, <1>6 DEF TelemetryInv

\* Every step of the receiver keeps the invariant.
LEMMA NextTelemetryInv == TelemetryInv /\ [TelemetryNext]_telemetryVars => TelemetryInv'
<1>1. ASSUME TelemetryInv, UNCHANGED telemetryVars PROVE TelemetryInv'
  <2>1. UNCHANGED <<clock, deliveries, streams, seenEvents, samples, origins, dirty, samplesFile,
                    admitted, forgotten, telemetryRestarts>>
    BY <1>1 DEF telemetryVars
  <2>2. Now' = Now
    BY <2>1 DEF Now
  <2>3. ~forgotten' => Correlated(Now, admitted)'
    BY <1>1, <2>1, <2>2 DEF TelemetryInv, Correlated, StreamsFollow, SamplesAreTimed, IsTimed, Now
  <2>4. QED
    BY <1>1, <2>1, <2>2, <2>3 DEF TelemetryInv
<1>2. ASSUME TelemetryInv, TelemetryNext PROVE TelemetryInv'
  BY <1>2, ReceiveKeeps, CheckpointKeeps, RestartReceiverKeeps, TickKeeps DEF TelemetryNext
<1>3. QED
  BY <1>1, <1>2

\* For any batches delivered any number of times in any order, streams and samples follow
\* what is known, until a stream is lost (codex_telemetry/state.py:62).
THEOREM TelemetryInvariance == TelemetrySpec => []TelemetryInv
  BY InitTelemetryInv, NextTelemetryInv, PTL DEF TelemetrySpec

\* The invariant gives the property the runs check.
LEMMA TelemetryInvTimes == TelemetryInv => SamplesTimeOneRequest
<1> SUFFICES ASSUME TelemetryInv, NEW m \in DOMAIN samples, ~forgotten,
                    samples[m].start.request # samples[m].end.request
             PROVE  \/ \E a \in Events : /\ IsSendOf(a, samples[m].end)
                                          /\ EndedBetween(a, samples[m].start.epoch, admitted)
                    \/ \E e \in {x \in Events \ admitted : Key(x) = Key(samples[m].end)} :
                         \/ IsSendOf(e, samples[m].end)
                         \/ samples[m].start.epoch < e.epoch /\ e.epoch < samples[m].end.epoch
  BY DEF SamplesTimeOneRequest
<1> DEFINE s == samples[m]
<1>1. IsTimed(m, s, origins[m], admitted) /\ admitted \subseteq Events
  BY Parts DEF SamplesAreTimed, TelemetryInv
<1>2. /\ s.start \in Events /\ s.end \in Events /\ Key(s.start) = Key(s.end)
      /\ Key(s.end) = origins[m] /\ s.end.kind = "complete"
  BY <1>1 DEF IsTimed
<1>3. PICK a \in Events : IsSendOf(a, s.end)
  BY <1>2, TelemetryAssumption
<1>4. /\ a.kind = "start" /\ Key(a) = Key(s.end) /\ a.request = s.end.request /\ a.epoch < s.end.epoch
      /\ a # s.start /\ a.epoch \in Nat /\ s.start.epoch \in Nat
  BY <1>2, <1>3, EventsAreTyped DEF IsSendOf
<1>5. CASE a \notin admitted
  BY <1>3, <1>4, <1>5
<1>6. CASE a \in admitted
  <2>1. ~(s.start.epoch < a.epoch)
    BY <1>1, <1>2, <1>4, <1>6 DEF IsTimed
  <2>2. a.epoch <= s.start.epoch
    BY <1>4, <2>1
  <2>3. EndedBetween(a, s.start.epoch, admitted)
    BY <1>1, <1>2, <1>4, <1>6, <2>2 DEF IsTimed
  <2>4. QED
    BY <1>3, <2>3
<1>7. QED
  BY <1>5, <1>6

\* A published sample times one request, unless the end of a third hid that two overlap, an
\* event of its stream is missing still, or a stream was lost (codex_telemetry/state.py:80).
THEOREM SamplesAreSound == TelemetrySpec => []SamplesTimeOneRequest
  BY TelemetryInvariance, TelemetryInvTimes, PTL

\* The receiver stays within its limits, with one stream per key (state.py:25).
THEOREM TelemetryKeepsTypes == TelemetrySpec => []TelemetryTypeOK
<1>1. TelemetryInv => TelemetryTypeOK
  <2> SUFFICES ASSUME TelemetryInv PROVE TelemetryTypeOK
    OBVIOUS
  <2>1. QED
    BY Parts DEF TelemetryInv, TelemetryTypeOK, OneStreamPerKey
<1>2. QED
  BY <1>1, TelemetryInvariance, PTL

-------------------------------------------------------------------------------
(* DSH: calls are reported once. *)

Markers == {s.marker : s \in SettledSamples}
CallSet == [valid : BOOLEAN, markers : SUBSET Markers]
Fresh == {s \in SettledCalls(cache) : s.marker \notin seen.markers}

DshTypes ==
    /\ logged \in [Paths -> Nat] /\ cache \in [Paths -> Nat]
    /\ \A p \in Paths : logged[p] \in 0 .. 2 * Len(Logs[p].records)
                        /\ cache[p] \in 0 .. Len(Logs[p].records)
    /\ dshPc \in {"idle", "save", "report"} /\ dshShown \in {"available", "error"}
    /\ dshWindow \in DshRegistry!Stabilizer
    /\ seen \in CallSet /\ seenFile = seen /\ (~seen.valid => seen.markers = {})
    /\ found \in SUBSET SettledSamples
    /\ dshRows \in [Calls -> Nat] /\ dshFaults \in 0 .. MaxDshFaults

\* What is about to be saved, and what is about to be reported.
DshPollsAreOrdered ==
    /\ dshPc = "idle" => found = {}
    /\ dshPc = "save" =>
         /\ nextSeen = [valid |-> TRUE, markers |-> seen.markers \cup {s.marker : s \in Fresh}]
         /\ found = IF seen.valid THEN Fresh ELSE {}
    /\ dshPc = "report" => \A s \in found : s.marker \in seen.markers

\* A call is stored only when its marker is remembered, and not before it is reported.
RowsAreOnce ==
    /\ \A c \in Calls : dshRows[c] \in {0, CallTokens[c]}
    /\ \A s \in SettledSamples : s.marker \notin seen.markers => dshRows[s.call] = 0
    /\ \A s \in found : dshRows[s.call] = 0

\* What is remembered was taken for known, is stored or is about to be reported.
NothingIsMissed ==
    \A s \in SettledSamples :
        s.marker \in seen.markers /\ s.call \notin dshBase =>
            dshRows[s.call] = CallTokens[s.call] \/ (dshPc = "report" /\ s \in found)

DshInv ==
    /\ DshTypes /\ DshPollsAreOrdered
    /\ "lost" \notin dshCause => RowsAreOnce
    /\ dshCause = {} => NothingIsMissed

\* What the assumption says of the settled calls.
LEMMA CallsAreTold ==
  /\ \A s \in SettledSamples : s.call \in Calls /\ s.tokens = CallTokens[s.call] /\ s.tokens \in Nat
                               /\ s.marker \in Markers
  /\ \A s, t \in SettledSamples : s.marker = t.marker => s = t
  /\ \A s, t \in SettledSamples : s.call = t.call => s = t
  BY DshAssumption DEF MarkersTellCalls, Markers

\* What the logs show is of the calls they may show.
LEMMA ReadingsAreSettled ==
  ASSUME NEW read \in [Paths -> Nat], \A p \in Paths : read[p] \in 0 .. Len(Logs[p].records)
  PROVE  SettledCalls(read) \in SUBSET SettledSamples
<1>1. ASSUME NEW s \in SettledCalls(read) PROVE s \in SettledSamples
  <2>1. s \in Sessions(read) /\ s.settled
    BY DEF SettledCalls
  <2>2. PICK p \in Paths : read[p] > 0 /\ s \in Session(p, read[p])
    BY <2>1 DEF Sessions
  <2>3. read[p] \in 1 .. Len(Logs[p].records)
    BY <2>2, DshAssumption
  <2> DEFINE n == read[p]
  <2>4. s \in UNION {Session(p, k) : k \in 1 .. Len(Logs[p].records)}
    BY <2>2, <2>3
  <2>5. QED
    BY <2>1, <2>4 DEF SettledSamples
<1>2. QED
  BY <1>1

\* The registry's window stays a window.
LEMMA DshRegistryTypes ==
  /\ DshRegistry!Confirmed("available") \in DshRegistry!Stabilizer
  /\ \A w \in DshRegistry!Stabilizer, c \in {"available", "error"} :
        DshRegistry!Observe(w, c, FALSE) \in DshRegistry!Stabilizer
<1>1. DshRegistry!Status = {"available", "error"}
  BY DEF DshRegistry!Status
<1>2. \A c \in DshRegistry!Status : DshRegistry!Confirmed(c) \in DshRegistry!Stabilizer
  BY DEF DshRegistry!Confirmed, DshRegistry!Stabilizer
<1>3. ASSUME NEW w \in DshRegistry!Stabilizer, NEW c \in DshRegistry!Status
      PROVE  DshRegistry!Observe(w, c, FALSE) \in DshRegistry!Stabilizer
  <2> DEFINE count == IF w.pending = c THEN w.count + 1 ELSE 1
  <2>1. count \in Nat
    BY DEF DshRegistry!Stabilizer
  <2>2. [w EXCEPT !.pending = c, !.count = count] \in DshRegistry!Stabilizer
    BY <2>1 DEF DshRegistry!Stabilizer
  <2>3. DshRegistry!Observe(w, c, FALSE) \in {DshRegistry!Confirmed(c), [w EXCEPT !.pending = c, !.count = count]}
    BY DEF DshRegistry!Observe
  <2>4. QED
    BY <1>2, <2>2, <2>3
<1>4. QED
  BY <1>1, <1>2, <1>3

\* The tokens of no call, and of one.
LEMMA TokensOfNone ==
  MapThenSumSet(LAMBDA s : s.tokens, {}) = 0
<1> DEFINE Sums(g) == g = [r \in SUBSET {} |-> IF r = {} THEN 0
                                               ELSE (CHOOSE x \in r : TRUE).tokens + g[r \ {CHOOSE x \in r : TRUE}]]
           h == CHOOSE g : Sums(g)
<1>1. MapThenSumSet(LAMBDA s : s.tokens, {}) = h[{}]
  BY DEF MapThenSumSet, MapThenFoldSet
<1>2. Sums(h)
  <2> DEFINE g == [r \in SUBSET {} |-> 0]
  <2>1. Sums(g)
    OBVIOUS
  <2>2. QED
    BY <2>1
<1> HIDE DEF h
<1>3. QED
  BY <1>1, <1>2

\* One call counts with its own usage.
LEMMA TokensOfOne ==
  ASSUME NEW t, t.tokens \in Nat
  PROVE  MapThenSumSet(LAMBDA s : s.tokens, {t}) = t.tokens
<1> DEFINE Sums(g) == g = [r \in SUBSET {t} |-> IF r = {} THEN 0
                                                ELSE (CHOOSE x \in r : TRUE).tokens + g[r \ {CHOOSE x \in r : TRUE}]]
           h == CHOOSE g : Sums(g)
<1>1. MapThenSumSet(LAMBDA s : s.tokens, {t}) = h[{t}]
  BY DEF MapThenSumSet, MapThenFoldSet
<1>2. \A r \in SUBSET {t} : r = {} \/ (r = {t} /\ (CHOOSE x \in r : TRUE) = t /\ r \ {CHOOSE x \in r : TRUE} = {})
  <2>1. (CHOOSE x \in {t} : TRUE) = t
    OBVIOUS
  <2>2. QED
    BY <2>1
<1>3. Sums(h)
  <2> DEFINE g == [r \in SUBSET {t} |-> IF r = {} THEN 0 ELSE t.tokens]
  <2>1. ASSUME NEW r \in SUBSET {t}
        PROVE  g[r] = IF r = {} THEN 0 ELSE (CHOOSE x \in r : TRUE).tokens + g[r \ {CHOOSE x \in r : TRUE}]
    <3>1. CASE r = {}
      BY <3>1
    <3>2. CASE r # {}
      <4>1. (CHOOSE x \in r : TRUE) = t /\ r \ {CHOOSE x \in r : TRUE} = {}
        BY <1>2, <3>2
      <4>2. g[r] = t.tokens /\ g[r \ {CHOOSE x \in r : TRUE}] = 0
        BY <3>2, <4>1
      <4> HIDE DEF g
      <4>3. QED
        BY <3>2, <4>1, <4>2
    <3>3. QED
      BY <3>1, <3>2
  <2>2. Sums(g)
    BY <2>1
  <2>3. QED
    BY <2>2
<1> HIDE DEF h
<1>4. h[{}] = 0
  BY <1>3
<1>5. h[{t}] = t.tokens + 0
  <2>1. h[{t}] = (CHOOSE x \in {t} : TRUE).tokens + h[{t} \ {CHOOSE x \in {t} : TRUE}]
    BY <1>3
  <2>2. (CHOOSE x \in {t} : TRUE) = t /\ {t} \ {t} = {}
    OBVIOUS
  <2>3. QED
    BY <1>4, <2>1, <2>2
<1>6. QED
  BY <1>1, <1>5

\* What a report adds to the rows of a call.
LEMMA RowsAdded ==
  ASSUME NEW calls \in SUBSET SettledSamples, NEW c
  PROVE  LET added == MapThenSumSet(LAMBDA s : s.tokens, {s \in calls : s.call = c})
         IN  /\ added \in Nat
             /\ \A s \in calls : s.call = c => added = CallTokens[c]
             /\ (\A s \in calls : s.call # c) => added = 0
<1> DEFINE own == {s \in calls : s.call = c}
<1>1. CASE \A s \in calls : s.call # c
  <2>1. own = {}
    BY <1>1
  <2>2. QED
    BY <1>1, <2>1, TokensOfNone
<1>2. CASE \E s \in calls : s.call = c
  <2>1. PICK t \in calls : t.call = c
    BY <1>2
  <2>2. own = {t} /\ t.tokens = CallTokens[c] /\ t.tokens \in Nat
    BY <2>1, CallsAreTold
  <2>3. MapThenSumSet(LAMBDA s : s.tokens, {t}) = t.tokens
    BY <2>2, TokensOfOne
  <2>4. QED
    BY <2>1, <2>2, <2>3
<1>3. QED
  BY <1>1, <1>2

\* The invariant holds before the first poll.
LEMMA InitDshInv == DshInit => DshInv
<1> SUFFICES ASSUME DshInit PROVE DshInv
  OBVIOUS
<1> USE DEF DshInit
<1>1. seen.valid = FALSE /\ seen.markers = {} /\ seen \in CallSet
  BY DEF NoSet, CallSet
<1>2. DshTypes
  BY <1>1, DshRegistryTypes, DshAssumption DEF DshTypes
<1>3. DshPollsAreOrdered
  BY DEF DshPollsAreOrdered
<1>4. RowsAreOnce
  BY CallsAreTold DEF RowsAreOnce
<1>5. NothingIsMissed
  BY <1>1 DEF NothingIsMissed
<1>6. QED
  BY <1>2, <1>3, <1>4, <1>5 DEF DshInv

\* A poll reads the logs and leaves what was remembered and stored.
LEMMA PollKeeps ==
  ASSUME DshInv, NEW unreadable \in SUBSET Paths, PollDsh(unreadable)
  PROVE  DshInv'
<1>1. DshTypes /\ dshPc = "idle" /\ found = {}
  BY DEF DshInv, DshPollsAreOrdered, PollDsh
<1>2. /\ cache' = CacheAfter(unreadable)
      /\ UNCHANGED <<logged, seen, seenFile, dshWindow, dshRows, dshBase, dshCause>>
  BY DEF PollDsh
<1>3. /\ cache' \in [Paths -> Nat] /\ \A p \in Paths : cache'[p] \in 0 .. Len(Logs[p].records)
  <2>1. ASSUME NEW p \in Paths PROVE cache'[p] \in 0 .. Len(Logs[p].records)
    <3>1. cache'[p] = IF logged[p] = 0 THEN 0
                      ELSE IF logged[p] % 2 = 1 \/ p \in unreadable THEN cache[p] ELSE logged[p] \div 2
      BY <1>2 DEF CacheAfter
    <3>2. logged[p] \in 0 .. 2 * Len(Logs[p].records) /\ cache[p] \in 0 .. Len(Logs[p].records)
          /\ Len(Logs[p].records) \in Nat
      BY <1>1, DshAssumption DEF DshTypes
    <3>3. QED
      BY <3>1, <3>2
  <2>2. \A p \in Paths : cache'[p] \in Nat
    BY <2>1, DshAssumption
  <2>3. QED
    BY <1>2, <2>1, <2>2 DEF CacheAfter
<1>4. SettledCalls(cache') \in SUBSET SettledSamples
  BY <1>3, ReadingsAreSettled
<1>5. dshFaults' \in 0 .. MaxDshFaults
  BY <1>1, DshAssumption DEF DshTypes, PollDsh
<1> DEFINE fresh == {s \in SettledCalls(cache') : s.marker \notin seen.markers}
<1>6. \/ /\ found' = {} /\ dshPc' = "report" /\ dshShown' \in {"available", "error"}
      \/ /\ nextSeen' = [valid |-> TRUE, markers |-> seen.markers \cup {s.marker : s \in fresh}]
         /\ found' = (IF seen.valid THEN fresh ELSE {})
         /\ dshPc' = "save" /\ dshShown' \in {"available", "error"}
  <2>1. CASE \A p \in Paths : cache'[p] = 0
    BY <1>1, <2>1 DEF PollDsh
  <2>2. CASE ~ \A p \in Paths : cache'[p] = 0
    <3>1. /\ nextSeen' = [valid |-> TRUE, markers |-> seen.markers \cup {s.marker : s \in fresh}]
          /\ found' = (IF seen.valid THEN fresh ELSE {})
          /\ dshPc' = (IF nextSeen' = seen THEN "report" ELSE "save")
          /\ dshShown' \in {"available", "error"}
      BY <1>1, <2>2 DEF PollDsh, DshTypes
    <3>2. CASE nextSeen' = seen
      <4>1. seen.markers = seen.markers \cup {s.marker : s \in fresh}
        BY <3>1, <3>2
      <4>2. fresh = {}
        BY <4>1
      <4>3. QED
        BY <3>1, <3>2, <4>2
    <3>3. CASE nextSeen' # seen
      BY <3>1, <3>3
    <3>4. QED
      BY <3>2, <3>3
  <2>3. QED
    BY <2>1, <2>2
<1>7. found' \in SUBSET SettledSamples /\ \A s \in found' : s.marker \notin seen.markers
  BY <1>4, <1>6
<1>8. DshTypes'
  BY <1>1, <1>2, <1>3, <1>5, <1>6, <1>7 DEF DshTypes
<1>9. DshPollsAreOrdered'
  BY <1>2, <1>6 DEF DshPollsAreOrdered, Fresh
<1>10. "lost" \notin dshCause' => RowsAreOnce'
  BY <1>2, <1>7 DEF DshInv, RowsAreOnce
<1>11. dshCause' = {} => NothingIsMissed'
  BY <1>1, <1>2 DEF DshInv, NothingIsMissed
<1>12. QED
  BY <1>8, <1>9, <1>10, <1>11 DEF DshInv

\* What is saved is remembered: reported next, or taken for known by a first checkpoint.
LEMMA SaveKeeps == DshInv /\ SaveSeen => DshInv'
<1> SUFFICES ASSUME DshInv, SaveSeen PROVE DshInv'
  OBVIOUS
<1>1. /\ DshTypes /\ dshPc = "save"
      /\ nextSeen = [valid |-> TRUE, markers |-> seen.markers \cup {s.marker : s \in Fresh}]
      /\ found = IF seen.valid THEN Fresh ELSE {}
  BY DEF DshInv, DshPollsAreOrdered, SaveSeen
<1>2. /\ seenFile' = nextSeen /\ seen' = nextSeen
      /\ dshBase' = IF ~seen.valid THEN {s.call : s \in SettledCalls(cache)} ELSE dshBase
      /\ dshShown' = "available" /\ dshPc' = "report"
      /\ UNCHANGED <<logged, cache, found, nextSeen, dshWindow, dshRows, dshCause, dshFaults>>
  BY DEF SaveSeen
<1>3. Fresh \in SUBSET SettledSamples /\ \A s \in Fresh : s \in SettledCalls(cache)
  <2>1. SettledCalls(cache) \in SUBSET SettledSamples
    BY <1>1, ReadingsAreSettled DEF DshTypes
  <2>2. QED
    BY <2>1 DEF Fresh
<1>4. seen'.markers = seen.markers \cup {s.marker : s \in Fresh} /\ seen'.valid = TRUE
  BY <1>1, <1>2
<1>5. seen' \in CallSet
  <2>1. \A s \in Fresh : s.marker \in Markers
    BY <1>3 DEF Markers
  <2>2. seen.markers \in SUBSET Markers
    BY <1>1 DEF DshTypes, CallSet
  <2>3. QED
    BY <1>1, <1>2, <2>1, <2>2 DEF CallSet
<1>6. DshTypes'
  BY <1>1, <1>2, <1>4, <1>5 DEF DshTypes
<1>7. DshPollsAreOrdered'
  BY <1>1, <1>2, <1>4 DEF DshPollsAreOrdered
<1>8. "lost" \notin dshCause' => RowsAreOnce'
  BY <1>2, <1>4 DEF DshInv, RowsAreOnce
<1>9. dshCause' = {} => NothingIsMissed'
  <2>1. ASSUME dshCause = {}, NEW s \in SettledSamples, s.marker \in seen'.markers, s.call \notin dshBase'
        PROVE  dshRows[s.call] = CallTokens[s.call] \/ s \in found
    <3>1. CASE s.marker \in seen.markers
      <4>1. seen.valid /\ dshBase' = dshBase
        BY <1>1, <1>2, <3>1 DEF DshTypes
      <4>2. QED
        BY <1>1, <2>1, <3>1, <4>1 DEF DshInv, NothingIsMissed
    <3>2. CASE s.marker \notin seen.markers
      <4>1. PICK f \in Fresh : f.marker = s.marker
        BY <1>4, <2>1, <3>2
      <4>2. f = s
        BY <1>3, <4>1, CallsAreTold
      <4>3. seen.valid
        BY <1>2, <1>3, <2>1, <4>2
      <4>4. QED
        BY <1>1, <4>2, <4>3
    <3>3. QED
      BY <3>1, <3>2
  <2>2. QED
    BY <1>2, <2>1 DEF NothingIsMissed
<1>10. QED
  BY <1>6, <1>7, <1>8, <1>9 DEF DshInv

\* A report stores the calls found, or is withheld.
LEMMA ReportKeeps == DshInv /\ ReportCalls => DshInv'
<1> SUFFICES ASSUME DshInv, ReportCalls PROVE DshInv'
  OBVIOUS
<1>1. DshTypes /\ dshPc = "report" /\ \A s \in found : s.marker \in seen.markers
  BY DEF DshInv, DshPollsAreOrdered, ReportCalls
<1>2. /\ dshWindow' = DshRegistry!Observe(dshWindow, dshShown, FALSE)
      /\ dshPc' = "idle" /\ found' = {} /\ nextSeen' = NoSet
      /\ UNCHANGED <<logged, cache, seen, seenFile, dshShown, dshBase, dshFaults>>
  BY DEF ReportCalls
<1> DEFINE added(c) == MapThenSumSet(LAMBDA s : s.tokens, {s \in found : s.call = c})
<1>3. \/ dshRows' = [c \in Calls |-> dshRows[c] + added(c)] /\ dshCause' = dshCause
      \/ dshRows' = dshRows /\ dshCause' = DshMissed("withheld")
  BY DEF ReportCalls
<1>4. \A c \in Calls : /\ added(c) \in Nat
                       /\ \A s \in found : s.call = c => added(c) = CallTokens[c]
                       /\ (\A s \in found : s.call # c) => added(c) = 0
  <2>1. found \in SUBSET SettledSamples
    BY <1>1 DEF DshTypes
  <2>2. QED
    BY <2>1, RowsAdded
<1> HIDE DEF added
<1>5. "lost" \notin dshCause' => "lost" \notin dshCause
  BY <1>3 DEF DshMissed
<1>6. dshRows \in [Calls -> Nat] /\ CallTokens \in [Calls -> Nat] /\ found \in SUBSET SettledSamples
  BY <1>1, DshAssumption DEF DshTypes
<1>7. dshRows' \in [Calls -> Nat]
  BY <1>3, <1>4, <1>6
<1>8. DshTypes'
  BY <1>1, <1>2, <1>7, DshRegistryTypes DEF DshTypes
<1>9. DshPollsAreOrdered'
  BY <1>2 DEF DshPollsAreOrdered
<1>10. ASSUME "lost" \notin dshCause, NEW c \in Calls
       PROVE  /\ dshRows'[c] \in {0, CallTokens[c]}
              /\ (\A s \in found : s.call # c) => dshRows'[c] = dshRows[c]
              /\ dshCause' = {} => \A s \in found : s.call = c => dshRows'[c] = CallTokens[c]
  <2>1. RowsAreOnce
    BY <1>10 DEF DshInv
  <2>2. dshRows[c] \in {0, CallTokens[c]} /\ dshRows[c] \in Nat /\ CallTokens[c] \in Nat
        /\ \A s \in found : s.call = c => dshRows[c] = 0
    BY <1>6, <2>1 DEF RowsAreOnce
  <2>3. CASE dshRows' = [x \in Calls |-> dshRows[x] + added(x)]
    <3>1. dshRows'[c] = dshRows[c] + added(c)
      BY <2>3
    <3>2. CASE \A s \in found : s.call # c
      BY <1>4, <2>2, <3>1, <3>2
    <3>3. CASE \E s \in found : s.call = c
      BY <1>4, <2>2, <3>1, <3>3
    <3>4. QED
      BY <3>2, <3>3
  <2>4. CASE dshRows' = dshRows /\ dshCause' = DshMissed("withheld")
    BY <2>2, <2>4 DEF DshMissed
  <2>5. QED
    BY <1>3, <2>3, <2>4
<1>11. "lost" \notin dshCause' => RowsAreOnce'
  <2>1. ASSUME "lost" \notin dshCause, NEW s \in SettledSamples, s.marker \notin seen.markers
        PROVE  dshRows'[s.call] = 0
    <3>1. RowsAreOnce
      BY <2>1 DEF DshInv
    <3>2. dshRows[s.call] = 0 /\ s.call \in Calls
      BY <2>1, <3>1, CallsAreTold DEF RowsAreOnce
    <3>3. \A t \in found : t.call # s.call
      BY <1>1, <1>6, <2>1, CallsAreTold
    <3>4. QED
      BY <1>10, <2>1, <3>2, <3>3
  <2>2. QED
    BY <1>2, <1>5, <1>10, <2>1 DEF RowsAreOnce
<1>12. dshCause' = {} => NothingIsMissed'
  <2>1. ASSUME dshCause' = {}, NEW s \in SettledSamples, s.marker \in seen.markers, s.call \notin dshBase
        PROVE  dshRows'[s.call] = CallTokens[s.call]
    <3>1. dshCause = {} /\ "lost" \notin dshCause
      BY <1>3, <2>1 DEF DshMissed
    <3>2. dshRows[s.call] = CallTokens[s.call] \/ s \in found
      BY <2>1, <3>1 DEF DshInv, NothingIsMissed
    <3>3. s.call \in Calls
      BY CallsAreTold
    <3>4. CASE s \in found
      BY <1>10, <2>1, <3>1, <3>3, <3>4
    <3>5. CASE s \notin found
      <4>1. \A t \in found : t.call # s.call
        BY <1>6, <3>5, CallsAreTold
      <4>2. QED
        BY <1>10, <3>1, <3>2, <3>3, <3>5, <4>1
    <3>6. QED
      BY <3>4, <3>5
  <2>2. QED
    BY <1>2, <2>1 DEF NothingIsMissed
<1>13. QED
  BY <1>8, <1>9, <1>11, <1>12 DEF DshInv

\* A failed save and a restart forget the poll under way; a lost checkpoint is noted.
LEMMA LossesKeep == DshInv /\ (SaveSeenFails \/ RestartDsh) => DshInv'
<1>1. ASSUME DshInv, SaveSeenFails PROVE DshInv'
  <2>1. /\ dshPc = "save" /\ dshFaults < MaxDshFaults
        /\ dshWindow' = DshRegistry!Observe(dshWindow, "error", FALSE)
        /\ dshPc' = "idle" /\ found' = {} /\ nextSeen' = NoSet /\ dshFaults' = dshFaults + 1
        /\ UNCHANGED <<logged, cache, seen, seenFile, dshShown, dshRows, dshBase, dshCause>>
    BY <1>1 DEF SaveSeenFails
  <2>2. DshTypes
    BY <1>1 DEF DshInv
  <2>3. DshTypes'
    <3>1. dshFaults' \in 0 .. MaxDshFaults
      BY <2>1, <2>2, DshAssumption DEF DshTypes
    <3>2. dshWindow' \in DshRegistry!Stabilizer
      BY <2>1, <2>2, DshRegistryTypes DEF DshTypes
    <3>3. QED
      BY <2>1, <2>2, <3>1, <3>2 DEF DshTypes
  <2>4. DshPollsAreOrdered'
    BY <2>1 DEF DshPollsAreOrdered
  <2>5. "lost" \notin dshCause' => RowsAreOnce'
    BY <1>1, <2>1 DEF DshInv, RowsAreOnce
  <2>6. dshCause' = {} => NothingIsMissed'
    BY <1>1, <2>1 DEF DshInv, NothingIsMissed
  <2>7. QED
    BY <2>3, <2>4, <2>5, <2>6 DEF DshInv
<1>2. ASSUME DshInv, RestartDsh PROVE DshInv'
  <2>1. /\ dshFaults < MaxDshFaults /\ dshFaults' = dshFaults + 1
        /\ seenFile' \in {seenFile, NoSet} /\ seen' = seenFile'
        /\ cache' = [p \in Paths |-> 0]
        /\ dshPc' = "idle" /\ found' = {} /\ nextSeen' = NoSet
        /\ dshShown' = "available" /\ dshWindow' = DshRegistry!Confirmed("available")
        /\ dshCause' = (IF dshPc = "report" THEN DshMissed("dropped") ELSE dshCause)
                         \cup (IF seenFile' = seenFile THEN {} ELSE {"lost"})
        /\ UNCHANGED <<logged, dshRows, dshBase>>
    BY <1>2 DEF RestartDsh
  <2>2. DshTypes /\ seenFile = seen
    BY <1>2 DEF DshInv, DshTypes
  <2>3. NoSet \in CallSet /\ ~NoSet.valid /\ NoSet.markers = {}
    BY DEF NoSet, CallSet
  <2>4. DshTypes'
    <3>1. seen' \in CallSet /\ seenFile' = seen' /\ (~seen'.valid => seen'.markers = {})
      BY <2>1, <2>2, <2>3 DEF DshTypes
    <3>2. cache' \in [Paths -> Nat] /\ \A p \in Paths : cache'[p] \in 0 .. Len(Logs[p].records)
      BY <2>1, DshAssumption
    <3>3. dshFaults' \in 0 .. MaxDshFaults
      BY <2>1, <2>2, DshAssumption DEF DshTypes
    <3>4. QED
      BY <2>1, <2>2, <3>1, <3>2, <3>3, DshRegistryTypes DEF DshTypes
  <2>5. DshPollsAreOrdered'
    BY <2>1 DEF DshPollsAreOrdered
  <2>6. "lost" \notin dshCause' => "lost" \notin dshCause /\ seen' = seen
    BY <2>1, <2>2 DEF DshMissed
  <2>7. "lost" \notin dshCause' => RowsAreOnce'
    BY <1>2, <2>1, <2>6 DEF DshInv, RowsAreOnce
  <2>8. dshCause' = {} => NothingIsMissed'
    <3>1. ASSUME dshCause' = {} PROVE dshCause = {} /\ seen' = seen /\ (dshPc = "report" => found = {})
      BY <2>1, <2>2, <3>1 DEF DshMissed
    <3>2. QED
      BY <1>2, <2>1, <3>1 DEF DshInv, NothingIsMissed
  <2>9. QED
    BY <2>4, <2>5, <2>7, <2>8 DEF DshInv
<1>3. QED
  BY <1>1, <1>2

\* What does not touch the collector's sets keeps the invariant.
LEMMA OutsideKeeps ==
  ASSUME DshInv, UNCHANGED <<cache, seen, seenFile, dshPc, found, nextSeen, dshShown, dshRows, dshBase, dshCause>>,
         logged' \in [Paths -> Nat], \A p \in Paths : logged'[p] \in 0 .. 2 * Len(Logs[p].records),
         dshFaults' \in 0 .. MaxDshFaults, dshWindow' \in DshRegistry!Stabilizer
  PROVE  DshInv'
<1>1. DshTypes'
  BY DEF DshInv, DshTypes
<1>2. DshPollsAreOrdered'
  BY DEF DshInv, DshPollsAreOrdered, Fresh
<1>3. "lost" \notin dshCause' => RowsAreOnce'
  BY DEF DshInv, RowsAreOnce
<1>4. dshCause' = {} => NothingIsMissed'
  BY DEF DshInv, NothingIsMissed
<1>5. QED
  BY <1>1, <1>2, <1>3, <1>4 DEF DshInv

\* Every step of the collector and its logs keeps the invariant.
LEMMA NextDshInv == DshInv /\ [DshNext]_dshVars => DshInv'
<1> SUFFICES ASSUME DshInv, [DshNext]_dshVars PROVE DshInv'
  OBVIOUS
<1>1. /\ logged \in [Paths -> Nat] /\ dshFaults \in 0 .. MaxDshFaults /\ dshWindow \in DshRegistry!Stabilizer
      /\ dshShown \in {"available", "error"}
      /\ \A p \in Paths : logged[p] \in 0 .. 2 * Len(Logs[p].records) /\ Len(Logs[p].records) \in Nat
  BY DshAssumption DEF DshInv, DshTypes
<1>2. ASSUME UNCHANGED dshVars PROVE DshInv'
  BY <1>1, <1>2, OutsideKeeps DEF dshVars
<1>3. ASSUME ReportCachedDsh PROVE DshInv'
  BY <1>1, <1>3, OutsideKeeps, DshRegistryTypes DEF ReportCachedDsh
<1>4. ASSUME NEW p \in Paths, WriteLog(p) PROVE DshInv'
  <2>1. PICK n \in DshPauses[p] : logged' = [logged EXCEPT ![p] = n]
    BY <1>4 DEF WriteLog
  <2>2. n \in 0 .. 2 * Len(Logs[p].records) /\ n \in Nat
    BY <1>1, DshAssumption
  <2>3. /\ logged' \in [Paths -> Nat] /\ \A q \in Paths : logged'[q] \in 0 .. 2 * Len(Logs[q].records)
    BY <1>1, <2>1, <2>2
  <2>4. QED
    BY <1>1, <1>4, <2>3, OutsideKeeps DEF WriteLog
<1>5. ASSUME NEW p \in Paths, RemoveLog(p) PROVE DshInv'
  <2>1. logged' = [logged EXCEPT ![p] = 0] /\ dshFaults' = dshFaults + 1 /\ dshFaults < MaxDshFaults
    BY <1>5 DEF RemoveLog
  <2>2. /\ logged' \in [Paths -> Nat] /\ \A q \in Paths : logged'[q] \in 0 .. 2 * Len(Logs[q].records)
    BY <1>1, <2>1
  <2>3. dshFaults' \in 0 .. MaxDshFaults
    BY <1>1, <2>1, DshAssumption
  <2>4. QED
    BY <1>1, <1>5, <2>2, <2>3, OutsideKeeps DEF RemoveLog
<1>6. QED
  BY <1>2, <1>3, <1>4, <1>5, PollKeeps, SaveKeeps, ReportKeeps, LossesKeep DEF DshNext

\* For any logs whose calls can be told apart, and any number of faults: what is remembered
\* was stored, is about to be reported or was there before (dsh.py:274).
THEOREM DshInvariance == DshSpec => []DshInv
  BY InitDshInv, NextDshInv, PTL DEF DshSpec

\* A call is stored once and with its final usage or not at all while its checkpoint
\* survives, and with the next poll once it is settled (dsh.py:274).
THEOREM CallsAreStoredOnce == DshSpec => []DshCallsOnce
<1>1. DshInv => DshCallsOnce
  <2> SUFFICES ASSUME DshInv PROVE DshCallsOnce
    OBVIOUS
  <2>1. SettledCalls(cache) \in SUBSET SettledSamples
    BY ReadingsAreSettled DEF DshInv, DshTypes
  <2>2. QED
    BY <2>1 DEF DshInv, RowsAreOnce, NothingIsMissed, DshCallsOnce
<1>2. QED
  BY <1>1, DshInvariance, PTL

\* The collector's state keeps its types, and memory agrees with the checkpoint (dsh.py:250).
THEOREM DshKeepsTypes == DshSpec => []DshTypeOK
<1>1. DshInv => DshTypeOK
  BY DEF DshInv, DshTypes, DshTypeOK
<1>2. QED
  BY <1>1, DshInvariance, PTL

-------------------------------------------------------------------------------
(* The sources beside each other. *)

\* A behaviour of the four sources is one of each: they share no state, so what is proved of
\* a source alone holds beside the others (core/collectors.py).
THEOREM SourcesAreIndependent == SourcesSpec => CodexSpec /\ CountersSpec /\ DshSpec /\ TelemetrySpec
<1>1. SourcesInit => CodexInit /\ CountersInit /\ DshInit /\ TelemetryInit
  BY DEF SourcesInit
<1>2. [SourcesNext]_sourceVars =>
        [CodexNext]_codexVars /\ [CountersNext]_counterVars /\ [DshNext]_dshVars /\ [TelemetryNext]_telemetryVars
  BY DEF SourcesNext, CodexTurn, CountersTurn, DshTurn, TelemetryTurn, sourceVars
<1>3. QED
  BY <1>1, <1>2, PTL DEF SourcesSpec, CodexSpec, CountersSpec, DshSpec, TelemetrySpec

\* Each part of the collectors keeps its type, whatever the others do.
THEOREM SourcesKeepTypes == SourcesSpec => []SourcesTypeOK
<1>1. CodexTypeOK /\ CountersTypeOK /\ DshTypeOK /\ TelemetryTypeOK => SourcesTypeOK
  BY DEF SourcesTypeOK
<1>2. QED
  BY <1>1, SourcesAreIndependent, CodexKeepsTypes, CountersKeepTypes, DshKeepsTypes, TelemetryKeepsTypes, PTL
================================================================================
