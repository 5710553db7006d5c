------------------------------- MODULE CodexLedger -------------------------------
(***************************************************************************)
(* Codex usage: an incremental scan of append-only rollout files into a    *)
(* durable ledger, and the one-time migration that makes the ledger the    *)
(* source of metrics (resources/ai/codex_sampling.py, codex.py,            *)
(* app/codex_migration.py).                                                *)
(*                                                                         *)
(* A rollout is a sequence of records.  A token record reports cumulative  *)
(* and last-request counters; a forked or resumed session repeats the      *)
(* records of its parent.  The requests a record stands for are known to   *)
(* the model (rec.requests) and to no line of the code.  The four counters *)
(* of a usage move together here and are one number; times of day, models  *)
(* and hourly totals are left out.                                         *)
(***************************************************************************)
EXTENDS Naturals, Sequences, FiniteSets, Functions, SequencesExt, FiniteSetsExt

CONSTANTS
    Rollout,          \* files, by the marker of their name
    SessionIds,       \* ids of Codex sessions
    Scripts,          \* what Codex may write: a set of [Rollout -> Seq(Record)]
    Weight,           \* tokens of each request
    Pauses,           \* half-lines after which a writer may pause, per file
    ScanBudget,       \* records one poll may read
    MaxCodexFaults    \* crashes, read and save errors, moves, lost files

Requests == DOMAIN Weight
None == "none"

Names == SessionIds \cup {None}
Header == [kind : {"meta"}, session : SessionIds, parent : Names, turn : Nat,
           user : BOOLEAN, requests : {{}}]
Record == Header \cup [kind : {"turn", "task"}, turn : Nat, requests : {{}}]
                 \cup [kind : {"token"}, total : Nat, last : Nat, at : Nat, requests : SUBSET Requests]

VARIABLES
    script,           \* the records Codex writes in this behaviour
    written,          \* per file, half-lines written: odd is a torn last line
    visible,          \* per file, half-lines a reader finds (a move may hide some)
    ledger,           \* CodexUsageCollector._ledger
    stored,           \* codex-rollout-ledger.json
    codexPc,
    scan,             \* the poll under way
    availability,     \* the registry's window for this collector
    shown,            \* status of the cached snapshot
    legacyRows,       \* rows of the old collector are in the metric store
    backup,           \* the manifest of the backup is complete
    migrated,         \* the store's migration marker
    rows,             \* per request, how often the new collector's rows hold it
    historic,         \* observer: requests that entered the ledger by a rebuild
    codexCause,       \* observer: why usage may be missing or doubled
    codexFaults

codexVars == <<script, written, visible, ledger, stored, codexPc, scan, availability, shown,
               legacyRows, backup, migrated, rows, historic, codexCause, codexFaults>>
files == <<script, written, visible>>
store == <<legacyRows, backup, migrated, rows, historic>>

Window == INSTANCE StatusStabilizer
    WITH Rank <- [available |-> 0, error |-> 1], WorsenAfter <- 3, RecoverAfter <- 2

----------------------------------------------------------------------------
\* One rollout: RolloutParseState and _consume_rollout_record.

\* The state a file starts in; _rollout_identity reads the header ahead.
HeadState(records) ==
    LET head == records[1]
    IN  [session |-> head.session, parent |-> head.parent, child |-> None, childAt |-> 0,
         waiting |-> FALSE, replaySeen |-> FALSE, userFork |-> FALSE, tasks |-> {},
         baseline |-> 0, previous |-> 0]
FreshState(f) == HeadState(script[f])

ForkTurnStartsChild(st, turn) ==
    \/ ~st.replaySeen
    \/ st.child = None
    \/ turn > st.childAt
    \/ turn = st.childAt /\ (st.userFork \/ turn \in st.tasks)

TaskStartsChild(st, turn) == turn >= st.childAt

LooksStale(total, previous, last) ==
    /\ last > 0
    /\ \/ total * 100 >= previous * 98
       \/ total + last * 2 >= previous

\* While a fork replays its parent nothing is counted, and the parent's counter
\* becomes the child's baseline.
WhileWaiting(st, rec) ==
    CASE rec.kind = "turn" /\ ForkTurnStartsChild(st, rec.turn) ->
            [st EXCEPT !.waiting = FALSE, !.replaySeen = FALSE, !.tasks = {}, !.userFork = FALSE,
                       !.session = IF st.child = None THEN @ ELSE st.child]
      [] rec.kind = "task" /\ TaskStartsChild(st, rec.turn) ->
            [st EXCEPT !.tasks = @ \cup {rec.turn}]
      [] rec.kind = "meta" /\ rec.session # st.child -> [st EXCEPT !.replaySeen = TRUE]
      [] rec.kind = "token" /\ rec.total > 0 ->
            [st EXCEPT !.previous = rec.total, !.baseline = rec.total]
      [] OTHER -> st

SessionMeta(st, rec) ==
    IF rec.parent = None THEN [st EXCEPT !.session = rec.session]
    ELSE LET named == [st EXCEPT !.session = rec.session, !.parent = rec.parent,
                                 !.child = rec.session, !.childAt = rec.turn]
         IN  IF rec.session = st.child THEN named
             ELSE [named EXCEPT !.waiting = TRUE, !.replaySeen = FALSE, !.baseline = 0,
                                !.tasks = {}, !.userFork = rec.user]

\* What a token record adds: tokens, the counter to compare the next one with,
\* and whether the record is accepted at all.
TokenUsage(st, rec) ==
    LET regressed == rec.total < st.previous
        nothing == [tokens |-> 0, previous |-> st.previous]
        use(n, previous) == [tokens |-> n, previous |-> previous]
    IN  IF rec.total > 0 /\ rec.last > 0 THEN
            IF /\ st.previous > 0
               /\ \/ rec.total = st.previous
                  \/ regressed /\ LooksStale(rec.total, st.previous, rec.last)
            THEN nothing ELSE use(rec.last, rec.total)
        ELSE IF rec.total > 0 THEN
            IF st.previous = 0 THEN use(rec.total, rec.total)
            ELSE IF regressed THEN use(0, rec.total)
            ELSE use(rec.total - st.previous, rec.total)
        ELSE use(rec.last, IF st.previous = 0 THEN 0 ELSE st.previous + rec.last)

\* A copy or a resumed session reports the same counters under the same scope.
DedupKey(st, rec) ==
    <<IF st.parent # None THEN st.parent ELSE st.session,
      IF rec.total > 0 THEN <<"total", rec.total>> ELSE <<"at", rec.at, rec.last>> >>

\* acc: [state, keys, tokens, found]; found collects the requests of emitted
\* increments, in the order of the records.
CountTokens(acc, rec) ==
    LET st == acc.state
        inherited == rec.total > 0 /\ st.baseline > 0 /\ rec.total <= st.baseline
        past == [st EXCEPT !.baseline = 0]
        u == TokenUsage(past, rec)
        key == DedupKey(past, rec)
    IN  IF inherited THEN acc
        ELSE IF u.tokens = 0 THEN [acc EXCEPT !.state = [past EXCEPT !.previous = u.previous]]
        ELSE [state |-> [past EXCEPT !.previous = u.previous],
              keys |-> acc.keys \cup {key},
              tokens |-> acc.tokens + (IF key \in acc.keys THEN 0 ELSE u.tokens),
              found |-> IF key \in acc.keys THEN acc.found ELSE Append(acc.found, rec.requests)]

Consume(acc, rec) ==
    CASE acc.state.waiting -> [acc EXCEPT !.state = WhileWaiting(@, rec)]
      [] ~acc.state.waiting /\ rec.kind = "meta" -> [acc EXCEPT !.state = SessionMeta(@, rec)]
      [] ~acc.state.waiting /\ rec.kind = "token" /\ rec.total + rec.last > 0 -> CountTokens(acc, rec)
      [] OTHER -> acc

\* What a record adds when its file is parsed alone up to it.
Alone(st) == [state |-> st, keys |-> {}, tokens |-> 0, found |-> <<>>]
Parsed(records, n) == FoldLeft(Consume, Alone(HeadState(records)), SubSeq(records, 1, n))
Increment(records, n) == Consume(Alone(Parsed(records, n - 1).state), records[n])

\* Codex counts each request in one increment, which only a copy of it repeats, under the same
\* key: parsed alone, each file tells its requests.
CountersTellRequests(s) ==
    \A f, g \in Rollout : \A i \in DOMAIN s[f], j \in DOMAIN s[g] :
        LET a == Increment(s[f], i)
            b == Increment(s[g], j)
        IN  /\ a.tokens = SumFunctionOnSet(Weight, s[f][i].requests)
            /\ a.keys = {} => s[f][i].requests = {}
            /\ IF a.keys = b.keys THEN s[f][i].requests = s[g][j].requests
               ELSE s[f][i].requests \cap s[g][j].requests = {}

ASSUME CodexAssumption ==
    /\ IsFiniteSet(Rollout) /\ IsFiniteSet(Requests) /\ Weight \in [Requests -> Nat]
    /\ Pauses \in [Rollout -> SUBSET Nat] /\ ScanBudget \in Nat /\ MaxCodexFaults \in Nat
    /\ \A s \in Scripts :
        /\ s \in [Rollout -> Seq(Record)]
        /\ \A f \in Rollout : s[f] # <<>> /\ s[f][1] \in Header
        /\ CountersTellRequests(s)

----------------------------------------------------------------------------
\* The ledger and the scan of one file's tail.

EmptyLedger == [entry |-> [f \in Rollout |-> [offset |-> 0, state |-> FreshState(f)]],
                keys |-> {}, tokens |-> 0, rebuilt |-> FALSE]

NoScan == [mode |-> "none", sizes |-> <<>>, left |-> 0, read |-> 0, found |-> <<>>]

Offset(f) == ledger.entry[f].offset
CompleteLines(f) == visible[f] \div 2

\* How many records the scan may read of f: a rebuild stops at the size it saw, an
\* update at its budget; neither consumes a torn last line.
Quota(f) == Min({CompleteLines(f) - Offset(f),
                 IF scan.mode = "update" THEN scan.left ELSE (scan.sizes[f] \div 2) - Offset(f)})

ReadTailAfresh(f, n) == \* mutant: a tail is parsed as if its file began there
    FoldLeft(Consume,
             [state |-> FreshState(f), keys |-> ledger.keys, tokens |-> ledger.tokens, found |-> <<>>],
             SubSeq(script[f], Offset(f) + 1, Offset(f) + n))

\* _ingest_ledger_file_tail over the next n records of f.
ReadTail(f, n) ==
    FoldLeft(Consume,
             [state |-> ledger.entry[f].state, keys |-> ledger.keys, tokens |-> ledger.tokens,
              found |-> <<>>],
             SubSeq(script[f], Offset(f) + 1, Offset(f) + n))

\* audit_codex_rollout_ledger: an independent replay of the captured prefixes, one file
\* after the other, with keys of its own.
Audit(l) ==
    FoldLeft(LAMBDA acc, f : FoldLeft(Consume, [acc EXCEPT !.state = FreshState(f)],
                                      SubSeq(script[f], 1, l.entry[f].offset)),
             [state |-> <<>>, keys |-> {}, tokens |-> 0, found |-> <<>>],
             SetToSeq(Rollout))

\* Files still to visit; the order of their modification times is any order.
Visit(f) ==
    /\ codexPc = "scan"
    /\ f \in DOMAIN scan.sizes
    /\ scan.mode = "update" => scan.left > 0

Skipped(f) == scan.sizes[f] <= 2 * Offset(f)

Visited(f) == [g \in DOMAIN scan.sizes \ {f} |-> scan.sizes[g]]

\* A shorter copy is never replayed and an unchanged file is not read.
SkipFile(f) ==
    /\ codexPc = "scan" /\ f \in DOMAIN scan.sizes /\ Skipped(f)
    /\ scan' = [scan EXCEPT !.sizes = Visited(f)]
    /\ UNCHANGED <<files, ledger, stored, codexPc, availability, shown, store, codexCause, codexFaults>>

IngestFile(f) ==
    /\ Visit(f) /\ ~Skipped(f) /\ CompleteLines(f) >= Offset(f)
    /\ LET n == Quota(f)
           t == ReadTail(f, n)
       IN  /\ ledger' = [ledger EXCEPT !.entry[f] = [offset |-> @.offset + n, state |-> t.state],
                                       !.keys = t.keys, !.tokens = t.tokens]
           /\ scan' = [scan EXCEPT !.sizes = Visited(f), !.read = @ + n, !.found = @ \o t.found,
                                   !.left = IF scan.mode = "update" THEN @ - n ELSE @]
    /\ UNCHANGED <<files, stored, codexPc, availability, shown, store, codexCause, codexFaults>>

\* The file disappears or cannot be read after n of its records were parsed: its entry is
\* as before, but the keys of those records stay in the set that all files share.
ReadRolloutFails(f) ==
    /\ Visit(f) /\ ~Skipped(f) /\ codexFaults < MaxCodexFaults
    /\ \E n \in 0 .. Max({0, Quota(f)}) : ledger' = [ledger EXCEPT !.keys = ReadTail(f, n).keys]
    /\ scan' = [scan EXCEPT !.sizes = Visited(f)]
    /\ codexCause' = IF ledger'.keys = ledger.keys THEN codexCause ELSE codexCause \cup {"misread"}
    /\ codexFaults' = codexFaults + 1
    /\ UNCHANGED <<files, stored, codexPc, availability, shown, store>>

----------------------------------------------------------------------------
\* CodexUsageCollector.collect and the registry around it.

Sizes == [f \in {g \in Rollout : visible[g] > 0} |-> visible[f]]

\* Codex makes its directory with the first session.
RootsExist == \E f \in Rollout : written[f] > 0

\* The requests of the records a ledger has consumed.
RequestsIn(l) ==
    UNION {UNION {script[f][i].requests : i \in 1 .. l.entry[f].offset} : f \in Rollout}

\* The first poll of an installation rebuilds; increments of a rebuild are not emitted.
Poll ==
    /\ codexPc = "idle"
    /\ RootsExist
    /\ IF ledger.rebuilt
       THEN /\ scan' = [NoScan EXCEPT !.mode = "update", !.sizes = Sizes, !.left = ScanBudget]
            /\ UNCHANGED ledger
       ELSE /\ scan' = [NoScan EXCEPT !.mode = "rebuild", !.sizes = Sizes]
            /\ ledger' = EmptyLedger
    /\ codexPc' = "scan"
    /\ UNCHANGED <<files, stored, availability, shown, store, codexCause, codexFaults>>

EndScan ==
    /\ codexPc = "scan"
    /\ \/ DOMAIN scan.sizes = {}
       \/ scan.mode = "update" /\ scan.left = 0
    /\ IF scan.mode = "update"
       THEN /\ UNCHANGED <<ledger, historic>>
            /\ codexPc' = IF scan.read > 0 THEN "save" ELSE "report"
            /\ shown' = IF scan.read > 0 THEN shown ELSE "available"
       ELSE /\ ledger' = [ledger EXCEPT !.rebuilt = TRUE]
            /\ codexPc' = "save"
            /\ historic' = RequestsIn(ledger)
            /\ UNCHANGED shown
    /\ scan' = [scan EXCEPT !.sizes = <<>>, !.found = IF scan.mode = "update" THEN @ ELSE <<>>]
    /\ UNCHANGED <<files, stored, availability, legacyRows, backup, migrated, rows, codexCause,
                   codexFaults>>

SaveWithoutKeys == \* mutant: the keys of the counted records are not saved
    /\ codexPc = "save"
    /\ stored' = [ledger EXCEPT !.keys = {}]
    /\ codexPc' = IF scan.mode = "migrate" THEN "backup" ELSE "report"
    /\ shown' = IF scan.mode = "migrate" THEN shown ELSE "available"
    /\ UNCHANGED <<files, ledger, scan, availability, store, codexCause, codexFaults>>

SaveAndReplace == \* mutant: a rebuilt ledger needs no backup
    /\ codexPc = "save"
    /\ stored' = ledger
    /\ codexPc' = IF scan.mode = "migrate" THEN "replace" ELSE "report"
    /\ shown' = IF scan.mode = "migrate" THEN shown ELSE "available"
    /\ UNCHANGED <<files, ledger, scan, availability, store, codexCause, codexFaults>>

Save ==
    /\ codexPc = "save"
    /\ stored' = ledger
    /\ codexPc' = IF scan.mode = "migrate" THEN "backup" ELSE "report"
    /\ shown' = IF scan.mode = "migrate" THEN shown ELSE "available"
    /\ UNCHANGED <<files, ledger, scan, availability, store, codexCause, codexFaults>>

\* The increments of this poll are dropped; the ledger in memory keeps them.
SaveFails ==
    /\ codexPc = "save" /\ scan.mode # "migrate" /\ codexFaults < MaxCodexFaults
    /\ codexPc' = "report" /\ shown' = "error"
    /\ codexCause' = IF scan.found = <<>> THEN codexCause ELSE codexCause \cup {"dropped"}
    /\ scan' = [scan EXCEPT !.found = <<>>]
    /\ codexFaults' = codexFaults + 1
    /\ UNCHANGED <<files, ledger, stored, availability, store>>

\* How often the increments of this poll hold each request.
Increments == [r \in Requests |-> Cardinality({i \in DOMAIN scan.found : r \in scan.found[i]})]

\* CollectorRegistry.collect and the commit of what it lets through.
ReportPoints ==
    /\ codexPc = "report"
    /\ availability' = Window!Observe(availability, shown, FALSE)
    /\ IF availability'.status = "available"
       THEN /\ rows' = [r \in Requests |-> rows[r] + Increments[r]]
            /\ UNCHANGED codexCause
       ELSE /\ codexCause' = IF scan.found = <<>> THEN codexCause ELSE codexCause \cup {"withheld"}
            /\ UNCHANGED rows
    /\ codexPc' = "idle" /\ scan' = NoScan
    /\ UNCHANGED <<files, ledger, stored, shown, legacyRows, backup, migrated, historic, codexFaults>>

\* Between two polls every sample reports the cached status again.
CachedReport ==
    /\ codexPc = "idle"
    /\ availability' = Window!Observe(availability, shown, FALSE)
    /\ UNCHANGED <<files, ledger, stored, codexPc, scan, shown, store, codexCause, codexFaults>>

----------------------------------------------------------------------------
\* prepare_codex_jsonl_migration, before the loop of every Agent.

StartMigration ==
    /\ codexPc = "start"
    /\ IF (migrated /\ stored.rebuilt) \/ ~RootsExist
       THEN /\ codexPc' = "load"
            /\ UNCHANGED <<ledger, scan>>
       ELSE IF stored.rebuilt
       THEN /\ codexPc' = "backup" /\ ledger' = stored
            /\ UNCHANGED scan
       ELSE /\ codexPc' = "scan" /\ ledger' = EmptyLedger
            /\ scan' = [NoScan EXCEPT !.mode = "migrate", !.sizes = Sizes]
    /\ UNCHANGED <<files, stored, availability, shown, store, codexCause, codexFaults>>

\* backup_codex_history: the manifest is written last and says that all is there.
Backup ==
    /\ codexPc = "backup"
    /\ backup' = TRUE
    /\ codexPc' = "replace"
    /\ UNCHANGED <<files, ledger, stored, scan, availability, shown, legacyRows, migrated, rows,
                   historic, codexCause, codexFaults>>

\* replace_source_history_once: one transaction deletes every row of the source and sets
\* the marker.
ReplaceHistory ==
    /\ codexPc = "replace"
    /\ IF migrated THEN UNCHANGED <<legacyRows, rows, codexCause, migrated>>
       ELSE /\ legacyRows' = FALSE /\ migrated' = TRUE
            /\ rows' = [r \in Requests |-> 0]
            /\ codexCause' = IF \E r \in Requests : rows[r] > 0
                             THEN codexCause \cup {"migrated"} ELSE codexCause
    /\ codexPc' = "load" /\ scan' = NoScan
    /\ UNCHANGED <<files, ledger, stored, availability, shown, backup, historic, codexFaults>>

\* CodexUsageCollector.__init__ loads the ledger; a file that cannot be read is an empty one.
Load ==
    /\ codexPc = "load"
    /\ ledger' = stored
    /\ codexPc' = "idle"
    /\ UNCHANGED <<files, stored, scan, availability, shown, store, codexCause, codexFaults>>

LoadFails ==
    /\ codexPc = "load" /\ stored.rebuilt /\ codexFaults < MaxCodexFaults
    /\ ledger' = EmptyLedger
    /\ codexPc' = "idle"
    /\ codexCause' = codexCause \cup {"lost"}
    /\ codexFaults' = codexFaults + 1
    /\ UNCHANGED <<files, stored, scan, availability, shown, store>>

\* The Agent ends at any point and is started again; a save is one rename.
CodexCrash ==
    /\ codexPc # "start" /\ codexFaults < MaxCodexFaults
    /\ codexPc' = "start" /\ scan' = NoScan /\ ledger' = EmptyLedger
    /\ availability' = Window!Confirmed("available") /\ shown' = "available"
    /\ codexCause' = IF codexPc = "report" /\ scan.found # <<>>
                     THEN codexCause \cup {"dropped"} ELSE codexCause
    /\ codexFaults' = codexFaults + 1
    /\ UNCHANGED <<files, stored, store>>

----------------------------------------------------------------------------
\* Codex and the user: lines are appended, perhaps in two writes; a file is moved to the
\* archive and a reader finds a part of it, or none, meanwhile.
WriteRollout(f) ==
    /\ visible[f] = written[f]
    /\ \E n \in Pauses[f] :
        /\ written[f] < n /\ n <= 2 * Len(script[f])
        /\ \A m \in Pauses[f] : m <= written[f] \/ n <= m
        /\ written' = [written EXCEPT ![f] = n]
        /\ visible' = [visible EXCEPT ![f] = n]
    /\ UNCHANGED <<script, ledger, stored, codexPc, scan, availability, shown, store, codexCause,
                   codexFaults>>

MoveRollout(f) ==
    /\ IF visible[f] < written[f]
       THEN /\ visible' = [visible EXCEPT ![f] = written[f]]
            /\ UNCHANGED codexFaults
       ELSE /\ codexFaults < MaxCodexFaults /\ codexFaults' = codexFaults + 1
            /\ \E n \in Pauses[f] \cup {0} : n < written[f] /\ visible' = [visible EXCEPT ![f] = n]
    /\ UNCHANGED <<script, written, ledger, stored, codexPc, scan, availability, shown, store, codexCause>>

CodexInit ==
    /\ script \in Scripts
    /\ written = [f \in Rollout |-> 0] /\ visible = written
    /\ ledger = EmptyLedger /\ stored = EmptyLedger
    /\ codexPc = "start" /\ scan = NoScan
    /\ availability = Window!Confirmed("available") /\ shown = "available"
    /\ legacyRows = TRUE /\ backup = FALSE /\ migrated = FALSE
    /\ rows = [r \in Requests |-> 0] /\ historic = {}
    /\ codexCause = {} /\ codexFaults = 0

CodexNext ==
    \/ \E f \in Rollout : SkipFile(f) \/ IngestFile(f) \/ ReadRolloutFails(f)
    \/ \E f \in Rollout : WriteRollout(f) \/ MoveRollout(f)
    \/ Poll \/ EndScan \/ Save \/ SaveFails \/ ReportPoints \/ CachedReport
    \/ StartMigration \/ Backup \/ ReplaceHistory \/ Load \/ LoadFails \/ CodexCrash

CodexSpec == CodexInit /\ [][CodexNext]_codexVars

----------------------------------------------------------------------------
CodexTypeOK ==
    /\ script \in Scripts
    /\ \A f \in Rollout : visible[f] <= written[f] /\ written[f] <= 2 * Len(script[f])
    /\ \A l \in {ledger, stored} :
        \A f \in Rollout : l.entry[f].offset \in 0 .. Len(script[f])
    /\ codexPc \in {"start", "backup", "replace", "load", "idle", "scan", "save", "report"}
    /\ scan.mode \in {"none", "rebuild", "update", "migrate"}
    /\ availability \in Window!Stabilizer
    /\ rows \in [Requests -> Nat] /\ historic \subseteq Requests
    /\ codexCause \subseteq {"misread", "dropped", "withheld", "lost", "migrated"}

\* Whatever the order in which the files are read, in how many polls and across restarts,
\* torn lines, moves, forks, resumed sessions, repeated, stale and reset counters, the ledger
\* holds the tokens of every request it has read once, which is what the audit computes from
\* the files; a read that fails half-way is the one way to lose some (codex_sampling.py:661,
\* :817, :453).
LedgerIsExact ==
    "misread" \notin codexCause =>
        /\ ledger.tokens = SumFunctionOnSet(Weight, RequestsIn(ledger))
        /\ ledger.tokens = Audit(ledger).tokens

\* No request is stored twice unless the ledger was lost, and after a poll each one that the
\* ledger gained since its rebuild is stored, unless a save failed, a crash fell between save
\* and commit, the registry withheld the poll or the migration came late (codex.py:335).
RowsMatchTheLedger ==
    /\ codexCause \cap {"lost"} = {} => \A r \in Requests : rows[r] <= 1
    /\ codexPc = "idle" /\ codexCause = {} =>
        \A r \in RequestsIn(ledger) \ historic : rows[r] = 1

\* The old rows are gone only when a complete backup and a rebuilt ledger are on disk, at
\* whatever step a start died (codex_migration.py:66).
MigrationKeepsHistory == ~legacyRows => backup /\ stored.rebuilt
=================================================================================
