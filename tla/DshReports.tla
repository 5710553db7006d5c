------------------------------- MODULE DshReports -------------------------------
(***************************************************************************)
(* DSH usage (resources/ai/dsh.py): every poll folds each session log in   *)
(* full into calls, and a durable set of markers says which calls have     *)
(* been reported.  A call's usage is streamed before it is final; a retry  *)
(* is a call of its own; a forked session repeats its parent's records; a  *)
(* log and its compressed copy hold one session.  Routes, timings and the  *)
(* snapshot's summaries are left out, and so are the size limits.          *)
(***************************************************************************)
EXTENDS Naturals, Sequences, FiniteSets, Functions, SequencesExt, FiniteSetsExt

CONSTANTS
    Logs,              \* [path -> [session, inherited, records]]
    CallTokens,        \* per call, its final usage
    DshPauses,         \* per path, half-lines after which its writer may pause
    MaxDshFaults       \* crashes, unreadable files, failed saves, lost checkpoints

Paths == DOMAIN Logs
Calls == DOMAIN CallTokens
NoSet == [valid |-> FALSE, markers |-> {}]    \* _seen is None: no valid checkpoint

VARIABLES
    logged,            \* per path, half-lines in the file: odd is a torn last line
    cache,             \* per path, records of the cached session, 0 for none
    seen, seenFile,    \* _seen, and its checkpoint
    dshPc,
    found, nextSeen,   \* the poll under way: calls to report, set to remember
    dshShown,          \* status of the cached snapshot
    dshWindow,         \* the registry's window for this collector
    dshRows,           \* per call, tokens of its committed points
    dshBase,           \* observer: calls taken into a first checkpoint
    dshCause, dshFaults

dshVars == <<logged, cache, seen, seenFile, dshPc, found, nextSeen, dshShown, dshWindow,
             dshRows, dshBase, dshCause, dshFaults>>

DshRegistry == INSTANCE StatusStabilizer
    WITH Rank <- [available |-> 0, error |-> 1], WorsenAfter <- 3, RecoverAfter <- 2

----------------------------------------------------------------------------
\* read_dsh_session: a fold over the records, a sample being the last usage of its marker.
NoCall == [marker |-> <<>>, call |-> "none", tokens |-> 0, settled |-> FALSE]

Keep(acc, sample) ==
    [acc EXCEPT !.samples = {s \in @ : s.marker # sample.marker} \cup {sample}]

SettlePending(acc) ==
    IF acc.pending = NoCall THEN acc
    ELSE [Keep(acc, [acc.pending EXCEPT !.settled = TRUE]) EXCEPT !.pending = NoCall]

Usage(acc, rec) ==
    LET moved == IF rec.key = acc.placement THEN acc
                 ELSE [SettlePending(acc) EXCEPT !.placement = rec.key, !.attempt = 0]
    IN  [moved EXCEPT !.pending = [marker |-> <<acc.session, rec.key, moved.attempt>>,
                                   call |-> rec.call, tokens |-> rec.tokens,
                                   settled |-> rec.kind = "message"]]

FoldRecord(acc, rec) ==
    CASE rec.seq < acc.inherited -> acc
      [] rec.seq >= acc.inherited /\ rec.kind = "retry" ->
            [SettlePending(acc) EXCEPT !.attempt = @ + 1]
      [] rec.seq >= acc.inherited /\ rec.kind \in {"chunk", "message"} -> Usage(acc, rec)
      [] rec.seq >= acc.inherited /\ rec.kind = "end" -> SettlePending(acc)
      [] OTHER -> acc

\* The calls in the first n records of a log; the last one may still be streaming.
Session(p, n) ==
    LET start == [session |-> Logs[p].session, inherited |-> Logs[p].inherited, placement |-> 0,
                  attempt |-> 0, pending |-> NoCall, samples |-> {}]
        acc == FoldLeft(FoldRecord, start, SubSeq(Logs[p].records, 1, n))
    IN  IF acc.pending = NoCall THEN acc.samples ELSE Keep(acc, acc.pending).samples

\* Of the copies of a session the one that got furthest counts.
Sessions(read) ==
    LET usable == {p \in Paths : read[p] > 0}
        furthest(p) == \A q \in usable : Logs[q].session = Logs[p].session => read[q] <= read[p]
    IN  UNION {Session(p, read[p]) : p \in {q \in usable : furthest(q)}}

SettledCalls(read) == {s \in Sessions(read) : s.settled}

\* The settled calls that any part of a log may show.
SettledSamples ==
    {s \in UNION {UNION {Session(p, n) : n \in 1 .. Len(Logs[p].records)} : p \in Paths} : s.settled}

\* A call is the only one of its marker, in every log that shows it, and settles with its
\* final usage.
MarkersTellCalls ==
    /\ \A s \in SettledSamples : s.call \in Calls /\ s.tokens = CallTokens[s.call]
    /\ \A s, t \in SettledSamples : s.marker = t.marker \/ s.call = t.call => s = t

ASSUME DshAssumption ==
    /\ MarkersTellCalls /\ CallTokens \in [Calls -> Nat] /\ MaxDshFaults \in Nat
    /\ \A p \in Paths : /\ Len(Logs[p].records) \in Nat
                       /\ DshPauses[p] \subseteq 0 .. 2 * Len(Logs[p].records)

----------------------------------------------------------------------------
\* DshUsageCollector.collect

\* A log that is torn or cannot be read is used as it was when it last could.
CacheAfter(unreadable) ==
    [p \in Paths |-> IF logged[p] = 0 THEN 0
                     ELSE IF logged[p] % 2 = 1 \/ p \in unreadable THEN cache[p]
                     ELSE logged[p] \div 2]

RootExists == \E p \in Paths : logged[p] > 0

PollDsh(unreadable) ==
    /\ dshPc = "idle" /\ RootExists
    /\ unreadable # {} => dshFaults < MaxDshFaults
    /\ dshFaults' = IF unreadable = {} THEN dshFaults ELSE dshFaults + 1
    /\ cache' = CacheAfter(unreadable)
    /\ IF \A p \in Paths : cache'[p] = 0
       THEN /\ dshShown' = "error" /\ dshPc' = "report"
            /\ UNCHANGED <<found, nextSeen>>
       ELSE LET fresh == {s \in SettledCalls(cache') : s.marker \notin seen.markers}
            IN  /\ nextSeen' = [valid |-> TRUE, markers |-> seen.markers \cup {s.marker : s \in fresh}]
                /\ found' = IF seen.valid THEN fresh ELSE {}
                /\ dshPc' = IF nextSeen' = seen THEN "report" ELSE "save"
                /\ dshShown' = IF nextSeen' = seen THEN "available" ELSE dshShown
    /\ UNCHANGED <<logged, seen, seenFile, dshWindow, dshRows, dshBase, dshCause>>

SaveSeen ==
    /\ dshPc = "save"
    /\ seenFile' = nextSeen /\ seen' = nextSeen
    /\ dshBase' = IF ~seen.valid THEN {s.call : s \in SettledCalls(cache)} ELSE dshBase
    /\ dshShown' = "available" /\ dshPc' = "report"
    /\ UNCHANGED <<logged, cache, found, nextSeen, dshWindow, dshRows, dshCause, dshFaults>>

SaveSeenFailsLate == \* mutant: a set that could not be saved is remembered
    /\ dshPc = "save" /\ dshFaults < MaxDshFaults
    /\ dshWindow' = DshRegistry!Observe(dshWindow, "error", FALSE)
    /\ seen' = nextSeen
    /\ dshPc' = "idle" /\ found' = {} /\ nextSeen' = NoSet
    /\ dshFaults' = dshFaults + 1
    /\ UNCHANGED <<logged, cache, seenFile, dshShown, dshRows, dshBase, dshCause>>

\* The save raises: nothing is reported or remembered, and the next poll tries again.
SaveSeenFails ==
    /\ dshPc = "save" /\ dshFaults < MaxDshFaults
    /\ dshWindow' = DshRegistry!Observe(dshWindow, "error", FALSE)
    /\ dshPc' = "idle" /\ found' = {} /\ nextSeen' = NoSet
    /\ dshFaults' = dshFaults + 1
    /\ UNCHANGED <<logged, cache, seen, seenFile, dshShown, dshRows, dshBase, dshCause>>

DshMissed(cause) == IF found = {} THEN dshCause ELSE dshCause \cup {cause}

ReportCalls ==
    /\ dshPc = "report"
    /\ dshWindow' = DshRegistry!Observe(dshWindow, dshShown, FALSE)
    /\ IF dshWindow'.status = "available"
       THEN /\ dshRows' = [c \in Calls |->
                              dshRows[c] + MapThenSumSet(LAMBDA s : s.tokens, {s \in found : s.call = c})]
            /\ UNCHANGED dshCause
       ELSE /\ dshCause' = DshMissed("withheld")
            /\ UNCHANGED dshRows
    /\ dshPc' = "idle" /\ found' = {} /\ nextSeen' = NoSet
    /\ UNCHANGED <<logged, cache, seen, seenFile, dshShown, dshBase, dshFaults>>

\* Samples between two polls, and polls without a sessions directory.
ReportCachedDsh ==
    /\ dshPc = "idle"
    /\ dshWindow' = DshRegistry!Observe(dshWindow, dshShown, FALSE)
    /\ UNCHANGED <<logged, cache, seen, seenFile, dshPc, found, nextSeen, dshShown, dshRows,
                   dshBase, dshCause, dshFaults>>

\* The Agent ends and starts again; its checkpoint may be lost or unreadable by then.
RestartDsh ==
    /\ dshFaults < MaxDshFaults
    /\ seenFile' \in {seenFile, NoSet} /\ seen' = seenFile'
    /\ cache' = [p \in Paths |-> 0]
    /\ dshPc' = "idle" /\ found' = {} /\ nextSeen' = NoSet
    /\ dshShown' = "available" /\ dshWindow' = DshRegistry!Confirmed("available")
    /\ dshCause' = (IF dshPc = "report" THEN DshMissed("dropped") ELSE dshCause)
                       \cup (IF seenFile' = seenFile THEN {} ELSE {"lost"})
    /\ dshFaults' = dshFaults + 1
    /\ UNCHANGED <<logged, dshRows, dshBase>>

----------------------------------------------------------------------------
\* DSH appends to a log; a log is removed once a copy has replaced it.
WriteLog(p) ==
    /\ \E n \in DshPauses[p] :
        /\ logged[p] < n
        /\ \A m \in DshPauses[p] : m <= logged[p] \/ n <= m
        /\ logged' = [logged EXCEPT ![p] = n]
    /\ UNCHANGED <<cache, seen, seenFile, dshPc, found, nextSeen, dshShown, dshWindow, dshRows,
                   dshBase, dshCause, dshFaults>>

RemoveLog(p) ==
    /\ logged[p] > 0
    /\ \E q \in Paths \ {p} : Logs[q].session = Logs[p].session /\ logged[q] > 0
    /\ dshFaults < MaxDshFaults
    /\ logged' = [logged EXCEPT ![p] = 0]
    /\ dshFaults' = dshFaults + 1
    /\ UNCHANGED <<cache, seen, seenFile, dshPc, found, nextSeen, dshShown, dshWindow, dshRows,
                   dshBase, dshCause>>

DshInit ==
    /\ logged = [p \in Paths |-> 0] /\ cache = [p \in Paths |-> 0]
    /\ seen = NoSet /\ seenFile = NoSet
    /\ dshPc = "idle" /\ found = {} /\ nextSeen = NoSet
    /\ dshShown = "available" /\ dshWindow = DshRegistry!Confirmed("available")
    /\ dshRows = [c \in Calls |-> 0]
    /\ dshBase = {} /\ dshCause = {} /\ dshFaults = 0

DshNext ==
    \/ \E unreadable \in SUBSET Paths : PollDsh(unreadable)
    \/ SaveSeen \/ SaveSeenFails \/ ReportCalls \/ ReportCachedDsh \/ RestartDsh
    \/ \E p \in Paths : WriteLog(p) \/ RemoveLog(p)

DshSpec == DshInit /\ [][DshNext]_dshVars

----------------------------------------------------------------------------
DshTypeOK ==
    /\ \A p \in Paths : logged[p] \in 0 .. 2 * Len(Logs[p].records)
                        /\ cache[p] \in 0 .. Len(Logs[p].records)
    /\ dshPc \in {"idle", "save", "report"} /\ dshShown \in {"available", "error"}
    /\ dshWindow \in DshRegistry!Stabilizer
    /\ seen.valid => seen = seenFile
    /\ dshRows \in [Calls -> Nat] /\ dshFaults \in 0 .. MaxDshFaults

\* While its checkpoint survives a call is stored once and with its final usage or not at all,
\* whatever is torn, copied, removed, forked, retried or tried again; and one that settled
\* after the first checkpoint is stored with the next poll, unless a crash before the commit
\* or the registry dropped that poll (dsh.py:274).
DshCallsOnce ==
    /\ "lost" \notin dshCause => \A c \in Calls : dshRows[c] \in {0, CallTokens[c]}
    /\ dshPc = "idle" /\ dshCause = {} =>
        \A s \in SettledCalls(cache) :
            s.marker \in seen.markers /\ s.call \notin dshBase => dshRows[s.call] = CallTokens[s.call]
================================================================================
