------------------------------ MODULE DayCounters ------------------------------
(***************************************************************************)
(* Usage sources that report totals of the current day: OpenCode           *)
(* (resources/ai/opencode.py), Antigravity (antigravity.py) and Infer      *)
(* Runtime (infer_runtime.py).  Each collector turns totals into the       *)
(* increments that it hands to the registry.  A behaviour follows one of   *)
(* them.  The token fields of a total move together and are one number;    *)
(* costs, hours and history views are left out.                            *)
(***************************************************************************)
EXTENDS Naturals, FiniteSets, Functions, FiniteSetsExt

CONSTANTS
    Collectors,        \* the collectors followed
    Tokens, ModelOf,   \* of each request
    LastDay,           \* days the behaviours may last
    MaxCounterFaults   \* crashes, errors, deleted conversations, lost checkpoints

ASSUME DayCountersAssumption ==
    /\ Collectors \subseteq {"opencode", "antigravity", "infer-runtime"}
    /\ LastDay \in Nat \ {0} /\ MaxCounterFaults \in Nat
    /\ IsFiniteSet(DOMAIN Tokens) /\ Tokens \in [DOMAIN Tokens -> Nat]
    /\ DOMAIN ModelOf = DOMAIN Tokens
    /\ \A r \in DOMAIN ModelOf : ModelOf[r] # "all" \* a model's key holds its id, the whole's does not

Uses == DOMAIN Tokens
Models == {ModelOf[r] : r \in Uses}
Scopes == Models \cup {"all"}

VARIABLES
    collector,         \* the one this behaviour follows
    day,               \* the host's local day
    settledOn,         \* per request, the day its usage was recorded, 0 before
    readable,          \* requests whose conversation still exists
    memory,            \* _previous, or _history of the current day
    checkpoint,        \* the file it is saved in
    counterPc,
    deltas,            \* increments of the poll under way, per scope
    reported,          \* status of the cached snapshot
    window,            \* the registry's window for the collector
    metered,           \* tokens of the committed increments, per scope
    reading,           \* observer: requests whose tokens the deltas should add up to
    counted, baselined, \* observer: requests reported, and those read into a baseline
    counterCause,      \* observer: why usage may be missing or doubled
    counterFaults

counterVars == <<collector, day, settledOn, readable, memory, checkpoint, counterPc, deltas,
                 reported, window, metered, reading, counted, baselined, counterCause, counterFaults>>
world == <<collector, day, settledOn, readable>>
observer == <<reading, counted, baselined>>

Registry == INSTANCE StatusStabilizer
    WITH Rank <- [available |-> 0, error |-> 1], WorsenAfter <- 3, RecoverAfter <- 2

NoTotals == [day |-> 0, totals |-> <<>>]
NoDeltas == [s \in Scopes |-> 0]
Persistent == collector # "antigravity"
Paced == collector # "infer-runtime"

----------------------------------------------------------------------------
\* What a collector reads: the totals of today, per model with any.
ReadToday == {r \in readable : settledOn[r] = day}
TokensOf(rs) == SumFunctionOnSet(Tokens, rs)
OfModel(rs, m) == {r \in rs : ModelOf[r] = m}
ModelTotals == [m \in {ModelOf[r] : r \in ReadToday} |-> TokensOf(OfModel(ReadToday, m))]

\* A counter that is new or has fallen is taken as a whole.
Increase(previous, key, total) ==
    IF key \notin DOMAIN previous \/ total < previous[key] THEN total ELSE total - previous[key]

\* OpenCode keeps every key it has seen today, models and the whole alike.
OpenCodeCurrent == [s \in DOMAIN ModelTotals \cup {"all"} |->
                      IF s = "all" THEN TokensOf(ReadToday) ELSE ModelTotals[s]]

AnyDaysCheckpoint == \* mutant: the day of a checkpoint is not compared
    IF memory.day = day THEN memory.totals ELSE checkpoint.totals

OpenCodePrevious ==
    IF memory.day = day THEN memory.totals
    ELSE IF checkpoint.day = day THEN checkpoint.totals ELSE <<>>

OpenCodeDeltas ==
    [s \in Scopes |-> IF s \in DOMAIN OpenCodeCurrent
                      THEN Increase(OpenCodePrevious, s, OpenCodeCurrent[s]) ELSE 0]

OpenCodeMemory ==
    [s \in DOMAIN OpenCodePrevious \cup DOMAIN OpenCodeCurrent |->
        IF s \in DOMAIN OpenCodeCurrent THEN OpenCodeCurrent[s] ELSE OpenCodePrevious[s]]

\* Antigravity compares with the last reading, of whatever day; an empty one makes the next
\* a baseline.
AntigravityDeltas ==
    [s \in Scopes |-> IF s \in DOMAIN ModelTotals /\ memory.totals # <<>>
                      THEN Increase(memory.totals, s, ModelTotals[s]) ELSE 0]

\* Infer Runtime: a total that has fallen adds nothing, and without growth of the whole no
\* model adds anything.
InferPrevious == IF memory.day = day THEN memory.totals ELSE <<>>
Whole(totals) == SumFunctionOnSet(totals, DOMAIN totals)
InferDeltas ==
    [s \in Scopes |->
        IF Whole(ModelTotals) <= Whole(InferPrevious) THEN 0
        ELSE IF s = "all" THEN Whole(ModelTotals) - Whole(InferPrevious)
        ELSE IF s \notin DOMAIN ModelTotals THEN 0
        ELSE IF s \in DOMAIN InferPrevious /\ ModelTotals[s] < InferPrevious[s] THEN 0
        ELSE Increase(InferPrevious, s, ModelTotals[s])]

----------------------------------------------------------------------------
\* A reading becomes increments before anything is saved.
Measure(increments, totals, next, baseline) ==
    /\ deltas' = increments
    /\ memory' = [day |-> day, totals |-> totals]
    /\ counterPc' = next
    /\ reported' = IF next = "report" THEN "available" ELSE reported
    /\ baselined' = IF baseline THEN baselined \cup (ReadToday \ counted) ELSE baselined
    /\ reading' = ReadToday \ baselined'
    /\ UNCHANGED <<world, checkpoint, window, metered, counted, counterFaults>>

PollOpenCode ==
    /\ counterPc = "idle" /\ collector = "opencode"
    /\ Measure(OpenCodeDeltas, OpenCodeMemory, "save", FALSE)
    /\ UNCHANGED counterCause

\* Yesterday's totals are still the ones to compare with after midnight.
PollAntigravity ==
    /\ counterPc = "idle" /\ collector = "antigravity"
    /\ Measure(AntigravityDeltas, ModelTotals, "report", memory.totals = <<>>)
    /\ counterCause' = IF memory.totals # <<>> /\ memory.day # day
                       THEN counterCause \cup {"midnight"} ELSE counterCause

PollInfer ==
    /\ counterPc = "idle" /\ collector = "infer-runtime"
    /\ Measure(InferDeltas, ModelTotals,
               IF memory # [day |-> day, totals |-> ModelTotals] THEN "save" ELSE "report", FALSE)
    /\ UNCHANGED counterCause

\* The store cannot be read, a CLI fails, a settlement is of another day, or (available)
\* there is no such program here.
PollWithoutReading(status) ==
    /\ counterPc = "idle"
    /\ status = "error" => counterFaults < MaxCounterFaults
    /\ counterFaults' = IF status = "error" THEN counterFaults + 1 ELSE counterFaults
    /\ reported' = status /\ counterPc' = "report"
    /\ UNCHANGED <<world, memory, checkpoint, deltas, window, metered, observer, counterCause>>

SaveCheckpoint ==
    /\ counterPc = "save"
    /\ checkpoint' = memory
    /\ counterPc' = "report" /\ reported' = "available"
    /\ UNCHANGED <<world, memory, deltas, window, metered, observer, counterCause, counterFaults>>

Missed(cause) == IF deltas = NoDeltas THEN counterCause ELSE counterCause \cup {cause}

\* The increments are gone, but memory has moved past them.
SaveCheckpointFails ==
    /\ counterPc = "save" /\ counterFaults < MaxCounterFaults
    /\ counterPc' = "report" /\ reported' = "error"
    /\ deltas' = NoDeltas
    /\ counterCause' = Missed("dropped")
    /\ counterFaults' = counterFaults + 1
    /\ UNCHANGED <<world, memory, checkpoint, window, metered, observer>>

\* CollectorRegistry.collect and the commit of the points it lets through.
ReportDeltas ==
    /\ counterPc = "report"
    /\ window' = Registry!Observe(window, reported, FALSE)
    /\ IF window'.status = "available"
       THEN /\ metered' = [s \in Scopes |-> metered[s] + deltas[s]]
            /\ UNCHANGED counterCause
       ELSE /\ counterCause' = Missed("withheld")
            /\ UNCHANGED metered
    /\ counterPc' = "idle" /\ deltas' = NoDeltas
    /\ counted' = counted \cup reading /\ reading' = {}
    /\ UNCHANGED <<world, memory, checkpoint, reported, baselined, counterFaults>>

\* Samples between two polls repeat the cached status.
ReportCached ==
    /\ counterPc = "idle" /\ Paced
    /\ window' = Registry!Observe(window, reported, FALSE)
    /\ UNCHANGED <<world, memory, checkpoint, counterPc, deltas, reported, metered, observer,
                   counterCause, counterFaults>>

\* The Agent ends at any point; Infer's history is read at the start, OpenCode's counters
\* with the first poll, Antigravity keeps nothing.
RestartCollector ==
    /\ counterFaults < MaxCounterFaults
    /\ counterPc' = "idle" /\ deltas' = NoDeltas
    /\ memory' = IF collector = "infer-runtime" THEN checkpoint ELSE NoTotals
    /\ reported' = "available" /\ window' = Registry!Confirmed("available")
    /\ counterCause' = IF counterPc = "report" THEN Missed("dropped") ELSE counterCause
    /\ reading' = {}
    /\ counterFaults' = counterFaults + 1
    /\ UNCHANGED <<world, checkpoint, metered, counted, baselined>>

----------------------------------------------------------------------------
\* The providers and their files.
Settle(r) ==
    /\ settledOn[r] = 0
    /\ settledOn' = [settledOn EXCEPT ![r] = day]
    /\ UNCHANGED <<collector, day, readable, memory, checkpoint, counterPc, deltas, reported,
                   window, metered, observer, counterCause, counterFaults>>

Midnight ==
    /\ day < LastDay
    /\ day' = day + 1
    /\ UNCHANGED <<collector, settledOn, readable, memory, checkpoint, counterPc, deltas,
                   reported, window, metered, observer, counterCause, counterFaults>>

DeleteConversation(r) ==
    /\ settledOn[r] > 0 /\ r \in readable /\ counterFaults < MaxCounterFaults
    /\ readable' = readable \ {r}
    /\ counterCause' = counterCause \cup {"shrunk"}
    /\ counterFaults' = counterFaults + 1
    /\ UNCHANGED <<collector, day, settledOn, memory, checkpoint, counterPc, deltas, reported,
                   window, metered, observer>>

LoseCheckpoint ==
    /\ Persistent /\ checkpoint # NoTotals /\ counterFaults < MaxCounterFaults
    /\ checkpoint' = NoTotals
    /\ counterCause' = counterCause \cup {"lost"}
    /\ counterFaults' = counterFaults + 1
    /\ UNCHANGED <<world, memory, counterPc, deltas, reported, window, metered, observer>>

CountersInit ==
    /\ collector \in Collectors
    /\ day = 1 /\ settledOn = [r \in Uses |-> 0] /\ readable = Uses
    /\ memory = NoTotals /\ checkpoint = NoTotals
    /\ counterPc = "idle" /\ deltas = NoDeltas
    /\ reported = "available" /\ window = Registry!Confirmed("available")
    /\ metered = NoDeltas
    /\ reading = {} /\ counted = {} /\ baselined = {} /\ counterCause = {} /\ counterFaults = 0

CountersNext ==
    \/ PollOpenCode \/ PollAntigravity \/ PollInfer
    \/ \E status \in {"available", "error"} : PollWithoutReading(status)
    \/ SaveCheckpoint \/ SaveCheckpointFails \/ ReportDeltas \/ ReportCached
    \/ RestartCollector \/ LoseCheckpoint \/ Midnight
    \/ \E r \in Uses : Settle(r) \/ DeleteConversation(r)

CountersSpec == CountersInit /\ [][CountersNext]_counterVars

----------------------------------------------------------------------------
CountersTypeOK ==
    /\ day \in 1 .. LastDay /\ settledOn \in [Uses -> 0 .. LastDay] /\ readable \subseteq Uses
    /\ \A c \in {memory, checkpoint} : c.day \in 0 .. day /\ DOMAIN c.totals \subseteq Scopes
    /\ counterPc \in {"idle", "save", "report"} /\ reported \in {"available", "error"}
    /\ window \in Registry!Stabilizer
    /\ deltas \in [Scopes -> Nat] /\ metered \in [Scopes -> Nat]
    /\ (reading \cup counted) \cap baselined = {}
    /\ counterFaults \in 0 .. MaxCounterFaults

\* Increments of totals add up to the usage read, per model, through new models, restarts,
\* polls that fail and midnights: nothing twice unless a checkpoint was lost or conversations
\* were deleted, nothing missing unless a failed save, a crash before the commit or the
\* registry dropped a poll, or Antigravity polled across a midnight; and the whole is the sum
\* of the models (opencode.py:649, antigravity.py:627, infer_runtime.py:406). Neither counted
\* nor missing is what Antigravity takes for its baseline, at its first poll or after one
\* that found the day empty (antigravity.py:630): the requests in baselined.
CountersAreExact ==
    /\ counterCause \cap {"lost", "shrunk"} = {} =>
        \A m \in Models : metered[m] <= TokensOf(OfModel(counted, m))
    /\ counterPc = "idle" /\ counterCause = {} =>
        \A m \in Models : metered[m] = TokensOf(OfModel(counted, m))
    /\ "shrunk" \notin counterCause /\ collector # "antigravity" =>
        metered["all"] = SumFunctionOnSet(metered, Models)
================================================================================
