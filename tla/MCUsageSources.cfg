SPECIFICATION SourcesSpec
CONSTANTS
    Rollout = {"a", "b"}
    SessionIds = {"p", "c", "s", "o"}
    Scripts <- MCScripts
    Weight <- MCWeight
    Pauses <- MCPauses
    ScanBudget = 3
    MaxCodexFaults = 1
    Collectors = {"opencode", "antigravity", "infer-runtime"}
    Tokens <- MCTokens
    ModelOf <- MCModelOf
    LastDay = 2
    MaxCounterFaults = 2
    Logs <- MCLogs
    CallTokens <- MCCallTokens
    DshPauses <- MCDshPauses
    MaxDshFaults = 1
    Batches <- MCBatches
    EventWindow = 2
    MaxStreams = 2
    MaxSeen = 3
    MaxModels = 1
    LastTick = 4
    MaxDeliveries = 2
    MaxTelemetryRestarts = 1
INVARIANTS
    SourcesTypeOK
    LedgerIsExact
    RowsMatchTheLedger
    MigrationKeepsHistory
    CountersAreExact
    DshCallsOnce
    SamplesTimeOneRequest
CHECK_DEADLOCK FALSE
