SPECIFICATION Spec
CONSTANTS
    MaxTime = 3
    MaxReboots = 1
    MaxCrashes = 1
    MaxMisses = 2
    MaxFaults = 1
    MaxResets = 1
INVARIANTS TypeOK NothingReplayed SessionCountsOnce BaselinedSessionsKeepTheirStart
    OrderlyRunsAreExact
