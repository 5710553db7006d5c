SPECIFICATION Spec
CONSTANTS
    MaxTraffic = 2
    MaxReloads = 1
    MaxCrashes = 2
    MaxFaults = 1
INVARIANTS TypeOK OnlyTornSavesReplay OrderlyRunsAreExact
