SPECIFICATION Spec
CONSTANTS
    MaxTraffic = 2
    MaxReloads = 0
    MaxCrashes = 1
    MaxFaults = 0
INVARIANTS NothingReplayed
