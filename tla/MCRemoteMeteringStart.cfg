SPECIFICATION Spec
CONSTANTS
    MaxTime = 3
    MaxReboots = 0
    MaxCrashes = 0
    MaxMisses = 2
    MaxFaults = 0
    MaxResets = 1
INVARIANTS SessionKeepsItsStart
