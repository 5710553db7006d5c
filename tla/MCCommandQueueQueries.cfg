SPECIFICATION FairSpec
CONSTANTS
    Command <- MCSettingsCommands
    TypeOf <- MCSettingsTypes
    Event = {}
    Usage = {}
    EventOf <- MCNoReceipts
    UsageOf <- MCNoReceipts
    NotCounted = NotCounted
    MaxCrashes = 0
    MaxFaults = 1
PROPERTIES QueriesAreAnswered
