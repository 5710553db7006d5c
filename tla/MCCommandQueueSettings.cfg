SPECIFICATION FairSpec
CONSTANTS
    Command <- MCSettingsCommands
    TypeOf <- MCSettingsTypes
    Event = {}
    Usage = {}
    EventOf <- MCNoReceipts
    UsageOf <- MCNoReceipts
    NotCounted = NotCounted
    MaxCrashes = 1
    MaxFaults = 1
INVARIANTS TypeOK ClaimsAreExclusive MutationsRepeatForCause
PROPERTIES MutationsAreAnswered
