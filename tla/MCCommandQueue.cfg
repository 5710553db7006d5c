SPECIFICATION FairSpec
CONSTANTS
    Command <- MCReceiptCommands
    TypeOf <- MCReceiptTypes
    Event = {"attempt"}
    Usage = {10, 20}
    EventOf <- MCEventOf
    UsageOf <- MCUsageOf
    NotCounted = NotCounted
    MaxCrashes = 1
    MaxFaults = 1
INVARIANTS CommandsAreAccountedFor
PROPERTIES ReceiptsAreIdempotent
