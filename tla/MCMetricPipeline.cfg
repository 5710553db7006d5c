SPECIFICATION FairSpec
CONSTANTS
    Point <- MCPoints
    LegacyPoint = {"old"}
    AiPoint = {"ai"}
    EpochOf <- MCEpochs
    Hot = 1
    Hour = 2
    Day = 4
    DayOffset = 2
    HotRetention = 1
    HourRetention = 1
    MaxClock = 3
    MaxCrashes = 1
    MaxFaults = 1
    MaxRuns = 2
INVARIANTS TypeOK PointsAreConserved RowsKeepThePeriod AnswersCountOnce
PROPERTIES OnlyDyingLoses QueriesEnd
