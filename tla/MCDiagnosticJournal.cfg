SPECIFICATION Spec
CONSTANTS
    Check = {1, 2, 3}
    FreshOf <- MCFreshness
    Skew = 0
    Retention = 1
    MaxEvents = 2
    MaxActive = 1
    MaxChecks = 2
    MaxSample = 1
    Limit = 1
    MaxClock = 2
    MaxSamples = 4
    MaxSteps = 1
INVARIANTS TypeOK HistoryMatchesConditions AnswersAreSnapshots
    ObservedMeansNow
PROPERTIES OccurrencesAreToldOnce ConditionsEndForCause
CHECK_DEADLOCK FALSE
