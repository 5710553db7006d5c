SPECIFICATION MonitorsSpec
CONSTANTS
    Facilities = {"f"}
    Manifests <- MCManifests
    Adapters <- MCAdapters
    Contract <- MCContract
    Replies <- MCReplies
    MetricCap = 1
    IssueCap = 2
    MaxRewrites = 3
    Intervals <- MCIntervals
    WarningWindow = 0
    CriticalWindow = 1
    WarningBytes = 2
    CriticalBytes = 9
    Policies = {"p", "q"}
    Usages = {0, 1, 2}
    GuardWarning = 1
    GuardCritical = 2
    MaxAlertFaults = 1
    Providers = {"a", "b"}
    Pages <- MCPages
    MaxPolls = 3
    MaxUpstreamFaults = 1
    Releases <- MCReleases
    Bundled <- MCBundled
    MaxPublications = 2
    MaxPriceFaults = 1
    XrayUsers = {"a"}
    MaxBytes = 3
    MaxEpoch = 4
    MaxXrayFaults = 2
    Processes = {"p", "q", "s"}
    AppOf <- MCAppOf
    FirstProcesses = {"p", "q"}
    OtherApp = 9
    SampleApps = 1
    DisplayApps = 1
    HealthReadings <- MCHealthReadings
    ClockSteps = {0, 1, 3}
    PersistInterval = 2
    MaxGap = 2
    MaxIo = 1
    MaxReadings = 3
    MaxTransitionFaults = 1
INVARIANTS
    MonitorsTypeOK
    FacilitiesAreCurrent
    EventsTellTheLevels
    ShownLevelsAreTold
    PricesNeverGoBack
    SessionTellsTheTraffic
    SystemTellsTheHost
CHECK_DEADLOCK FALSE
