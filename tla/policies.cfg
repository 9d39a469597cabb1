SPECIFICATION PolicySpec
CONSTANTS
    NumTasks = 7
    Task <- PoliciesTask
    NumDevices = 5
    Device <- PoliciesDevice
    BusIds = {0}
    PriorityBuses = {}
    Links <- PoliciesLinks
    Duration = 16
    PeriodicInterval = 0
    TriggeredInterval = 0
    ReplayJobs <- PoliciesReplay
    Provenance <- PoliciesProvenance
    Plan <- PoliciesPlan
    VirtualNum = 1
    VirtualDen = 2
    MissingCost = 1000
    BlockingCap = 1000
    Policies <- Schedulers
INVARIANTS
    DevicesKeptBusy
    RunsTheMostUrgent
    HiModeIsHi
    EstimatesAreSafe
    DagsKeepTheirDevice
    TasksKeepTheirDevice
PROPERTIES
    ImplementsEngine
