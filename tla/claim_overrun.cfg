SPECIFICATION PolicySpec
CONSTANTS
    NumTasks = 4
    Task <- ClaimsTask
    NumDevices = 2
    Device <- ClaimsDevice
    BusIds = {}
    PriorityBuses = {}
    Links <- ClaimsLinks
    Duration = 14
    PeriodicInterval = 0
    TriggeredInterval = 0
    ReplayJobs <- ClaimsReplay
    Provenance <- NoProvenance
    Plan <- NoPlan
    VirtualNum = 1
    VirtualDen = 2
    MissingCost = 1000
    BlockingCap = 1000
    Policies = {"Fp"}
PROPERTIES
    OnlyOverrunsSwitch
