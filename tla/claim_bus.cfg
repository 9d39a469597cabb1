SPECIFICATION PolicySpec
CONSTANTS
    NumTasks = 3
    Task <- BusTask
    NumDevices = 3
    Device <- BusDevice
    BusIds = {0}
    PriorityBuses = {0}
    Links <- BusLinks
    Duration = 12
    PeriodicInterval = 0
    TriggeredInterval = 0
    ReplayJobs <- BusLateReplay
    Provenance <- NoProvenance
    Plan <- NoPlan
    VirtualNum = 1
    VirtualDen = 2
    MissingCost = 1000
    BlockingCap = 1000
    Policies = {"Fp"}
INVARIANTS
    NoTransferIsStranded
