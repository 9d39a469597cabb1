SPECIFICATION PolicySpec
CONSTANTS
    NumTasks = 7
    Task <- PoliciesTask
    NumDevices = 5
    Device <- PoliciesDevice
    BusIds = {0}
    PriorityBuses = {}
    Links <- PoliciesLinks
    Duration = 16
    PeriodicInterval = 3
    TriggeredInterval = 2
    ReplayJobs <- PoliciesReplay
    Provenance <- PoliciesProvenance
    Plan <- PoliciesPlan
    VirtualNum = 1
    VirtualDen = 2
    MissingCost = 1000
    BlockingCap = 1000
    Policies = {"Llf"}
INVARIANTS
    LaxityRestored
