SPECIFICATION FairSpec
CONSTANTS
    NumTasks = 3
    Task <- DevicesTask
    NumDevices = 3
    Device <- DevicesDevice
    BusIds = {}
    PriorityBuses = {}
    Links <- NoLinks
    Duration = 9
    PeriodicInterval = 3
    TriggeredInterval = 2
    ReplayJobs <- DevicesReplay
INVARIANTS
    WorkConserved
    WorkWithinBusyTime
    BusyWithinElapsed
    EnqueuedOnce
    PointsRecur
    ReevaluationOutstanding
PROPERTIES
    SuspendsOnlyAtPoints
    SimulationTerminates
