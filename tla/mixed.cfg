SPECIFICATION Spec
CONSTANTS
    NumTasks = 4
    Task <- MixedTask
    NumDevices = 3
    Device <- MixedDevice
    BusIds = {0}
    PriorityBuses = {0}
    Links <- MixedLinks
    Duration = 8
    PeriodicInterval = 0
    TriggeredInterval = 0
    ReplayJobs <- MixedReplay
INVARIANTS
    LiveEventsAreMeant
    TransfersAccounted
    BusExclusive
    BusWorkConserving
    IInv
    Placement
    CompletionScheduled
    SwitchPurgesLo
PROPERTIES
    FinishedStaysFinished
    LegalTransitions
