SPECIFICATION DmSpec
CONSTANTS
    Devices = {0, 1}
    JobIds = {1, 2, 3}
    Priority <- JobPriority
    NoJob = 0
    MaxQueued = 3
INVARIANTS
    ViewIsCurrent
PROPERTIES
    ImplementsReadyQueues
