SPECIFICATION Spec
CONSTANTS
    NumTasks = 4
    Task <- DagTask
    NumDevices = 3
    Device <- DagDevice
    BusIds = {0}
    PriorityBuses = {0}
    Links <- DagLinks
    Duration = 8
    Edges <- DagEdges
    Bytes <- DagBytes
    OtherJobs <- DagOthers
INVARIANTS
    DagIInv
    EdgesAccounted
    NobodyForgotten
PROPERTIES
    ImplementsPrecedence
