SPECIFICATION AnalysesSpec
CONSTANTS
    MaxIterations = 100
    TaskSets <- SmallSets
    DeviceCount = 2
    ConditionalGraphs <- SmallConditionalGraphs
    MaxConditions = 2
    TaskGraphs <- SmallTaskGraphs
    ListDevice <- ListTypes
    RankScale = 6
CHECK_DEADLOCK FALSE
INVARIANTS
    AcceptedWithinDeadlines
