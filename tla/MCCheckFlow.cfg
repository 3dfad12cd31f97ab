SPECIFICATION FlowSpec
CONSTANTS
    ToolSets <- MCToolSets
    MaxCommands = 2
    MaxFaults = 1
CHECK_DEADLOCK FALSE
INVARIANTS
    PassMeansRun
    StrictGreen
    CoverageFollowsSimulation
    StaNeedsMapping
    SummaryOfPasses
