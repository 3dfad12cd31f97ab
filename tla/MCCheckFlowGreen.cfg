SPECIFICATION FlowSpec
CONSTANTS
    ToolSets <- MCToolSets
    MaxCommands = 1
    MaxFaults = 1
CHECK_DEADLOCK FALSE
INVARIANTS
    GreenMeansAllowed
