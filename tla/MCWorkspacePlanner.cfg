CONSTANTS
    p1 = p1
    p2 = p2
    p3 = p3
    p4 = p4
    NoPort = NoPort
    Unsized = Unsized
    Ports <- MCPorts
    Align = 2
SPECIFICATION MCSpec
INVARIANTS
    PlannerTypeOK
    NoSharedBytes
    OffsetIsLowest
    EveryUseIsLive
    LayoutIsTight
PROPERTIES
    PlannerEnds
CHECK_DEADLOCK FALSE
