CONSTANTS
    n1 = n1
    n2 = n2
    n3 = n3
    n4 = n4
    x = x
    Blank = Blank
    NoPort = NoPort
    Unsized = Unsized
    Names <- MCNames
    Ports <- MCPorts
    Graphs <- Branches
    StreamCaps = {0}
    Align = 2
    Int32Range = 1000
SPECIFICATION Spec
INVARIANT
    NoWorkspaceRace
CHECK_DEADLOCK FALSE
