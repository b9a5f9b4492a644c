CONSTANTS
    n1 = n1
    n2 = n2
    n3 = n3
    n4 = n4
    x = x
    Blank = Blank
    Names <- MCNames
    Graphs <- MCGraphs
SPECIFICATION Spec
INVARIANTS
    OrderedIsTopological
    CycleReportIsExact
    LayersAreDepths
    PlanRunsEachNodeOnce
PROPERTIES
    NormalizeIsStable
    PassesEnd
CHECK_DEADLOCK FALSE
