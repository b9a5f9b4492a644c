CONSTANTS
    n1 = n1
    n2 = n2
    n3 = n3
    n4 = n4
    x = x
    y = y
    NoValue = NoValue
    Names <- MCNames
    OptGraphs <- MCOptGraphs
    InputValues <- MCInputValues
SPECIFICATION Spec
INVARIANTS
    OutputsKeepMeaning
    NothingDangles
    OutputsStayMaterialized
    StaysOrdered
CHECK_DEADLOCK FALSE
