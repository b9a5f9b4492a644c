SPECIFICATION CastSpec
CONSTANTS
  Numbers <- MCNumbers
  Stored <- MCStored
  Integers4 <- MCIntegers4
INVARIANTS
  NarrowingIsNearest
  WideningIsExact
  SpecialsSurvive
  PrecisionIsHonest
  NibblesAreIndependent
CHECK_DEADLOCK FALSE
