SPECIFICATION CastSpec
CONSTANTS
  Numbers = {}
  Stored <- MCStoredE4M3
  Integers4 <- MCIntegers4
PROPERTIES RepresentableNumbersSurvive
CHECK_DEADLOCK FALSE
