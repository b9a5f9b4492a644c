SPECIFICATION FrontEndSpec
CONSTANTS
  MaxRounds = 3
  Registry <- MCRegistry
  Extensions <- MCExtensions
  WeightMap <- MCWeightMap
  PlannerBindings <- MCPlannerBindings
  Sources <- MCSources
INVARIANTS
  ReadsSeeTheLatestBinding
  StaysTopological
  NoDTypeMismatchSurvives
  ThreeRoundsSuffice
  UnifierIsMostGeneral
  LayersReadTheirPredecessor
PROPERTIES
  RerunChangesNothing
