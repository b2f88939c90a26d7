SPECIFICATION Spec
CONSTANTS
  TypesCount = 3
  MaxNesting = 4
  MaxEdges = 3
  RawReturns = {0}
  Layers <- MCSimpleLayers
  Models <- MCModels
  Configurations <- MCConfigurations
INVARIANTS
  TypeOK
  DependenciesFirst
  ValidOrder
  NothingIsPrintedTwice
  HeaderIsComplete
  EveryTypeIsDefined
CHECK_DEADLOCK FALSE
