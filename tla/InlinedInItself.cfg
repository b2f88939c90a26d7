SPECIFICATION Spec
CONSTANTS
  TypesCount = 2
  MaxNesting = 3
  MaxEdges = 2
  RawReturns = {0}
  Layers <- MCSimpleLayers
  Models <- MCModels
  Configurations <- MCInlining
INVARIANTS
  InliningEnds
CHECK_DEADLOCK FALSE
