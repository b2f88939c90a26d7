SPECIFICATION Spec
CONSTANTS
  Node <- MCNode
  NoNode = NoNode
  RemovedType = RemovedType
  MaxOffset = 4
  OffsetExpressions <- MCOffsetExpressions
  Sizes <- MCSizes
  OffsetsToSum <- MCOffsetsToSum
  MaxMerge = 3
  MaxEdges = 2
  MaxSized = 1
INVARIANTS
  TypeOK
  Consistent
  OneNodePerClass
  SoundBookkeeping
PROPERTY
  ImplementsLayoutGraph
CHECK_DEADLOCK FALSE
