SPECIFICATION Spec
CONSTANTS
  CollapseEqualitySCC = CollapseEqualitySCC
  CollapseInstanceAtOffset0SCC = CollapseInstanceAtOffset0SCC
  PruneLayoutNodesWithoutLayout = PruneLayoutNodesWithoutLayout
  ComputeUpperMemberAccesses = ComputeUpperMemberAccesses
  RemoveInvalidStrideEdges = RemoveInvalidStrideEdges
  MergePointeesOfPointerUnion = MergePointeesOfPointerUnion
  StepIDs <- MCSteps
  Dependencies <- MCDependencies
  Invalidated <- MCInvalidated
  Rank <- MCRank
  MaxSchedule = 7
INVARIANTS
  TypeOK
  DependenciesInEffect
  InsertedIsInEffect
  NeverAborted
