SPECIFICATION Spec
CONSTANTS
  Node <- MCNode
  NoNode = NoNode
  MaxOffset = 64
  Values <- MCValues
  PointerSize = 8
  Schedule <- NormalizationSteps
  Programs <- MCPrograms
INVARIANTS
  Consistent
  CollapsePostconditions
  RootsAreCut
  Postconditions
  FieldsFit
  StridesStayValid
  AccessesFit
  NoAssertionFails
PROPERTIES
  DecomposeKeepsSpans
