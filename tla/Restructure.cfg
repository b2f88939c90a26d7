SPECIFICATION BeautySpec
CONSTANTS
  Functions <- MCFunctions
  Weights <- MCWeights
  Codes <- MCCodes
CHECK_DEADLOCK FALSE
INVARIANTS
  NoOtherAssertionFails
  ExecutionIsPreserved
  AstIsTheFunction
  CodeIsTheFunction
  ValuesAreKept
