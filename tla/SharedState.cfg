SPECIFICATION BeautySpec
CONSTANTS
  Functions <- MCSharedState
  Weights <- MCWeights
  Codes <- MCCodes
CHECK_DEADLOCK FALSE
INVARIANT ExecutionIsPreserved
