SPECIFICATION BeautySpec
CONSTANTS
  Functions <- MCSmallFunctions
  Weights <- MCWeights
  Codes <- MCCodes
CHECK_DEADLOCK FALSE
INVARIANT ReturnsLeftOutAreLast
