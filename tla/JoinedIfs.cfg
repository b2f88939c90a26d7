SPECIFICATION BeautySpec
CONSTANTS
  Functions <- MCNestedIfs
  Weights <- MCWeights
  Codes <- MCCodes
CHECK_DEADLOCK FALSE
INVARIANT JoinedIfsAreTheNested
