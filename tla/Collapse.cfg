SPECIFICATION Spec
CONSTANTS
  Node <- MCTwoLoopsNode
  NoNode = NoNode
  MaxOffset = 64
  Values <- MCTwoLoopsValues
  PointerSize = 8
  Schedule <- MCCollapsing
  Programs <- MCMissedLoops
INVARIANTS
  NoMixedLoops
