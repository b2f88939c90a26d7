SPECIFICATION PassFairSpec
CONSTANTS
  Node <- MCManyNodes
  NoNode = NoNode
  MaxOffset = 64
  Values <- MCManyValues
  PointerSize = 8
  Schedule <- MCWholeSchedule
  Programs <- MCArrayOfItself
  Models <- MCModels
PROPERTY
  Terminates
