SPECIFICATION PassFairSpec
CONSTANTS
  Node <- MCManyNodes
  NoNode = NoNode
  MaxOffset = 64
  Values <- MCManyValues
  PointerSize = 8
  Schedule <- MCWholeSchedule
  Programs <- MCWholePrograms
  Models <- MCModels
INVARIANTS
  MiddleendPostconditions
  NothingLeftToPush
  FieldsStillFit
  TypesAreTheLayouts
  PointersArePatched
  DefinitionsVerify
  NoAssertionFails
PROPERTIES
  ScalarsStayInPlace
  Terminates
  UpdatesOnlyAdd
  SegmentsKeepOffsets
