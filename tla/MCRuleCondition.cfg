SPECIFICATION Spec
CONSTANTS
  AttrType <- MCAttrType
  Current = "p"
  External <- MCExternal
  LongMax = 99
  LongMin <- MCLongMin
  Sources <- MCSources
  Objects <- MCObjects
  MayMove = TRUE
  AfterTor = FALSE
INVARIANTS
  DecidesAsWritten
  StackRestored
PROPERTIES
  MachineSpec
