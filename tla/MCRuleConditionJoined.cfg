SPECIFICATION Spec
CONSTANTS
  AttrType <- MCAttrType
  Current = "p"
  External <- MCExternal
  LongMax = 99
  LongMin <- MCLongMin
  Sources <- JoinedSources
  Objects <- MCObjects
  MayMove = FALSE
  AfterTor = TRUE
INVARIANTS
  DecidesAsWritten
