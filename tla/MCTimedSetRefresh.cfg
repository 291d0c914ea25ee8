SPECIFICATION Spec
CONSTANTS
  Obj <- FourObjects
  Singles <- FourObjects
  Null <- NoOne
  Ctx <- TwoContexts
  Value <- Values
  KeyOf <- Keys
  T <- Times
  Window = 1
  Home <- Homes
  Refreshes <- TwoTimes
  Edited <- Lasting
  Moved <- Others
  Stays <- Lasting
  Patient = TRUE
  MaxCalls = 5
PROPERTIES
  RefreshFrees
CHECK_DEADLOCK FALSE
