SPECIFICATION Spec
CONSTANTS
  Obj <- FourObjects
  Singles <- FourObjects
  Null <- NoOne
  Ctx <- TwoContexts
  Value <- Values
  KeyOf <- Keys
  T <- Times
  Window = 1
  Home <- Homes
  Refreshes <- TwoTimes
  Edited <- Second
  Moved <- Others
  Stays <- Never
  Patient = TRUE
  MaxCalls = 5
INVARIANTS
  SetsFollow
CHECK_DEADLOCK FALSE
