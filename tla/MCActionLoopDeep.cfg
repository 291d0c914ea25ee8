SPECIFICATION Spec
CONSTANTS
  e1 = e1
  e2 = e2
  m1 = m1
  m2 = m2
  zero = zero
  one = one
  Ext <- OneGiven
  Made <- TwoMade
  Value <- TwoValues
  Absent = Absent
  NoEvent = NoEvent
  MaxOps = 3
  MaxCalls = 2
  Inside <- Nothing
  FromEvents <- Nothing
  Habits <- ChangeHabit
PROPERTIES
  ModifyIsFaithful
  NoLeak
CHECK_DEADLOCK FALSE
