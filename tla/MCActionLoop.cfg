SPECIFICATION Spec
CONSTANTS
  e1 = e1
  e2 = e2
  m1 = m1
  m2 = m2
  zero = zero
  one = one
  Ext <- TwoGiven
  Made <- OneMade
  Value <- TwoValues
  Absent = Absent
  NoEvent = NoEvent
  MaxOps = 2
  MaxCalls = 2
  Inside <- InsertsInside
  FromEvents <- BeforeTheEnd
  Habits <- ChangeHabit
INVARIANTS
  TypeOK
  NothingLeft
  NetShowsObjects
  NoDangling
PROPERTIES
  OthersUntouched
  ShownIsWritten
  FeedsApplication
CHECK_DEADLOCK FALSE
