SPECIFICATION Spec
CONSTANTS
  Nothing = Nothing
  MinKeys = 2
  Width = 8
  Item <- Items
  Starts <- Trees
  MaxCalls = 2
INVARIANTS
  Balanced
  FindsEach
  WalksInOrder
  WindowIsVisited
PROPERTIES
  ImplementsSet
CHECK_DEADLOCK FALSE
