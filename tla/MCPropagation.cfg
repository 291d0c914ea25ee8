SPECIFICATION Spec
CONSTANTS
  Node <- Nodes
  Root <- One
  Kind <- Kinds
  Links <- Count
  Fork <- Forks
  After <- Afters
  From <- Froms
  To <- Tos
  By <- Bys
  Value <- Values
INVARIANTS
  NoMarkLeft
PROPERTIES
  ReachedOnce
