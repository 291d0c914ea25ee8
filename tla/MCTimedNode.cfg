SPECIFICATION FairSpec
CONSTANTS
  c = c
  p = p
  q = q
  r = r
  Nobody = Nobody
  Left <- CAndP
  Right <- PQAndR
  Value <- TwoValues
  Joins <- Ordered
  Keyed = FALSE
  LeftTrigger = FALSE
  RightTrigger = FALSE
  Moves = {q}
  AndMoves = {q}
  SameObj = FALSE
  Kinds <- AllKinds
  T1 <- Starts
  T2 <- Stops
  Window = 1
  Temporal <- BothSides
  Singles = {p, q, r}
  MaxRemovals = 2
INVARIANTS
  OutFollowsMemories
  OnlyOldLeave
PROPERTIES
  OldLeaves
