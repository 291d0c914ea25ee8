SPECIFICATION Spec
CONSTANTS
  p = p
  q = q
  r = r
  s = s
  Nobody = Nobody
  Left <- PAndQ
  Right <- PRAndS
  Value <- TwoValues
  Joins <- Ordered
  Keyed = FALSE
  LeftTrigger = FALSE
  RightTrigger = FALSE
  Moves <- OnlyRAndS
  AndMoves <- Everything
  SameObj = FALSE
  InWindow <- AllPairs
  Kinds <- AllKinds
INVARIANTS
  TypeOK
  OutIsJoin
  OutIsUnmatched
  OutIsOuterJoin
  CountsAreExact
  DeletesItsOwn
PROPERTIES
  NoStrays
