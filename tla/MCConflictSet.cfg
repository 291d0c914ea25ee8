SPECIFICATION FairSpec
CONSTANTS
  imp = imp
  plain = plain
  trig = trig
  m1 = m1
  m2 = m2
  Rule <- MCRule
  Match <- MCMatch
  Cat <- MCCat
  Trigger <- MCTrigger
  Flags <- MCFlags
  Implying <- MCImplying
  MaxLinks = 1
  NoRun = NoRun
INVARIANTS
  TypeOK
  QueuesAgree
  PendingIsRemembered
  LinksBalance
  ImpliedFollowsMatch
PROPERTIES
  UrgentFirst
  ImplementsActivation
  Drains
