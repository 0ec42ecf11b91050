\* Two publishers in a row that die or stop anywhere, two subscribers that come,
\* go and die.
SPECIFICATION FairSpec
CONSTANTS
  s1 = s1
  s2 = s2
  Subs = {s1, s2}
  Mortal = {s2}
  NBits = 2
  NSlots = 1
  MaxGen = 2
  MaxSeg = 6
  QuickRestart = FALSE
  StaleCrash = FALSE
CHECK_DEADLOCK FALSE
INVARIANTS
  AttachedToPublisher
  LivingKeepTheirBit
PROPERTIES
  SubscriberRecovers
