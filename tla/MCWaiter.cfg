\* Two receivers and a thread that wakes them; nobody or one of them dies,
\* anywhere.
SPECIFICATION FairSpec
CONSTANTS
  s1 = s1
  s2 = s2
  s3 = s3
  w1 = w1
  w2 = w2
  Nobody = Nobody
  Sleepers = {s1, s2}
  Timed = {s2}
  Wakers = {w1}
  Broadcast = TRUE
  MaxPost = 2
  MaxCrash = 1
CHECK_DEADLOCK FALSE
INVARIANTS
  NoLostWakeup
  WaitersExact
PROPERTIES
  WakeupHappens
  CallsReturn
