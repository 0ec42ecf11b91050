\* notify() and three threads that wait for any item, one with a timeout.
SPECIFICATION Spec
CONSTANTS
  s1 = s1
  s2 = s2
  s3 = s3
  w1 = w1
  w2 = w2
  Nobody = Nobody
  Sleepers = {s1, s2, s3}
  Timed = {s1}
  Wakers = {w1, w2}
  Broadcast = FALSE
  MaxPost = 3
  MaxCrash = 0
SYMMETRY ThreadSymmetry
CHECK_DEADLOCK FALSE
INVARIANTS
  NotifyReachesSomebody
