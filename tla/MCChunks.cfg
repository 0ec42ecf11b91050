\* All entry points, overwriting, loans and the sniffer ring; receivers that
\* come and go in quiet moments and never read from a full ring behind.
SPECIFICATION SpecChunks
CONSTANTS
  r1 = r1
  r2 = r2
  RingSlots = 2
  NBits = 2
  Static = {}
  Dynamic = {r1, r2}
  Ops = {"send", "try_send", "loan", "no_member"}
  MaxWt = 3
  MaxEpoch = 1
  NChunks = 2
  MaxHold = 1
SYMMETRY ReaderSymmetry
VIEW NoLogView
CONSTRAINT NeverLapped
ACTION_CONSTRAINT QuietMembership
INVARIANTS
  FreeListSound
  UsedNotFree
  AllAccountedFor
