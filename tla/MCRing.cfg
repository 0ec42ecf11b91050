\* Receivers that join and leave at any time, the entry points of the producer
\* that may overwrite.
SPECIFICATION Spec
CONSTANTS
  r1 = r1
  r2 = r2
  RingSlots = 2
  NBits = 2
  Static = {}
  Dynamic = {r1, r2}
  Ops = {"send", "no_member", "loan"}
  MaxWt = 3
  MaxEpoch = 2
SYMMETRY ReaderSymmetry
VIEW NoLogView
INVARIANTS
  TypeOK
  IntactWithinLap
  ConnectedStay
