\* try_send only and a fixed set of receivers that keep receiving: the ring
\* implements ReliableBroadcast, delivery of every message included.
SPECIFICATION FairSpec
CONSTANTS
  r1 = r1
  r2 = r2
  RingSlots = 2
  NBits = 2
  Static = {r1, r2}
  Dynamic = {}
  Ops = {"try_send"}
  MaxWt = 4
  MaxEpoch = 0
PROPERTIES
  ImplementsReliableBroadcast
