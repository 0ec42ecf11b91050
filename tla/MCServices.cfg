\* Two calls, two clients and two servers one after the other, one reset; the path choice with two faults.
SPECIFICATION MCSpec
CONSTANTS
  NCalls = 2
  NServers = 2
  NClients = 2
  NResets = 1
  RingSlots = 1
  QueueSlots = 1
  Confirm = 1
  Places = {TRUE, FALSE}
  Nodelet = {TRUE, FALSE}
  MaxFaults = 2
  OrphanMet = FALSE
INVARIANTS
    AtMostOnce
    AutoOnePath
PROPERTIES
    FastPathCorrelated
    ServiceClientServed
    AutoRecovers
CHECK_DEADLOCK FALSE
