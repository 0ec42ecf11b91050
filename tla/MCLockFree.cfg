\* Rings of two elements: two producers and two receivers at a channel's, two
\* producers and two consumers at the unicast ones, two producers and a reader at
\* the queue; three threads at the lock.  Three messages of one or
\* three fragments from two writers; two recorders, two files; a route's ring of two slots.
SPECIFICATION MCSpec
CONSTANTS
    Producers = {"p1", "p2"}
    Receivers = {"r1", "r2"}
    N = 2
    MaxPush = 3
    MaxForce = 1
    MaxEpoch = 2
    MaxMoves = 1
    Pushers = {"p1", "p2"}
    Poppers = {"c1", "c2"}
    Policies = {"ss", "sm", "mm"}
    MaxConn = 2
    MaxRd = 5
    CcMod = 4
    Consumers = {"c1"}
    NPush = 2
    Timed = TRUE
    Lockers = {"t1", "t2", "t3"}
    MaxCalls = 2
    Writers = {"w1", "w2"}
    Sizes = {1, 3}
    NSends = 3
    RingSlots = 2
    MaxCache = 1
    MaxAge = 1
    MaxRestarts = 1
    Recorders = {"r1", "r2"}
    MaxQueue = 2
    MaxChunk = 2
    Duration = TRUE
    Metas = 1
    Huge = {3}
    MaxEvents = 4
    MaxStarts = 2
    Failures = TRUE
    Ring = 2
    Chunks = {"c1"}
    MaxSlots = 3
    MaxParts = 2
    MaxSkips = 1
    MaxFails = 1
INVARIANTS
    ReadsWhole
    UnicastInOrderOnce
    QueueTakenIsPushed
    Exclusion
    
    LogNothingLost
    SnifferTellsTheTruth
PROPERTIES
    UnicastCommittedArePopped
    SnifferInOrderOnce
CHECK_DEADLOCK FALSE
