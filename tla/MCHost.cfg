\* One subscriber in the publisher's process, one outside; two programs and two
\* slots; three nodes and one datagram; one message of two or three pages, two
\* datagrams lost; two producers and a reader at a queue of two.
SPECIFICATION MCSpec
CONSTANTS
    Locals = {"l1"}
    Remotes = {"r1"}
    Ids = {1, 2}
    Confirm = 2
    QueueSize = 1
    MaxMsgs = 2
    MaxMoves = 3
    Transports = {"shm", "socket"}
    Schemas = {"same", "generic", "other"}
    Procs = {"p1", "p2"}
    NSlots = 2
    MaxPids = 3
    Nodes = {"a", "b", "s"}
    GroupOf <- MCGroupOf
    PortOf <- MCPortOf
    SendOnly = {"s"}
    RcvBuf = 1
    Tm = 1
    IntrLimit = 2
    AgainLimit = 3
    ForeverLimit = 2
    MaxSends = 1
    MaxConnects = 3
INVARIANTS
    GotOnce
    CountedAreReached
    PoolTellsTheTruth
    NodeSocketsInOrder
    UdpLossRecovered
PROPERTIES
    RateRecovers
    QueueIsDrained
CHECK_DEADLOCK FALSE
