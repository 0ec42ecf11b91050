\* One receiver, two messages of one or two pages, one datagram lost, windows
\* shorter than the network's delay; two fields on pages of seven cells; two
\* chunks and two loans.
SPECIFICATION MCSpec
CONSTANTS
    Receivers = {"r1"}
    Sniffers = {}
    Departed = {}
    NMsgs = 2
    PageCounts = {1, 2}
    BeHbMinPages = 2
    MaxNackRound = 2
    MaxHbRepeat = 1
    FruitlessLimit = 1
    MaxMissingPages = 1
    MaxBitmapBits = 2
    Integrity = TRUE
    Modes = {"Reliable", "BestEffort"}
    MaxLoss = 1
    MaxRefused = 0
    Reorder = 1
    Timely = FALSE
INVARIANTS
    AckedMeansDelivered
    CountedOnce
    PagedReadsBack
    FlatReadsBack
CHECK_DEADLOCK FALSE
