\* The receiver's replay window is larger than its hold, the sender's window larger than the hold.
CONSTANTS
    MaxSeq = 4
    TxWindow = 3
    HoldWindow = 2
    ReplaySize = 4
    MaxRtx = 1
SPECIFICATION FairSpec
INVARIANTS
    InOrderExactlyOnce
    AckedIsKept
    SettledMeansDelivered
    WithinLimits
PROPERTIES
    GivesUpOldestFirst
    ImplementsFifo
    EventuallySettled
CHECK_DEADLOCK FALSE
