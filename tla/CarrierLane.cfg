\* The backlog never fills.  One selective bit for a window of three: not every held frame can be named in an ack.
CONSTANTS
    MaxSeq = 5
    Window = 3
    SelectiveBits = 1
    MaxAttempts = 2
    MaxBacklog = 5
SPECIFICATION FairSpec
INVARIANTS
    LetGoIsKept
PROPERTIES
    ImplementsFifo
    ReleasedOrFailed
CHECK_DEADLOCK FALSE
