\* The capability channel and one channel of either class; a window of one frame and a queue that holds one data frame
\* and a header, so that frames wait, are refused and strand a partial message; room for one accepted channel.
CONSTANTS
    Ids = {0, 1}
    Timed = {1}
    MaxMsgs = 2
    MaxEndings = 2
    Window = 1
    MaxQueued = 3
    MaxChannels = 1
    MaxPartials = 1
SPECIFICATION Spec
INVARIANTS
    TypeOK
    DataInOrder
    NoOutOfOrder
PROPERTIES
    TerminalOnce
    OpensAreAnswered
    QueueDrains
    HalfOpenEnds
\* Both links may go, and then nothing is left to do.
CHECK_DEADLOCK FALSE
