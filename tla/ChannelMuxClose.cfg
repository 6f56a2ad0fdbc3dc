\* CloseChannel before the OPENACK has come.
CONSTANTS
    Ids = {0, 1}
    Timed = {1}
    MaxMsgs = 2
    MaxEndings = 2
    Window = 1
    MaxQueued = 3
    MaxChannels = 1
    MaxPartials = 1
SPECIFICATION Spec
INVARIANT ClosedStaysClosed
CHECK_DEADLOCK FALSE
