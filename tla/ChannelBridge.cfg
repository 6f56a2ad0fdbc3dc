\* The two sides are on links of their own.
CONSTANTS
    OneMux = FALSE
    MaxFrames = 2
SPECIFICATION Spec
INVARIANTS
    OneEndsBoth
    ClosedLetsGo
    MuxAliveWhenCalled
\* Both links may be gone, and nothing is left to do.
CHECK_DEADLOCK FALSE
