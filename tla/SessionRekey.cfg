CONSTANTS
    MaxEpoch = 2
    MaxData = 1
    MaxWire = 2
    MaxLoss = 1
SPECIFICATION FairSpec
INVARIANTS
    OneBehindHasAsked
PROPERTIES
    QuietPathKeepsPace
    LoneRequestCompletes
CHECK_DEADLOCK FALSE
