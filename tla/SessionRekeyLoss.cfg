\* One datagram lost, no data besides the rekey's own messages.
CONSTANTS
    MaxEpoch = 2
    MaxData = 0
    MaxWire = 2
    MaxLoss = 1
SPECIFICATION FairSpec
PROPERTY RekeySurvivesLoss
CHECK_DEADLOCK FALSE
