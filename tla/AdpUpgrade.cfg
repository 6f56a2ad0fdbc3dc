CONSTANTS
    MaxData = 1
    MaxWire = 2
    MaxLoss = 2
SPECIFICATION FairSpec
INVARIANTS
    SettledIsTaken
PROPERTIES
    BothUpgrade
    EverythingSettles
CHECK_DEADLOCK FALSE
