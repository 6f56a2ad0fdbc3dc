SPECIFICATION BothSpec
CONSTANTS
    Low = 1
    High = 2
    Conns = {1, 2, 3}
    DialsAtOnce = 2
    MaxGivenUp = 2
INVARIANTS ElectionAgrees
PROPERTIES SessionSurvivesElection EndsAgree
CHECK_DEADLOCK FALSE
