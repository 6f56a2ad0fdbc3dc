SPECIFICATION Spec

CONSTANTS
    Threads = {d, u}
    Owner = d
    Peers = {p}
    Jobs = {j}
    Window = 1
    IoBudget = 2
    MaxAddrs = 1
    MaxMade = 2
    MaxTicks = 1
    MaxNow = 1

INVARIANT
    BurstsEndOnce

PROPERTIES
    EveryBurstAnswered
    PostedRuns
