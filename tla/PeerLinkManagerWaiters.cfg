SPECIFICATION Spec
CONSTANTS
    Far = 2
    Relay = 4
    Locals = {1, 3}
    Classes = {"dial", "names", "nested", "probe"}
    MaxLinks = 4
    MaxDials = 2
    MaxPendingInbound = 1
    MaxEvents = 4
    MaxFaults = 1
INVARIANT WaiterHasDial
CHECK_DEADLOCK FALSE
