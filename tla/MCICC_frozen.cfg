SPECIFICATION MCSpec
CONSTANTS
    Nodes = {1, 2, 3, 4}
    T = 1
    Scenarios <- AllLive
PROPERTIES
    Termination
CHECK_DEADLOCK FALSE
