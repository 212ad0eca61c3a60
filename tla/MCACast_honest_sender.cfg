SPECIFICATION Spec
CONSTANTS
    Nodes = {n1, n2, n3, n4}
    Faulty = {n4}
    T = 1
    Sender = n1
    Values = {a, b}
    NoValue = NoValue
    FaultySends <- OneEcho
CHECK_DEADLOCK FALSE
INVARIANTS
    Integrity
    DeliveryEnds
PROPERTIES
    ImplementsBroadcast
