SPECIFICATION Spec
CONSTANTS
    Nodes = {n1, n2, n3, n4}
    Faulty = {n4}
    T = 1
    Sender = n4
    Values = {a, b}
    NoValue = NoValue
    FaultySends <- OneReady
CHECK_DEADLOCK FALSE
INVARIANTS
    TypeOK
    Agreement
    DeliveredNodesAreReady
    DeliveryEnds
PROPERTIES
    ImplementsBroadcast
