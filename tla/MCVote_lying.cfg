SPECIFICATION Batched
CONSTANTS
    n1 = n1
    n2 = n2
    n3 = n3
    n4 = n4
    Nodes <- FourNodes
    Faulty = {n4}
    T = 1
    InputBits <- OneDissenter
    FaultyPhases = {"INPUT", "VOTE1"}
    Liars = {n4}
    FaultySets <- AnySet
SYMMETRY Symmetry
\* A round that has finished stops.
CHECK_DEADLOCK FALSE
INVARIANTS
    StrongMajority
