SPECIFICATION Batched
CONSTANTS
    n1 = n1
    n2 = n2
    n3 = n3
    n4 = n4
    Nodes <- FourNodes
    Faulty = {n4}
    T = 1
    InputBits <- ThreeOrTwo
    FaultyPhases = {"INPUT", "VOTE1", "REVOTE"}
    Liars = {}
    FaultySets <- OnesAndLast
SYMMETRY PairSymmetry
VIEW LiveState
\* A round that has finished stops.
CHECK_DEADLOCK FALSE
INVARIANTS
    TypeOK
    GradedAgreement
    StrongMajority
PROPERTIES
    ImplementsGradedVote
