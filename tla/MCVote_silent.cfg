SPECIFICATION Spec
CONSTANTS
    n1 = n1
    n2 = n2
    n3 = n3
    n4 = n4
    Nodes <- FourNodes
    Faulty = {n4}
    T = 1
    InputBits <- AnyBit
    FaultyPhases = {}
    Liars = {}
    FaultySets <- AnySet
\* A round that has finished stops.
CHECK_DEADLOCK FALSE
INVARIANTS
    NothingIsDue
    VoteEnds
PROPERTIES
    ImplementsGradedVoteLive
