SPECIFICATION Spec
CONSTANTS
    n1 = n1
    n2 = n2
    n3 = n3
    n4 = n4
    Nodes <- FourNodes
    Faulty = {n4}
    T = 1
    InitialBits <- Split
    FaultyVotes <- ZeroFirst
    FaultyCompletes = {}
    VoteFirst = {n1, n2, n3}
    MaxRound = 3
INVARIANTS
    Locked
    DecisionEnds
PROPERTIES
    SureLeadsToDecision
\* The last modelled round has no results.
CHECK_DEADLOCK FALSE
