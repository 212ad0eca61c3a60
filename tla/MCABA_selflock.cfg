SPECIFICATION Spec
CONSTANTS
    n1 = n1
    n2 = n2
    n3 = n3
    n4 = n4
    Nodes <- FourNodes
    Faulty = {n4}
    T = 1
    InitialBits <- AllOnes
    FaultyVotes <- AnyVotes
    FaultyCompletes = {}
    VoteFirst = {}
    MaxRound = 2
PROPERTIES
    Termination
\* The last modelled round has no results.
CHECK_DEADLOCK FALSE
