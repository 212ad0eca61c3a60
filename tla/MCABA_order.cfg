SPECIFICATION Safety
CONSTANTS
    n1 = n1
    n2 = n2
    n3 = n3
    n4 = n4
    Nodes <- FourNodes
    Faulty = {n4}
    T = 1
    InitialBits <- TwoOnes
    FaultyVotes <- ZeroFirst
    FaultyCompletes = {0, 1}
    VoteFirst = {n1, n2}
    MaxRound = 3
SYMMETRY Symmetry
VIEW LiveState
INVARIANTS
    TypeOK
    Agreement
    Validity
    ResultsAreCurrent
\* The last modelled round has no results.
CHECK_DEADLOCK FALSE
