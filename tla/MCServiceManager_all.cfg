SPECIFICATION Spec
CONSTANTS
    n1 = n1
    n2 = n2
    Nodes <- TwoNodes
    InboxSize = 1
    OutboxSize = 1
    MaxCasts <- Casts
    MaxResults <- Results
    MaxBurst = 2
    Stoppable = {n1}
INVARIANTS
    TypeOK
    NothingLost
    ResultsInOrder
PROPERTIES
    ImplementsNetwork
    AllResultsRead
\* The broadcasts and results of a run are bounded.
CHECK_DEADLOCK FALSE
