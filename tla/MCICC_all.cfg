SPECIFICATION MCQuorumSpec
CONSTANTS
    Nodes = {1, 2, 3, 4}
    T = 1
    Scenarios <- QuorumAndAll
INVARIANTS
    TypeOK
    CoinAgreement
    SharedBeforeReconstruction
    CoinEnds
PROPERTIES
    QuorumTerminates
CHECK_DEADLOCK FALSE
