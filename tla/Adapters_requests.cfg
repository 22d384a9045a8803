SPECIFICATION Spec
CONSTANTS
    MaxBatchItems = 3
    MaxFrames = 3
    Vault <- MCVault
    Documents <- MCDocuments
    Environments <- MCEnvironments
    CommandLines <- MCCommandLines
    Canonical <- MCCanonical
    HttpRequests <- MCHttpRequests
    GrpcRequests <- MCGrpcRequests
    ModelCommands <- MCModelCommands
    Frames <- MCFrames
    Ticks <- MCTicks
INVARIANTS
    StrongestSourceWins
    ExposureIsGuarded
    ConventionAuthenticates
    FailuresAgree
    HandshakeFirst
    AnsweredInOrder
CHECK_DEADLOCK FALSE
