SPECIFICATION Spec
CONSTANTS
    N = 3
    Options = {"float", "normalized"}
    MaxItems = 2
    MaxLength = 3
    MaxBatchItems = 4
    MaxBatchTokens = 6
    MaxUsize = 7
INVARIANTS
    OwnAnswerOnce
PROPERTIES
    DispatchesGreedily
CHECK_DEADLOCK FALSE
