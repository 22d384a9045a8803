SPECIFICATION FairSpec
CONSTANTS
    Op = {o1, o2, o3}
    Detached = {o3}
    Caller = {c1, c2}
    NoOp = NoOp
INVARIANTS
    DrainedIsQuiescent
PROPERTIES
    ContractSpec
    ShutdownDecides
CHECK_DEADLOCK FALSE
