SPECIFICATION FairSpec
CONSTANTS
    Model = {m1}
    Key = {k1}
    Holder = {}
    Caller = {c1}
    None = None
PROPERTIES
    ForcedShutdownEndsLoads
CHECK_DEADLOCK FALSE
