SPECIFICATION Spec
CONSTANTS
    Req = {r1, r2}
    Key = {k1}
    Cancelling = {r1}
    Expiring = {r2}
    Depths = {1, 2}
    Workers = 1
    None = None
INVARIANTS
    RequestsAccounted
    ErrorsAreOwn
    GracefulKeepsWork
    AdmittedFindsRoom
CHECK_DEADLOCK FALSE
