SPECIFICATION FairSpec
CONSTANTS
    caller = caller
    slot = slot
    transport = transport
    request = request
    first = first
    second = second
    Token <- MCToken
    Constituents <- MCConstituents
    Waiter = {first, second}
    Subject <- MCSubject
INVARIANTS
    NoLostWakeup
PROPERTIES
    CancelledReturns
CHECK_DEADLOCK FALSE
