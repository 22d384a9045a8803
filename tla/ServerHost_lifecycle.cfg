SPECIFICATION FairSpec
CONSTANTS
    MaxChanges = 2
INVARIANTS
    TriggerReachesWaiters
PROPERTIES
    HealthFollows
CHECK_DEADLOCK FALSE
