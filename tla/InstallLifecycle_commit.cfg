SPECIFICATION FairSpec
CONSTANTS
    Install = {i1}
    Work = {w1}
    Caller = {c1}
    Earlier = Earlier
    None = None
INVARIANTS
    VerdictIsTruthful
PROPERTIES
    AdmissionSpec
    NoCommitBehindStop
    ForcedStopReleases
CHECK_DEADLOCK FALSE
