SPECIFICATION Spec
CONSTANTS
    Model = {m1}
    Key = {k1, k2}
    Holder = {h1}
    Caller = {c1}
    None = None
INVARIANTS
    RegistryConsistent
    LeasePinsModel
    ServingIsBacked
    StoppedIsClean
PROPERTIES
    AdmissionSpec
SYMMETRY KeySymmetry
CHECK_DEADLOCK FALSE
