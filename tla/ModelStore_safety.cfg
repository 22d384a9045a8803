SPECIFICATION Spec
CONSTANTS
    Proc = {p1, p2}
    Kinds = {"status", "load", "import", "install", "delete"}
    None = None
    MaxFaults = 2
    MaxCrashes = 1
    MaxKills = 1
    MaxDecays = 1
    MaxMishaps = 3
INVARIANTS
    LeasePinsFinal
    PromiseIsDurable
    RepairIsRecoverable
PROPERTIES
    OnlyDeletionDisplaces
SYMMETRY Callers
