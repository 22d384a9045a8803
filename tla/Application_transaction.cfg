SPECIFICATION Spec
CONSTANTS
    m1 = m1
    m2 = m2
    Model = {m1, m2}
    PreloadModels <- MCPreload
    Caller = {c1, c2}
    Embed = {e1}
    None = None
INVARIANTS
    PreloadIsAtomic
    ClearIsFinal
SYMMETRY Callers
CHECK_DEADLOCK FALSE
