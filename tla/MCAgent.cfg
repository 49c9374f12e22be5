SPECIFICATION Spec
CONSTANTS
    None = None
    Idle = Idle
    NoAnswer = NoAnswer
    Ids = {1, 2}
    Keys = {1, 2}
    CachedKeys = {1, 2}
    ResetKeys = {2}
    Leases = {1, 2}
    MaxPending = 2
    MaxEffects = 2
    MaxCrashes = 0
    Oversized = {}
    Patient = FALSE
    Faults = {"ok", "committed"}
PROPERTIES
    FetchOnlyWhenDrained
    NoEffectAfterSuccess
INVARIANTS
    ControlSuccessIsReal
