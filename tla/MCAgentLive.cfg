SPECIFICATION FairSpec
CONSTANTS
    None = None
    Idle = Idle
    NoAnswer = NoAnswer
    Ids = {1, 2}
    Keys = {1, 2}
    CachedKeys = {1, 2}
    ResetKeys = {2}
    Leases = {1, 2}
    MaxPending = 2
    MaxEffects = 1
    MaxCrashes = 1
    Oversized = {1}
    Patient = TRUE
    Faults = {"ok", "failed"}
PROPERTIES
    EveryJobFinishes
    OutboxDrains
    AwaitedResultKept
CHECK_DEADLOCK FALSE
