SPECIFICATION Spec
CONSTANTS
    None = None
    NoReservation = NoReservation
    Idle = Idle
    NoRun = NoRun
    NoReply = NoReply
    Keys <- CapacityKeys
    Sites <- CapacitySites
    Dims <- OneDim
    Limit <- TwoOfEach
    Kinds = {"backup"}
    Concurrency <- OnePerPool
    Commands <- CapacityCommands
    MaxEntries = 1
    MaxBytes = 10
    TombstoneSize = 1
    MaxRuns = 4
    MaxRestarts = 1
    Faults = {"ok", "failed"}
INVARIANTS
    OneMutatorPerSite
    ReservationTracksHost
    SideEffectOnce
