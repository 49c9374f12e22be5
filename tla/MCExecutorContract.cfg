SPECIFICATION FairSpec
CONSTANTS
    None = None
    NoReservation = NoReservation
    Idle = Idle
    NoRun = NoRun
    NoReply = NoReply
    Keys <- IdemKeys
    Sites <- IdemSites
    Dims <- OneDim
    Limit <- TwoOfEach
    Kinds = {"backup"}
    Concurrency <- OnePerPool
    Commands <- IdemCommands
    MaxEntries = 1
    MaxBytes = 10
    TombstoneSize = 1
    MaxRuns = 2
    MaxRestarts = 1
    Faults = {"ok", "failed", "committed"}
PROPERTIES
    EveryCallReturns
    EveryRunSettles
    ImplementsContract
INVARIANTS
    NoOverlappingCopies
    SlotsAccounted
    SuccessIsReal
PROPERTY RecordedNeverRelaunched
