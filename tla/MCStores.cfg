SPECIFICATION Spec
CONSTANTS
    None = None
    Keys = {k1, k2}
    MaxEntries = 1
    MaxBytes = 2
    TombstoneSize = 1
    Ids = {c1, c2}
    Leases = {l1}
    MaxPending = 1
    MaxFiles = 2
    LogBytes = 2
    MaxWrites = 4
SYMMETRY Symmetry
INVARIANTS
    StoreMirrorsFile
    AcceptedResultsKept
    OutboxFileOpens
    TrailUnbroken
    TrailBounded
PROPERTY KeysNeverForgotten
