SPECIFICATION BackupSpec
CONSTANTS
    None = None
    Link = Link
    Torn = Torn
    Foreign = Foreign
    Tables = {t1, t2}
    Files = {1}
    Databases = {2}
    KeepArchives = 2
    Retentions = {0, 3}
    MaxEntries = 2
    MaxClock = 3
    MaxWrites = 2
    MaxJobs = 3
    MaxFaults = 1
INVARIANTS
    BackupComplete
    RestoreExact
    VerifiedRestorable
PROPERTIES
    RetentionKept
CHECK_DEADLOCK FALSE
