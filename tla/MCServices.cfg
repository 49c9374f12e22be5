SPECIFICATION ServicesSpec
CONSTANTS
    None = None
    Databases = {d1, d2}
    Roles = {r1, r2}
    Labels = {l1}
    Own = Own
    PublicKeys = {k1, k2}
    MaxOps = 4
    MaxFaults = 2
INVARIANTS
    RecordedAccessWorks
    
CHECK_DEADLOCK FALSE
