SPECIFICATION Spec
CONSTANTS
    None = None
    Sites = {s1, s2}
    Aliases = {a}
    Versions = {old, new}
    Supported = {new}
    Limits = {small, large}
    DefaultLimits = small
    MaxOps = 2
    MaxFaults = 1
SYMMETRY Symmetry
CHECK_DEADLOCK FALSE
INVARIANTS
    HostMatchesRecord
    SuspendedNotServed
    RunningPoolsMatch
    RuntimeInUseKept
PROPERTY ForgottenIsArchived
