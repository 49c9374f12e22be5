SPECIFICATION EnrollSpec
CONSTANTS
    None = None
    CAs = {1, 2}
    Bundles <- Rotation
    MaxIssued = 2
CHECK_DEADLOCK FALSE
INVARIANTS
    ManifestWhole
    HandshakeMatches
PROPERTY StaysUsable
