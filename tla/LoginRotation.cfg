CONSTANTS
    Hash = {h1}
    Sid = {s1}
    Family = {f1}
    Flow = {}
    Request = {r1, r2}
    NoHash = NoHash
    NoSid = NoSid
    NoFamily = NoFamily
    NoFlow = NoFlow
    Caps = {0, 1}
    SessionTTL = 3
    TokenTTL = 2
    FlowTTL = 1
    Grace = 0
    Timeout = 1
    MaxTime = 1
    MaxCounter = 2
    BumpMayFail = TRUE
    ReadsMayLag = TRUE
SPECIFICATION Spec
SYMMETRY Symmetric
INVARIANTS
    TypeOK
    RotationsAreSerial
    ClampedWithinSession
PROPERTIES
    EndedFamilyStaysEnded
    ImplementsLineages
CHECK_DEADLOCK FALSE
