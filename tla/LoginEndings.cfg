CONSTANTS
    Hash = {h1,h2}
    Sid = {s1}
    Family = {f1, f2}
    Flow = {x1}
    Request = {r1, r2}
    NoHash = NoHash
    NoSid = NoSid
    NoFamily = NoFamily
    NoFlow = NoFlow
    Caps = {0}
    SessionTTL = 2
    TokenTTL = 1
    FlowTTL = 1
    Grace = 0
    Timeout = 1
    MaxTime = 1
    MaxCounter = 1
    BumpMayFail = FALSE
    ReadsMayLag = FALSE
SPECIFICATION Spec
SYMMETRY Symmetric
CONSTRAINT CodesOrSignOuts
INVARIANTS
    CodeIsSingleUse
    EndedSessionRefused
    FamiliesEndFirst
CHECK_DEADLOCK FALSE
