CONSTANTS
    User = {u1, u2}
    Member = {"n1"}
    Sub = {s1}
    Invite = {i1, i2}
    Request = {r1, r2}
    Nobody = Nobody
    NoSub = NoSub
    NoInvite = NoInvite
    ReadsMayLag = FALSE
    StorageMayFail = TRUE
SPECIFICATION Spec
SYMMETRY Symmetric
INVARIANTS
    ScopedAccess
    AccessWasShared
    RoutesAgree
CHECK_DEADLOCK FALSE
