CONSTANTS
    User = {u1, u2}
    Member = {"n1"}
    Sub = {s1, s2}
    Invite = {i1, i2}
    Request = {r1}
    Nobody = Nobody
    NoSub = NoSub
    NoInvite = NoInvite
    ReadsMayLag = TRUE
    StorageMayFail = FALSE
SPECIFICATION Spec
SYMMETRY Symmetric
INVARIANTS
    TypeOK
    ShownWasShared
CHECK_DEADLOCK FALSE
