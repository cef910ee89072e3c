CONSTANTS
    Group = {g1, g2}
    NoGroup = NoGroup
    Sub = {s1}
    NoSub = NoSub
    SlotCount = 2
    Invocation = {r1, r2}
    Mover = {r1}
    QueriesMayLag = FALSE
    MaxShadows = 0
    CallsMayFail = FALSE
    AUser = {au}
    NoUser = NoUser
    AGroup = {ag}
    NoAGroup = NoAGroup
    MatterGroup = {ag}
    ANode = {an}
    NoANode = NoANode
    AReq = {q1, q2}
    AInvocation = {i1, i2}
    AReadsMayLag = FALSE
    FabricUser = {f1, f2}
    NoFabricUser = NoFabricUser
    ExitCall = {x1}
    NocCall = {c1}
    EnableCall = {e1}
    TopVersion = 3
    MaxExits = 2
    RolesMayChange = FALSE
    FabricCallsMayFail = TRUE
    FleetNode = {n1}
    MaxCerts = 3
    RegCall = {i1, i2}
    RegCallsMayFail = TRUE
    AnyCert = FALSE
    Caller = {u1, u2}
    Mac = {m1, m2, m3}
    IdPool = {d1, d2, d3}
    NoId = NoId
    MaxNodesPerClaimant = 1
    ClaimCall = {i1, i2}
    MintCall = {i1, i2}
    MaxCA = 3
    ClaimsMayFail = TRUE
    CsvRow = {w1, w2, w3}
    NodeName = {b1, b2}
    NoName = NoName
    Worker = {i1, i2}
    LabelsMatch = TRUE
    JobCallsMayFail = TRUE
    Provider = {"p1"}
    PasswordProvider = "p1"
    Account = {a1}
    Mail = {"m1"}
    Phone = {"t1"}
    NoContact = "-"
    Flow = {"f1"}
    SignInCall = {i1, i2}
    OldContacts <- MCOldContacts
    MaxLegs = 2
    MaxProfileEdits = 1
    LookupsMayFail = TRUE
SPECIFICATION DevicesSpec
SYMMETRY Alike
INVARIANTS
    DevicesTypeOK
    OneGroup
    AddedWithProof
    RegisteredCanConnect
    OneIdPerClaim
    OneCAToldSinceForce
    RemovedIsSuperseded
    CountsAddUp
    SignedInByContact
PROPERTIES
    UpdateLeavesOne
CHECK_DEADLOCK FALSE
