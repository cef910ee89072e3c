CONSTANTS
    Group = {g1, g2}
    NoGroup = NoGroup
    Sub = {s1}
    NoSub = NoSub
    SlotCount = 2
    Invocation = {r1}
    Mover = {r1}
    QueriesMayLag = FALSE
    MaxShadows = 1
    CallsMayFail = TRUE
    Child = {c1}
    LocalId = {l1, l2}
    NoLocal = NoLocal
    Home = {h1, h2}
    NoHome = NoHome
    BridgeCall = {b1}
    ChildCallsMayFail = TRUE
    Kid = {k1}
    EventsInOrder = TRUE
    MaxVersion = 3
    ScheduleId = {"s1"}
    Client = {"c1"}
    LastSecond = 2
    MaxLost = 1
    WritesOverlap = FALSE
    SameSecond = FALSE
SPECIFICATION LifeSpec
INVARIANTS
    LifeTypeOK
    SettledNode
    WholeChildren
PROPERTIES
    
    ChildrenFollow
    
    
CHECK_DEADLOCK FALSE
