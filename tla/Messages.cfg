CONSTANTS
    Reader = {u1, u2}
    Linked = {u1}
    Phoned = {u2}
    Room = {g1, g2}
    NoRoom = none
    Report = {e1}
    Sender = {s1, s2}
    LastToken = 2
    RelinkMeanwhile = FALSE
    StoresMayFail = TRUE
    House = {h1, h2}
    NoHouse = none
    SkillCall = {"r1"}
    FullLevel = 1
    Hue = {1}
    Warmth = {1}
    Speed = {1}
    MaxChanges = 2
    Fixture = {"d1"}
    Title = {"t1", "t2"}
    Abode = {"g1", "g2"}
    NoAbode = "-"
    MaxNews = 4
    ConnectBumps = TRUE
    TargetNode = {"n1", "n2"}
    MaxRewrites = 1
    Series = {"a"}
    LastTick = 5
    MaxReading = 2
    MaxPoints = 4
    BatchSize = 2
    RetryAttempts = 1
    InOrder = TRUE
    MessagesRepeat = TRUE
    AggregationMayFail = FALSE
    LastDay = 5
    WeekLength = 2
    PageSizes = {1, 2}
    MaxArrivals = 1
    LastKey = 4
    ChunkSize = 2
    MaxAttempts = 2
    MaxBatch = 3
    MaxWrites = 1
    AutoNode = {n1, n2}
    Engine = {i1}
    MaxPuts = 1
    MaxReports = 2
    MaxLeaves = 1
    ChecksHold = TRUE
SPECIFICATION MessagesSpec
INVARIANTS
    MessagesTypeOK
    
    
    PublishedAsAsked
    ToldAsReported
    
    
    AnswersHold
    PagesAreComplete
    
CHECK_DEADLOCK FALSE
