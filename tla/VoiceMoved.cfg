SPECIFICATION ReportsSpec
CONSTANTS
    Fixture = {"d1"}
    Title = {"t1", "t2"}
    Abode = {"g1", "g2"}
    NoAbode = "-"
    MaxNews = 4
    ConnectBumps = TRUE
INVARIANT MembersHaveDevices
CHECK_DEADLOCK FALSE
