CONSTANTS ScheduleId = {"s1"} Client = {"c1","c2"} LastSecond = 2 MaxLost = 1
 WritesOverlap = TRUE SameSecond = FALSE
SPECIFICATION ServicesSpec
INVARIANTS  VersionTells

CHECK_DEADLOCK FALSE
