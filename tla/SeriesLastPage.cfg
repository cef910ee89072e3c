SPECIFICATION QuerySpec
CONSTANTS LastDay = 5
 WeekLength = 2
 PageSizes = {1, 2}
 MaxArrivals = 1
INVARIANTS NextKeyMeansMore
CHECK_DEADLOCK FALSE
