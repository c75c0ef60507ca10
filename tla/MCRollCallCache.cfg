SPECIFICATION CacheFairSpec
CONSTANTS
    m1 = m1  m2 = m2  p1 = p1  p2 = p2
    Nothing = Nothing
    Marks <- MCMarks
    Periods <- MCPeriods
    MaxClock = 3
    MaxLog = 3
    PageSize = 2
    Retention = 1
    MaxKills = 1
INVARIANT CacheInv
PROPERTY OneRowCatchesUp
\* The log is at its bound and caught up with, the clock has stopped.
CHECK_DEADLOCK FALSE
