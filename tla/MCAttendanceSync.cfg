SPECIFICATION FairSpec
CONSTANTS
    e1 = e1  e2 = e2  d1 = d1  d2 = d2  w1 = w1  w2 = w2  c1 = c1
    Nobody = Nobody
    Edits <- MCEdits
    Devices <- MCDevices
    DeviceOf <- MCDeviceOf
    Rank <- MCRank
    EditTime <- MCEditTime
    EditStatus <- MCEditStatus
    Calls <- MCCalls
    CallStatus <- MCCallStatus
    Statuses <- MCStatuses
    Workers <- MCWorkers
    Skew = 1
    MaxTime = 1
    MaxSetbacks = 1
INVARIANT AttendanceInv
PROPERTIES RegressionNeedsStaleRead EveryEditSyncs
\* Every edit is synced or refused and the clock is at its bound.
CHECK_DEADLOCK FALSE
