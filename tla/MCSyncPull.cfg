SPECIFICATION PullFairSpec
CONSTANTS
    r1 = r1  r2 = r2  r3 = r3  u1 = u1  u2 = u2  u3 = u3  b1 = b1  d1 = d1
    Requests <- MCRequests
    Uuids <- MCUuids
    Bodies <- MCBodies
    Content <- MCContent
    Redacted = Redacted
    Personal = {}
    Retention = 0
    MaxTime = 2
    Devices <- MCDevices
    Visible <- MCVisible
    HeaderId <- MCHeaderId
    RowId <- MCRowId
    PageSize = 1
    MaxFailures = 2
INVARIANT PullInv
PROPERTIES CursorBackOnlyUnread CaughtUp
