SPECIFICATION FairSpec
CONSTANTS
    t = t  u = u
    Tabs <- MCTabs
    MaxPairs = 2
    MaxChanges = 1
    MaxFailures = 1
INVARIANTS SessionInv RevokedIsGone
PROPERTY DeactivatedStops
\* No further pair is signed.
CHECK_DEADLOCK FALSE
