SPECIFICATION FairSpec
CONSTANTS
    a1 = a1  a2 = a2  g1 = g1  g2 = g2
    Admins <- MCAdmins
    Grants <- MCGrants
    Amounts <- MCAmounts
    Costs <- MCCosts
    MaxFunds = 2
    MaxFailures = 1
INVARIANTS LedgerInv EndsOnce
PROPERTIES ImplementsGrantPool ExpiredEnds
\* Every grant may have ended.
CHECK_DEADLOCK FALSE
