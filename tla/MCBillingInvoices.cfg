SPECIFICATION FairSpec
CONSTANTS
    m1 = m1  p1 = p1  p2 = p2
    Months <- MCMonths
    Amounts = {1, 2}
    Processes <- MCProcesses
    Grace = 0
    MaxFailures = 1
INVARIANTS LockInv
PROPERTIES FinalAmountFixed ReopenedByScanOnly UnpaidBecomesOverdue
