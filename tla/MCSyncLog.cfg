SPECIFICATION FairSpec
CONSTANTS
    r1 = r1  r2 = r2  r3 = r3  r4 = r4
    u1 = u1  u2 = u2  b1 = b1  b2 = b2
    Requests <- MCRequests
    Uuids <- MCUuids
    Bodies <- MCBodies
    Content <- MCContent
    Personal <- MCPersonal
    Redacted = Redacted
    Nobody = Nobody
    Retention = 0
    MaxTime = 2
INVARIANTS AnswerInv
PROPERTIES GaplessCommitOrder ConflictOnlyOnOtherContent AllAnswered ImplementsEventLog
\* Every transaction is answered and the clock is at its bound.
CHECK_DEADLOCK FALSE
