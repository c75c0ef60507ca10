SPECIFICATION FairSpec
CONSTANTS
    a = a  b = b  j1 = j1  j2 = j2  j3 = j3
    Batches <- MCBatches
    Jobs <- MCJobs
    BatchOf <- MCBatchOf
    Bypass = {b}
    Disaster = {b}
    Ceiling = 2
    MaxAttempts = 2
    MaxMonth = 1
    MaxFailures = 2
INVARIANTS SmsInv DuplicateNeedsLostSid
PROPERTIES EveryJobEnds
\* Everything has been sent.
CHECK_DEADLOCK FALSE
