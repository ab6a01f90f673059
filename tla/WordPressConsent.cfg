CONSTANTS
    t1 = t1
    t2 = t2
    Threads <- TwoThreads
    MaxRevisions = 2
    MaxDecisions = 2
    RecoveryAge = 1
    MaxClock = 1
    MaxRequests = 3
    MaxFaults = 1

SPECIFICATION FairSpec
INVARIANT TypeOK
INVARIANT ClaimedIsCurrent
INVARIANT WriterHoldsClaim
INVARIANT ReceiptMatches
PROPERTY ApplySettles
PROPERTY AppliedIsFinal
CHECK_DEADLOCK FALSE
