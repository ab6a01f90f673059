CONSTANTS
    t1 = t1
    t2 = t2
    a1 = a1
    a2 = a2
    Threads <- TwoThreads
    Actions <- TwoActions
    MaxRevisions = 2
    MaxRequests = 3
    MaxFaults = 1

SPECIFICATION FairSpec
INVARIANT TypeOK
INVARIANT OneDraftPerRevision
INVARIANT RecoveredIsOwn
INVARIANT AppliedIffAudited
PROPERTY ClaimSettles
PROPERTY ImplementsConsent
CHECK_DEADLOCK FALSE
