CONSTANTS
    t1 = t1
    t2 = t2
    Threads <- TwoThreads
    MaxRevisions = 1
    MaxDecisions = 1
    RecoveryAge = 1
    MaxClock = 0
    MaxRequests = 4
    MaxFaults = 0

SPECIFICATION Spec
INVARIANT OneWritePerConsent
CHECK_DEADLOCK FALSE
