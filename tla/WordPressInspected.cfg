CONSTANTS
    t1 = t1
    t2 = t2
    Threads <- OneThread
    MaxRevisions = 1
    MaxDecisions = 1
    RecoveryAge = 1
    MaxClock = 1
    MaxRequests = 3
    MaxFaults = 1

SPECIFICATION Spec
PROPERTY InspectedIsNotRetried
CHECK_DEADLOCK FALSE
