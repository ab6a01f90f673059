CONSTANTS
    a1 = a1
    a2 = a2
    d1 = d1
    d2 = d2
    b1 = b1
    NoBinding = NoBinding
    Attempts <- TwoAttempts
    Digests <- TwoDigests
    Bindings <- OneBinding
    MaxWorkers = 2
    StaleAfter = 0
    MaxClock = 1
    MaxFaults = 1

SPECIFICATION Spec
SYMMETRY Symmetry
INVARIANT OneFreshDigest
INVARIANT TypeOK
INVARIANT PlanIffCompletedRun
INVARIANT FinishedHasPlan
INVARIANT ClaimReleased
INVARIANT UniqueClaimVersion
INVARIANT CanonicalPlans
INVARIANT OverlapOnlyAfterExpiry
PROPERTY FencedTerminal
PROPERTY ImplementsLedger
CHECK_DEADLOCK FALSE
