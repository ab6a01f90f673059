CONSTANTS
    t1 = t1
    t2 = t2
    Threads <- TwoThreads
    MaxEvents = 5
    MaxStray = 0
    MaxGrants = 1
    Lifetimes <- OneLifetime
    MaxChanges = 1
    MaxFailures = 1

SPECIFICATION Spec
SYMMETRY ThreadSymmetry
INVARIANT TypeOK
INVARIANT PromotionIsWitnessed
INVARIANT SuccessIsPromoted
INVARIANT PromotionIsAudited
CHECK_DEADLOCK FALSE
