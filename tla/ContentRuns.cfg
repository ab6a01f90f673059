CONSTANTS
    p1 = p1
    p2 = p2
    Plans <- TwoPlans
    MaxRevisions = 2
    RunTimeout = 1
    MaxClock = 1
    MaxFaults = 1
    MaxRuns = 2
    MaxReviewRuns = 2
    ReviewThreads = 1
    MaxDraftRuns = 2
    DraftWorkers = 1

SPECIFICATION FairSpec
INVARIANT TypeOK
INVARIANT RunsAreEnded
INVARIANT PermitsMatchWorkers
PROPERTY ReviewKeepsLedger
PROPERTY DraftKeepsLedger
PROPERTY DraftsFitTheirContext
PROPERTY RunsSettle
CHECK_DEADLOCK FALSE
