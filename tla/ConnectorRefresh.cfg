CONSTANTS
    s1 = s1
    s2 = s2
    c1 = c1
    c2 = c2
    Processes <- TwoProcesses
    Connectors <- OneConnector
    MaxRuns = 2
    MaxTasks = 3
    MaxClock = 1

SPECIFICATION Spec
SYMMETRY RefreshSymmetry
INVARIANT TypeOK
INVARIANT OneOpenRun
INVARIANT OneWorkerPerRun
INVARIANT MetricsMatchRuns
INVARIANT RecoveredStaysFailed
INVARIANT NoSelfRecovery
CHECK_DEADLOCK FALSE
