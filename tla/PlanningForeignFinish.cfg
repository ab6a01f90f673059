CONSTANTS
    a1 = a1
    a2 = a2
    d1 = d1
    d2 = d2
    b1 = b1
    NoBinding = NoBinding
    Attempts <- TwoAttempts
    Digests <- OneDigest
    Bindings <- OneBinding
    MaxWorkers = 2
    StaleAfter = 0
    MaxClock = 1
    MaxFaults = 0

SPECIFICATION Spec
PROPERTY QueueEndedBySameBinding
CHECK_DEADLOCK FALSE
