CONSTANTS
    Proposals = {p1}
    Workers = {w1}
    WorkerInServer = FALSE
    MaxSignals = 2
    MaxAttempts = 2
    MaxCalls = 2
    MaxFaults = 2
    p1 = p1
    w1 = w1
SPECIFICATION FairSpec
 
PROPERTY DecisionsStand
INVARIANT EvaluatedIsDecided
 
CHECK_DEADLOCK FALSE
