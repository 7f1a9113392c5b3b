SPECIFICATION PipelineFairSpec
CONSTANTS
    e1 = e1
    e2 = e2
    w1 = w1
    w2 = w2
    c1 = c1
    p1 = p1
    Experts <- BothExperts
    Tasks <- PlannedTasks
    MaxQueueSize = 1
    MaxSequence = 3
    Workers <- TwoWorkers
    NumWorkers = 2
    Controllers = {c1}
    MayStopWithoutWait = FALSE
    HandlersMayEscape = FALSE
    NoEntry = NoEntry
    Callers = {p1}
    Plans <- AllPlans
    MinPriority = 1
    MinConfidence = 1
    MaxDecisions = 3
INVARIANTS
    NoDuplicateWork
    AdmittedIsAccepted
PROPERTIES
    ProcessReturns
    StatusFollowsLife
