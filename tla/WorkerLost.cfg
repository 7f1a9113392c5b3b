SPECIFICATION FairSpec
CONSTANTS
    e1 = e1
    e2 = e2
    w1 = w1
    w2 = w2
    c1 = c1
    c2 = c2
    Experts <- TwoExperts
    Tasks <- TwoTasks
    MaxQueueSize = 2
    MaxSequence = 2
    Workers <- TwoWorkers
    NumWorkers = 1
    Controllers = {c1}
    MayStopWithoutWait = FALSE
    HandlersMayEscape = TRUE
    NoEntry = NoEntry
PROPERTY
    JoinNotBlocked
