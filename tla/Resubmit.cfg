SPECIFICATION Spec
CONSTANTS
    e1 = e1
    e2 = e2
    w1 = w1
    w2 = w2
    c1 = c1
    c2 = c2
    Experts <- OneExpert
    Tasks <- OneTask
    MaxQueueSize = 1
    MaxSequence = 2
    Workers <- TwoWorkers
    NumWorkers = 1
    Controllers = {c1}
    MayStopWithoutWait = FALSE
    HandlersMayEscape = FALSE
    NoEntry = NoEntry
INVARIANT
    WaitingIsCancellable
