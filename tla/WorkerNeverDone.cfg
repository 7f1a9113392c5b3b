CONSTANTS
    e1 = e1
    e2 = e2
    w1 = w1
    w2 = w2
    j1 = j1
    NoEntry = NoEntry
    Experts <- MCExperts
    Tasks <- MCTasks
    MaxQueueSize = 2
    MaxSequence = 1
    Workers = {w1}
    Joiners = {j1}
SPECIFICATION FairSpec
PROPERTY JoinEndsWhenAllAreDone
