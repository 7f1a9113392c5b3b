CONSTANTS
    Experts <- MCExperts
    Events <- MCEvents
    Recency <- MCRecency
    RecencyScale = 1000
    RecentWindow = 3
    FrequencyWeight = 3
    RecencyWeight = 2
    TransitionWeight = 5
    MaxStep = 3
    MaxLookups = 1
    Capacity = 2
    Models <- MCModels
    Layers <- MCLayers
    Gates <- MCGates
    CallerSteps <- MCCallerSteps
    Rows <- MCRows
    MaxTokens = 2
    MaxCalls = 2
SPECIFICATION CaptureSpec
INVARIANTS
    CaptureTypeOK
    HoldsTheLastTouched
    OrderedByAccess
    CountersAgree
    DistancesAddUp
    SureSuccessorFirst
    CandidatesNotStarved
    OneTokenOneStep
    OwnForwardOnly
    HooksReleased
    HistoryAgreesWithPredictor
    ScoresAreAccepted
