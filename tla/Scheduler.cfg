CONSTANTS
    Experts <- MCExperts
    ScoreScale = 4
    ReuseCost = 3
    MinimumBenefit = 0
    NoDistance = NoDistance
    NoCapacity = NoCapacity
    Calls <- MCCalls
    EvictionCalls <- MCEvictionCalls
SPECIFICATION Spec
INVARIANTS
    NoOvercommit
    PlanIsFull
    StrongestGetTheSpace
    JustEnough
    FewestAmongEquals
