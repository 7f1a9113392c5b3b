CONSTANTS
    e1 = e1
    e2 = e2
    w1 = w1
    w2 = w2
    Absent = Absent
    Torn = Torn
    None = None
    Experts = {e1, e2}
    Workers = {w1, w2}
    MaxVersion = 2
    HandlersFail = TRUE
SPECIFICATION Spec
SYMMETRY Symmetric
INVARIANTS
    GenuinePayload
    OutcomeTellsStages
    LocationTellsDevice
PROPERTY NeverOlder
