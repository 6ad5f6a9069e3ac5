CONSTANTS
    b1 = b1
    b2 = b2
    r1 = r1
    w1 = w1
    w2 = w2
    Blocks = {b1, b2}
    Requests = {r1}
    Writers = {w1, w2}
    MaxEvents = 4
    MaxInterrupts = 1
SPECIFICATION Spec
SYMMETRY WriterSymmetry
INVARIANTS
    DuplicatesNeedInterrupts
    RetirementFindsItsRequest
PROPERTIES
    DecisionIsFinal
CHECK_DEADLOCK FALSE
