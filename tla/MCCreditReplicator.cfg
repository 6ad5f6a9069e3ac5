CONSTANTS
    b1 = b1
    b2 = b2
    r1 = r1
    w1 = w1
    w2 = w2
    Blocks = {b1, b2}
    Requests = {r1}
    Writers = {w1}
    MaxEvents = 4
    MaxInterrupts = 2
SPECIFICATION Spec
INVARIANTS
    TypeOK
    AppliedIsRecorded
PROPERTIES
    KeepsPromise
CHECK_DEADLOCK FALSE
