CONSTANTS
    p1 = p1
    p2 = p2
    c1 = c1
    c2 = c2
    a1 = a1
    a2 = a2
    a3 = a3
    w1 = w1
    w2 = w2
    r1 = r1
    r2 = r2
    NoCompany = NoCompany
    Projects = {p1, p2}
    Companies = {c1, c2}
    Activities = {a1, a2}
    RetireIds = {r1}
    Workers = {w1, w2}
    MaxCalls = 5
    Developer <- MCDeveloper
    ActivityProject <- MCActivityProject
    CreditEst <- MCCreditEst
    Batches <- MCBatches
    Scope <- OwnProject
SPECIFICATION RequestsSpec
INVARIANTS
    RequestsTypeOK
PROPERTIES
    ImplementsLedger
CHECK_DEADLOCK FALSE
