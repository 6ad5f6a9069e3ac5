CONSTANTS
    m1 = m1
    m2 = m2
    o1 = o1
    k1 = k1
    k2 = k2
    k3 = k3
    x1 = x1
    None = None
    LotIds = {l1, l2}
    Companies = {c1, c2}
    Keys = {k1, k3, x1}
    Callers = {m1, m2, o1}
    Managers = {m1, m2}
    Officers = {o1}
    Quantities = {1, 2}
    EventTypes = {"TRANSFERRED", "RETIRED", "WITHHELD", "RELEASED", "REVERSED"}
    Requests = {r1}
    Blocks = {b1}
    KeysOf <- MCKeysOf
    IssueKey <- MCIssueKey
SPECIFICATION IssuanceSpec
INVARIANTS
    TypeOK
    ProjectionOfJournal
    SupplyIsConserved
    ApprovedIsIssued
PROPERTIES
    
    FinalUnlessReversed
SYMMETRY Symmetry
CHECK_DEADLOCK FALSE
