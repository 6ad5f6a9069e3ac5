CONSTANTS
    p1 = p1
    p2 = p2
    c1 = c1
    c2 = c2
    a1 = a1
    a2 = a2
    a3 = a3
    r1 = r1
    r2 = r2
    NoCompany = NoCompany
    Projects = {p1, p2}
    Companies = {c1, c2}
    Activities = {a1, a2, a3}
    RetireIds = {r1, r2}
    Developer <- MCDeveloper
    ActivityProject <- MCActivityProject
    CreditEst <- MCCreditEst
    Batches <- MCBatches
SPECIFICATION Spec
SYMMETRY Symmetry
INVARIANTS
    TypeOK
    RowMatchesSerial
    SerialsPartitionIssued
    
    
    ReservedIsPending
    AcceptNeverThrows
PROPERTIES
    RetiredIsFinal
    PendingKeepsOwner
    OwnerKeepsFirstSerials
CHECK_DEADLOCK FALSE
