CONSTANTS
    o1 = o1
    o2 = o2
    r1 = r1
    r2 = r2
    c1 = c1
    c2 = c2
    Government = Government
    Owners = {o1, o2}
    Requests = {r1, r2}
    Calls = {c1, c2}
    MaxCalls = 4
    Estimate = 12
    Amounts = {3, 7}
    Proponent <- MCUneven
SPECIFICATION Spec
INVARIANTS
    TypeOK
    
    
    
SYMMETRY SymmetryUneven
CHECK_DEADLOCK FALSE
