CONSTANTS
    Calls = {c1, c2}
    MaxForms = 4
    MaxDocs = 6
    MaxActivities = 2
    Starts = {"new", "authorised"}
SPECIFICATION Spec
INVARIANTS
    TypeOK
    
    AuthorityDecidesOnCertified
    OrderlyDecidesOnSubmitted
    OrderlyShowsIssue
    OrderlyIsNeverStuck
SYMMETRY Symmetry
CHECK_DEADLOCK FALSE
