CONSTANTS
    Poisoned = {"project"}
    LateTables = {"programmes", "company", "project", "credit_blocks"}
    MaxOutages = 2
    ItmoEnabled = TRUE
    RetryLimit = 10
SPECIFICATION Spec
INVARIANTS
    TypeOK
    StopsOnlyIfAllFail
    GivesUpNoSooner
PROPERTY OthersCatchUp
CHECK_DEADLOCK FALSE
