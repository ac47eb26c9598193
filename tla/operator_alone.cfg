SPECIFICATION Spec
CONSTANTS
    driver = driver
    lead = lead
    Client = {driver}
    Verbs = {"start", "report", "finish", "set", "activity", "clear"}
    MaxIterations = 2
    MaxStarts = 3
    Kills = TRUE
INVARIANTS
    TypeOK
PROPERTIES
    KeepsLedger
