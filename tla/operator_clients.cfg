SPECIFICATION Spec
CONSTANTS
    driver = driver
    lead = lead
    Client = {driver, lead}
    Verbs = {"start", "report", "finish", "append"}
    MaxIterations = 2
    MaxStarts = 2
    Kills = FALSE
SYMMETRY ClientSymmetry
INVARIANTS
    ReconsolidatedWasReported
    ClosedAsCalled
    IterationsOrdered
