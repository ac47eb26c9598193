SPECIFICATION Spec
CONSTANTS
    g1 = g1
    g2 = g2
    g3 = g3
    midi = midi
    hera = hera
    operator = operator
    runtime = runtime
    Generation = {g1, g2}
    None = None
    Actor = {midi}
    Midi = midi
    Operator = {operator}
    Runtime = runtime
    Overlap = FALSE
    Kills = TRUE
SYMMETRY GenerationSymmetry
INVARIANTS
    TypeOK
    RolloutIsLive
PROPERTIES
    OnlyAckedGoesLive
    OnlyGarbageIsCollected
    NothingGoesLiveOnHold
    DeploysInStages
