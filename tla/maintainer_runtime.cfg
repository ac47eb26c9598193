SPECIFICATION Spec
CONSTANTS
    d1 = d1
    d2 = d2
    i1 = i1
    i2 = i2
    i3 = i3
    c0 = c0
    c1 = c1
    Driver = {d1}
    Nobody = Nobody
    Input = {i1, i2, i3}
    Absent = Absent
    GenerationOf <- MCGenerationOf
    WorldMoves <- MCWorldMoves
    Children = {c0, c1}
    ChildMoves <- MCChildMoves
    ReadyChildren = {c1}
    BlockedChildren = {c0}
    DriverKind = "runtime"
    FailureBudget = 2
    Cooldown = 1
    MaxPasses = 1
    Hazards = {"timeout", "surface", "postcondition", "checkpoint"}
INVARIANTS
    TypeOK
    CheckpointAgrees
