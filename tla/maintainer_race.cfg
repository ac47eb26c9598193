SPECIFICATION Spec
CONSTANTS
    d1 = d1
    d2 = d2
    i1 = i1
    i2 = i2
    i3 = i3
    c0 = c0
    c1 = c1
    Driver = {d1, d2}
    Nobody = Nobody
    Input = {i1}
    Absent = Absent
    GenerationOf <- MCFlatGeneration
    WorldMoves <- MCNoMoves
    Children = {c1}
    ChildMoves <- MCNoChildMoves
    ReadyChildren = {c1}
    BlockedChildren = {}
    DriverKind = "capability"
    FailureBudget = 2
    Cooldown = 1
    MaxPasses = 1
    Hazards = {"crash", "kill", "release", "edits", "rebind", "provision", "checkpoint"}
SYMMETRY DriverSymmetry
INVARIANTS
    OnePassAtATime
    NoPassOnSettledInput
    ParkIsEarned
    ReadyUnlessCut
