SPECIFICATION FairSpec
CONSTANTS
    d1 = d1
    d2 = d2
    i1 = i1
    i2 = i2
    i3 = i3
    c0 = c0
    c1 = c1
    Driver = {d1}
    Nobody = Nobody
    Input = {i1, i2, i3}
    Absent = Absent
    GenerationOf <- MCGenerationOf
    WorldMoves <- MCSettlingMoves
    Children = {c0, c1}
    ChildMoves <- MCSettlingChildMoves
    ReadyChildren = {c1}
    BlockedChildren = {}
    DriverKind = "runtime"
    FailureBudget = 2
    Cooldown = 1
    MaxPasses = 2
    Hazards = {"crash", "timeout", "edits", "release"}
INVARIANTS
    SkippedReadyIsCertified
PROPERTIES
    RetriesEnd
    CrashParkIsRetried
