SPECIFICATION Spec
CONSTANTS
    cap = cap
    pr = pr
    rival = rival
    root = root
    wc = wc
    wp = wp
    w2 = w2
    u = u
    a = a
    b = b
    x = x
    y = y
    f = f
    g = g
    None = None
    Overseer = Overseer
    c1 = c1
    c2 = c2
    Client = {c1, c2}
    Rival = {rival}
    Root = root
    Dir <- MCDir
    Registered = {root, wc, wp, w2}
    AdmitSpecs <- MCAdmitSpecs
    Homes <- MCHomes
    Worktrees <- MCWorktrees
    NoopTrees = {wc, w2}
    MaxPlans = 3
    MaxEvents = 2
    Overlap = FALSE
SYMMETRY ClientSymmetry
INVARIANTS
    IntakeTypeOK
PROPERTIES
    AdmissionsKept
    TreesGoLast
CHECK_DEADLOCK FALSE
