SPECIFICATION Spec
CONSTANTS
    c = c
    p = p
    w = w
    i1 = i1
    i2 = i2
    None = None
    Order <- MCOrder
    Dir <- MCDir
    Manifest <- MCManifest
    Answer <- MCAnswer
    World <- MCWorld
    OutputRequired = {p}
    Driven = {c}
    Released = {p}
    Files <- MCFiles
    Surface <- MCSurface
INVARIANTS
    ScopeTypeOK
    ShownWasSo
    DerivedAsDocumented
    NeverSilent
CHECK_DEADLOCK FALSE
