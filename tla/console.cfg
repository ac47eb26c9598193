SPECIFICATION Spec
CONSTANTS
    a = a
    b = b
    None = None
    Dead = Dead
    Header = Header
    Gens = 2
    LogGens = 2
    Pane <- MCPane
    Unit <- MCUnit
    TitleOrder <- MCTitleOrder
    NameOrder <- MCNameOrder
    LoadingView <- MCLoadingView
    View <- MCView
    Filter <- MCFilter
INVARIANTS
    ConsoleTypeOK
    OneJobOnItsWay
PROPERTIES
    SnapshotsPostdateTheKey
    SnapshotsKeepComing
    DrawerCatchesUp
