SPECIFICATION Spec
CONSTANTS
    a = a
    b = b
    c1 = c1
    c2 = c2
    timed = timed
    daemon = daemon
    Client = {c1}
    Stem = {a, b}
    OpSpec = {timed, daemon}
    Scheduled = {timed}
    Installable = {timed, daemon}
    Enabled = {timed}
    StartNow = {timed, daemon}
    Absent = Absent
    Foreign = Foreign
    Root = Root
    Completed = Completed
    Unlisted = Unlisted
    Origins <- MCOrigins
    Moving = {a}
    Lanes = {"author", "agent"}
    Controls = {"enable"}
    MaxPlans = 2
    MaxEvents = 1
    Overlap = FALSE
CHECK_DEADLOCK FALSE
INVARIANTS
    TypeOK
PROPERTIES
    MarkerRespected
    CompletedWhenQuiet
    PlansAreChecked
