SPECIFICATION AuthoringSpec
CONSTANTS
    a1 = a1
    a2 = a2
    None = None
    Agent = {a1, a2}
    Char <- MCChar
    Name <- MCName
    Programs <- MCPrograms
    Specs <- MCSpecs
    Edits <- MCEdits
    MaxEdits = 2
    Fitting = TRUE
SYMMETRY MCSymmetry
INVARIANTS
    AuthoringTypeOK
    EditsKeepTheRest
