SPECIFICATION Spec
CONSTANTS
    c = c
    alias = alias
    d = d
    t = t
    basic = basic
    None = None
    Failed = Failed
    MaxVersion = 2
    Group = {basic}
    Template = {t}
    Name <- MCName
    Id <- MCId
    Listing <- MCListing
INVARIANTS
    ViewTypeOK
PROPERTIES
    ReadsAsPromised
