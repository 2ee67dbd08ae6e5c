SPECIFICATION Spec
CONSTANTS
    c1 = c1
    c2 = c2
    a = a
    b = b
    d = d
    p1 = p1
    p2 = p2
    Courses = {c1, c2}
    Slugs = {a, b, d}
    Clients = {p1, p2}
    Notes = {"n"}
    CatalogsOf <- RaceCatalogs
    LegacyOf <- MCLegacy
    AllowReplace = FALSE
    MaxAttempts = 1
    MaxReplacements = 0
SYMMETRY Symmetry
INVARIANTS
    NoCreditTransfer
    HeldRowsKeepIdentity
PROPERTIES
    NotesNeverErased
    IdentityIsStable
    RefreshKeepsHistory
