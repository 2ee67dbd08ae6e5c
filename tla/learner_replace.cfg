SPECIFICATION Spec
CONSTANTS
    c1 = c1
    c2 = c2
    a = a
    b = b
    d = d
    p1 = p1
    p2 = p2
    Courses = {c1, c2}
    Slugs = {a, b, d}
    Clients = {p1}
    Notes = {}
    CatalogsOf <- MCCatalogs
    LegacyOf <- MCLegacy
    AllowReplace = TRUE
    MaxAttempts = 2
    MaxReplacements = 1
INVARIANTS
    TypeOK
    ConstraintsHold
    CoursesWellFormed
    DoneHasAttempt
    ViewsAgree
