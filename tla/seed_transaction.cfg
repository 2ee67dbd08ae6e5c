SPECIFICATION Spec
CONSTANTS
    c1 = c1
    c2 = c2
    a = a
    b = b
    d = d
    e = e
    Courses = {c1, c2}
    Slugs = {a, b, d, e}
    CatalogsOf <- MCCatalogs
INVARIANTS
    StatementsAccepted
PROPERTY ImplementsRefresh
