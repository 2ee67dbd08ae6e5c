SPECIFICATION Spec
CONSTANTS
    base = base
    a = a
    b = b
    c = c
    d = d
    main = main
    feature = feature
    zero = zero
    o0 = o0
    o1 = o1
    o2 = o2
    o3 = o3
    opBase = opBase
    opA = opA
    opB = opB
    opD = opD
    p1 = p1
    p2 = p2
    w1 = w1
    w2 = w2
    r1 = r1
    free = free
    stale = stale
    none = none
    Records = {base, a, b, c, d}
    RefNames = {main, feature}
    Oids = {o0, o1, o2, o3}
    Zero = zero
    OperationOf <- MCOperations
    UpdatesOf <- MCUpdates
    Replicas = {r1}
    FirstRecord = base
    Publishers = {p1, p2}
    Workers = {}
    CasRetries = 2
    AllowTorn = FALSE
    AllowKill = FALSE
    MaxFaults = 0
    Free = free
    Stale = stale
    NoIndex = none
SYMMETRY Symmetry
INVARIANTS
    LogSound
    PublishedIsListed
    RetryAnswersAlready
    ExhaustedByOthers

