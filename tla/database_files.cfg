SPECIFICATION Spec
CONSTANTS
    v1 = v1
    cons = cons
    Verbs = {v1}
    Consolidator = cons
    PageCount = 2
    MaxWrites = 2
    MaxRecorded = 2
INVARIANTS
    CopyIsCommitted
    RefusalMeansWrite
    HistoryKept
