SPECIFICATION ExportSpec
CONSTANTS
    s1 = s1
    s2 = s2
    t1 = t1
    t2 = t2
    f1 = f1
    p1 = p1
    p2 = p2
    p3 = p3
    Procs = {p1, p2, p3}
    AllowKill = TRUE
    MaxTime = 4
    TrackOrder <- MCTracks
    Slugs = {s1}
    Texts = {t1, t2}
    Names = {f1}
    Snapshots <- MCSnapshots
    MaxTopicId = 1
    MaxFollowupId = 1
    MaxFollowups = 1
SYMMETRY Symmetry
INVARIANTS
    FreshIsQuiet
PROPERTIES
    NoteUnlessCrossed
