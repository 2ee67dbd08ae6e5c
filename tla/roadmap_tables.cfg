SPECIFICATION Spec
CONSTANTS
    s1 = s1
    s2 = s2
    s3 = s3
    t1 = t1
    t2 = t2
    f1 = f1
    f2 = f2
    TrackOrder <- MCTracks
    Slugs = {s1, s2, s3}
    Texts = {t1, t2}
    Names = {f1, f2}
    Snapshots <- MCSnapshots
    MaxTopicId = 3
    MaxFollowupId = 2
    MaxFollowups = 2
VIEW tables
SYMMETRY Symmetry
INVARIANTS
    PositionsDense
    RenumberingAccepted
PROPERTIES
    ImplementsOutline
