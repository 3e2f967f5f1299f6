SPECIFICATION WorkSpec
CONSTANTS
    Person = {u1, u2}
    Worker = {r1, r2}
    Top = {t1, t2}
    Sub = {s1}
    Project = {p1, p2}
    Archived = {p2}
    MaxInstant = 2
    MaxEdit = 3
    None = None
    Viewer = {v1}
    FormField = {r1, r2}
    FieldValue = {u1, u2}
    MaxSaved = 2
    MaxCall = 2
    Nothing = Nothing
    Reader = {w1, w2}
    Slot = {r1, r2}
    MaxComment = 2
    MaxText = 2
    MaxEvent = 2
    Nobody = Nobody
    Writer = w2
INVARIANT CompletionConsistent
INVARIANT SeesNewComment
INVARIANT MentionHeard
PROPERTY OnlyWhileAssigned
PROPERTY ExtensionsRecorded
PROPERTY EditsSurvive
SYMMETRY Interchangeable
CHECK_DEADLOCK FALSE
