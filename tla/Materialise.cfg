SPECIFICATION RowsFairSpec
CONSTANTS
    c1 = c1
    c2 = c2
    Checks = {c1, c2}
    Direct = {c1}
    Passes = {p1}
    Edits = {e1}
    Requests = {q1}
    Scenes <- MCScenes
    MaxCrashes = 1
INVARIANTS
    RowsTypeOK
PROPERTIES
    RowsFollowAssignments
    EffectiveChecksRun
    ExcludedRowsPark
