CONSTANTS
    Repositories = {r1, r2}
    Elsewhere = {d}
    MaxSegments = 2
    MaxPrompts = 3
SPECIFICATION Spec
INVARIANTS MarkerBelongs PlaceholderServed NoticeGiven
