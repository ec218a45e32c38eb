\* Two shells sharing a history file, one of them allowing duplicates and one with an editor.
CONSTANTS
    s1 = s1
    s2 = s2
    ls = ls
    cd = cd
    Sessions = {s1, s2}
    Commands = {ls, cd}
    FrequencyLimit = 2
    Limits = {0, 2}
    Editors = {s2}
    Duplicating = {s1}
    Blank = Blank
    Nobody = Nobody
    InitialLists <- ShortLists
    MaxCalls = 3
SPECIFICATION Spec
INVARIANTS
    TypeOK
    SnapshotTrue
    LockReturned
PROPERTIES
    Atomic
    FrequencyCounts
