SPECIFICATION MCSpec
CONSTANTS
    Keywords = {k1, k2}
    Readers = {r1}
    Refresher = refresher
    Changes = {"later", "sameSecond", "deactivate"}
    MidReload = TRUE
    Errors = {"check", "load", "stamp"}
    MaxChanges = 3
    MaxErrors = 1
    Traced = {q1, q2}
    Streamed = {q1}
    MaxSearches = 1
    MaxPieces = 2
    Editors = {"e1", "e2"}
    PageSize = 1
    FirstRows = 2
    MaxEdits = 2
INVARIANTS SeenIsCurrent TraceIsOwn PagesCover
PROPERTIES NeverBackward CacheCatchesUp
CHECK_DEADLOCK FALSE
