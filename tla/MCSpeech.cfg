SPECIFICATION MCSpec
CONSTANTS
    Calls = {c1, s1}
    Speakers = {s1}
    MaxBreaks = 2
    LongestPiece = 2
    Texts <- MCTexts
    MaxSegments = 3
    MaxHeard = 3
INVARIANTS EndsForAReason EverySegmentOnce HeardIsShown
PROPERTIES CallsEnd ShutdownReleases
CHECK_DEADLOCK FALSE
