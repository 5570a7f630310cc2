SPECIFICATION MCSpec
CONSTANTS
    Calls = {c1, s1}
    Speakers = {s1}
    MaxBreaks = 1
    LongestPiece = 2
    Texts <- MCTexts
    MaxSegments = 1
    MaxHeard = 1
INVARIANTS SuggestServed
CHECK_DEADLOCK FALSE
