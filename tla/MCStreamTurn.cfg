SPECIFICATION FairTurnSpec
CONSTANTS
    Pieces = 3
    MaxWriteErrors = 1
    Statuses = {"searching", "answering"}
    MaxEmitted = 2
    Sentinel = "sentinel"
INVARIANTS StoredOnce DoneIsStored ChatShownIsStored
PROPERTIES KeepsOrder PreSaveLands LeavingEnds
CHECK_DEADLOCK FALSE
