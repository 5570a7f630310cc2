SPECIFICATION FairSpec
CONSTANTS
    Users = {u1, u2, u3}
    Workers = {w1, w2}
    MaxUsers = 1
    Timeout = 2
    MaxDelay = 1
INVARIANTS OverAdmissionBound
PROPERTIES SessionHolderServed SlotReclaimed
