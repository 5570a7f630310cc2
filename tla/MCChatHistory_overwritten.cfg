SPECIFICATION Spec
CONSTANTS
    Turns = {t1, t2}
    Asks = {}
    Greeting = g
    Overlap = {"turn"}
    Fronts = {"new"}
    Answers = {"ok"}
    Reactions = {}
    MaxReadErrors = 0
    MaxWriteErrors = 0
PROPERTIES NothingLost
CHECK_DEADLOCK FALSE
