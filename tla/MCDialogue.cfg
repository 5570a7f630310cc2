SPECIFICATION Spec
CONSTANTS
    r1 = r1
    r2 = r2
    Regions = {r1, r2}
    Inputs <- MCInputs
    Outputs <- MCOutputs
    Modes = {"chat", "plain", "guide", "follow", "chip"}
    MaxAsks = 1
    Rounds = 2
    MaxLost = 1
INVARIANTS AskedAtMost RoundsInOrder AnswerDecides StreakBound
PROPERTIES Remembered
