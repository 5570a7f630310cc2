SPECIFICATION MCSpec
CONSTANTS
    Turns = {t1, t2}
    OneTurn = t1
    Asks = {q1, u1}
    Uploads = {u1, u2}
    Greeting = g
    Overlap = {"turn", "ask", "feedback", "delete"}
    Fronts = {"new", "all"}
    Answers = {"ok", "error", "refused"}
    Reactions = {"like"}
    MaxReadErrors = 1
    MaxWriteErrors = 1
    MaxSeconds = 2
    DocLimit = 1
    MaxDocErrors = 1
    MaxFaults = 1
    Orgs = {o1, o2}
    Years = {y1, y2}
    Admins = {a1, a2}
    MaxUploads = 2
    MaxPublished = 2
    MaxCorrected = 1
    MaxDbErrors = 1
    Tables <- Sheets
    Dates <- NamedDates
    FileYear = 2026
    MaxTables = 4
    MaxDates = 3
    MaxPeriods = 2
INVARIANTS WholeTurns KeptAlone RecordedTextExists AnswersFromOwn LiveWasStaged RowsAsWritten
PROPERTIES NothingLostAlone UuidKept
SYMMETRY Sym
CHECK_DEADLOCK FALSE
