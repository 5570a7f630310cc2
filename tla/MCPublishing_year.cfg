SPECIFICATION PublishingSpec
CONSTANTS
    Orgs = {o1, o2}
    Years = {y1, y2}
    Admins = {a1, a2}
    MaxUploads = 2
    MaxPublished = 2
    MaxCorrected = 1
    MaxDbErrors = 1
PROPERTIES OnlyThatYear
SYMMETRY Sym
CHECK_DEADLOCK FALSE
