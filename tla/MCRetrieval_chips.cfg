SPECIFICATION Spec
CONSTANTS
    t1 = t1
    t2 = t2
    wanted = wanted
    other = other
    housing = housing
    jobs = jobs
    Turns = {t1, t2}
    Pairs = 1
    Queries = 2
    Threads = 2
    Services = {wanted, other}
    Topics = {housing, jobs}
    Other = Other
    NoTopic = NoTopic
    ThisYear = 2026
    Unsaid = Unsaid
    Failed = Failed
    Many = 0
    OkmsTop = 2
    GsndTop = 1
    GuideFew = 2
    GuideTop = 2
    Docs <- MCDocs
    Place <- MCPlace
    Asks <- MCAsks
INVARIANTS ChipShowsItsCount
CHECK_DEADLOCK FALSE
