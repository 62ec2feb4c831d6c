SPECIFICATION Spec
CONSTANTS
    c1 = c1
    c2 = c2
    open = open
    private = private
    Callers = {c1, c2}
    Urls = {open, private}
    Disallowed = {private}
    Tiers = 3
    PoolSize <- MCPoolSize
    EscalateAfter = 2
    Ttl = 1
    MaxContexts = 1
    Answers <- MCAnswers
INVARIANTS
    OneRobotsDownload
    PinIsJustified
    OneBrowser
PROPERTIES
    ExcludedStaysOut
    PinNeverFalls
    FetchEnds
CHECK_DEADLOCK TRUE
