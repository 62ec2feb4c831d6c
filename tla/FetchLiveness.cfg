SPECIFICATION FairSpec
CONSTANTS
    c1 = c1
    c2 = c2
    c3 = c3
    Callers <- ThreeCallers
    MaxConcurrent = 2
    MinInterval = 1
    Jitter = 0
    Threshold = 1
    Cooldown = 1
    MaxAttempts = 2
    BaseDelay = 1
    MaxDelay = 1
    Answers <- MCAnswers
    MaxCancels = 0
PROPERTIES
    FetchEnds
    CircuitRecovers
CHECK_DEADLOCK TRUE
