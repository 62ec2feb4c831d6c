SPECIFICATION Spec
CONSTANTS
    c1 = c1
    c2 = c2
    c3 = c3
    Callers <- ThreeCallers
    MaxConcurrent = 2
    MinInterval = 2
    Jitter = 1
    Threshold = 2
    Cooldown = 2
    MaxAttempts = 2
    BaseDelay = 1
    MaxDelay = 2
    Answers <- MCAnswers
    MaxCancels = 1
INVARIANTS
    SlotsConserved
    CircuitMatchesCounter
    AtMostOneEarlyRequest
CHECK_DEADLOCK TRUE
