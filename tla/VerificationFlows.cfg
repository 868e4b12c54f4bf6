CONSTANTS
    Requests = {r1, r2}
    Finishers = {f1}
    NoRequest = NoRequest
    MaxNow = 2
    Ttl = 2
    Cooldown = 1
    TokenTtl = 1
    MaxAttempts = 2
    MaxWait = 0
    MaxTokens = 2
    MaxVersion = 2
    MaxEvents = 1
SPECIFICATION Spec
SYMMETRY Symmetry
CHECK_DEADLOCK FALSE
INVARIANTS
    OneActive
    OneUse
    GuessesCounted
    NoWaitForLostMail
PROPERTIES
    DeliveredCodeStands
    SessionCovered
    SetupKeepsPassword
