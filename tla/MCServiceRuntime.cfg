SPECIFICATION Spec
CONSTANTS
    d1 = d1
    Drivers = {d1}
    MaxRequests = 3
    MaxBuffer = 3
    MaxEvents = 1
    MaxRaw = 2
    KillSeen = {TRUE}
    Answers = {"done", "null", "error"}
    Crashes = TRUE
INVARIANTS
    TypeOK
    OutcomeIsTheAnswer
    EveryCallWaitedFor
    KeepAliveDrains
CHECK_DEADLOCK FALSE
