SPECIFICATION FairSpec
CONSTANTS
    p1 = p1
    s3 = s3
    s1 = s1
    s2 = s2
    Projects <- MCProjects
    Slots <- MCSlots
    Services = {svc}
    LateExecFailure = FALSE
INVARIANTS
    TypeOK
    FinishedExactlyOnce
    StartFailedAtMostOnce
    OutcomeBeforeFinished
    ReportsMatchTable
PROPERTIES
    FollowsSignalProtocol
    StartIsResolved
    WatchdogFreesInstance
