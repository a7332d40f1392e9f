SPECIFICATION Spec
CONSTANTS
    p1 = p1
    s1 = s1
    s2 = s2
    v1 = v1
    v2 = v2
    Projects <- MCProjects
    Slots <- MCSlots
    Services <- MCServices
    Configs <- MCConfigs
    MaxRestarts = 1
INVARIANTS
    TypeOK
    FailuresBelowLimit
    NoOrphanTimer
    TimerServesItsProject
PROPERTIES
    ShutdownStartsNothing
    StoppedStaysDown
