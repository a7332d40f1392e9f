SPECIFICATION ServerSpec
CONSTANTS
    p1 = p1
    s1 = s1
    s2 = s2
    v1 = v1
    Projects <- MCProjects
    Slots <- MCSlots
    Services <- MCServices
    Configs <- MCConfigs
    Submitted <- MCSubmitted
    InitialMaps <- MCInitialMaps
    Endpoints <- MCEndpoints
    ServerEvents = {"scan", "delete_service", "create_service", "files", "shutdown"}
    StartErrors = TRUE
    MaxRestarts = 1
    MaxDepth = 1
INVARIANTS
    ExitLeavesNothingScheduled
PROPERTIES
    ImplementsEngine
CHECK_DEADLOCK FALSE
