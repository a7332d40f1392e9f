SPECIFICATION ServerSpec
CONSTANTS
    p1 = p1
    p2 = p2
    s1 = s1
    s2 = s2
    v1 = v1
    Projects <- MCProjects
    Slots <- MCSlots
    Services <- MCServices
    Configs <- MCConfigs
    Submitted <- MCSubmitted
    InitialMaps <- MCInitialMaps
    Endpoints <- MCEndpoints
    ServerEvents = {}
    StartErrors = FALSE
    MaxRestarts = 1
    MaxDepth = 2
INVARIANTS
    ServerTypeOK
    MutationsExclusive
    DiskMatchesMemory
PROPERTIES
    StartsWithinLimit
