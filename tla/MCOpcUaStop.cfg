SPECIFICATION FairSpec
CONSTANTS
    NodeSpecs <- SampleSpecs
    MaxCommands = 2
    MaxWrites = 1
    MaxBatch = 2
    MaxRun = 1
PROPERTY StopServerStops
CHECK_DEADLOCK FALSE
