SPECIFICATION Spec
CONSTANTS
    MaxCommands = 2
    VisionCommands = 3
    ServerCommands = 3
    WalkCommands = 1
    MaxLate = 2
    LateAcross = FALSE
    Counters = 2
    Segments = 2
    Tries = 2
    TxIds = 4
    AddrSpace = 4
    Channels = 2
    Masters = {"a"}
    Size = 2
    MaxRequests = 2
    MaxPieces = 3
    MaxWrites = 4
    AddrEnd = 6
    Addrs = {"h1", "h2"}
    Topics = {"t1"}
    OpcSpecs <- MCSpecs
    ClientWrites = 2
    MaxBatch = 2
    MaxRun = 1
    OpcNodes = {"o", "p", "q"}
    MaxChanges = 1
INVARIANTS
    TypeOK
    ScannerAnswers
    ModbusAnswers
    ServerAnswers
    VisionAnswers
    OpcUaAnswers
    OpcUaWalk
CHECK_DEADLOCK FALSE
