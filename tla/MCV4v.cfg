CONSTANTS
    RingLen = 10
    MaxMsg = 5
    Irp <- Irps
    FileOf <- Files2
    DstOf <- Dsts2
    LenOf <- Lengths
    KindOf <- Kinds
    StreamFile = {"stream"}
    Dispatcher = {"t"}
    Dpc = "dpc"
    MAX_IRP_COUNT = 3
    Capacity = 2
    Faults <- AllFaults
    Ctx = {"c1", "c2", "c3"}
    Walker = {"dpc", "resume"}
    PortCount = 4
    UserPort = {0, 3}
    Partner = {"p"}
    Backlog = 1
    MayFail = TRUE
    Acc = {"a1", "a2"}
    Conn = {"x1", "x2"}
    SynBacklog = 1
    Reader = {"dpc"}
    MaxSent = 4
    MaxReads = 1
    RecvFaults = TRUE
    MaxData = 2
    MaxUserReads = 2
    MaxStale = 1
    InsertFails = TRUE
SPECIFICATION V4vSpec
INVARIANTS
    ReadsAreExact
    DestinationsMatchQueue
    IrpsAccounted
    
    
    
    
    StreamAgrees
CHECK_DEADLOCK FALSE
