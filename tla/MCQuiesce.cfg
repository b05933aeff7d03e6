CONSTANTS
    cpuA = cpuA
    cpuB = cpuB
    cpuC = cpuC
    c1 = c1
    c2 = c2
    NoCPU = NoCPU
    CPU <- MCCPU
    Initiator = cpuA
    MaxIpis = 2
    MaxTimeouts = 2
SPECIFICATION BothSpec
INVARIANTS
    FrameOutlivesUsers
    NothingElseRuns
PROPERTIES
    ImplementsStopTheWorld
    QuiesceCompletes
    SuspendAndTokensProgress
