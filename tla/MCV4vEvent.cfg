CONSTANTS
    Acc = {"a"}
    Conn = {"x"}
    SynBacklog = 1
    Reader = {"dpc"}
    MaxSent = 3
    MaxReads = 2
    RecvFaults = FALSE
SPECIFICATION ListenerSpec
INVARIANTS
    DataSignalled
CHECK_DEADLOCK FALSE
