CONSTANTS
    t1 = t1
    t2 = t2
    Granter <- TwoThreads
    Interruptible <- NoThreads
    Ref = {1, 2}
    ByteOf <- OneByte
    Domain = {0, 1}
    Frame = {1}
    MaxSuspends = 1
SPECIFICATION EntrySpec
INVARIANTS
    AccessIsGranted
