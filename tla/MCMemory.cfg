CONSTANTS
    t1 = t1
    t2 = t2
    NoThread = NoThread
    Thread <- TwoThreads
    CacheUser <- OneThread
    PerFrame = 3
    MaxFrames = 2
    Reserved = 1
    Threshold = 1
    MinPopulation = {0, 2}
    ExpansionMayFail = FALSE
    MaxHeld = 1
    MaxLent = 3
    Granter <- TwoThreads
    Interruptible <- NoThreads
    Ref = {1, 2}
    ByteOf <- SeparateBytes
    Domain = {0, 1}
    Frame = {1, 2}
    MaxSuspends = 2
    MaxPages = 4
    ArraySize = 4
    MaxEvents = 2
    Faults <- NoFaults
SPECIFICATION MemorySpec
INVARIANTS
    
    PoolConsistent
    MinimumKept
    AccessIsGranted
    GrantsPreserved
    RevokedStaysRevoked
    BooksExact
    
    AdvertisedAtRest
PROPERTIES
    BalloonMeetsTarget
