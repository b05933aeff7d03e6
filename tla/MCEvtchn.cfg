CONSTANTS
    p1 = p1
    p2 = p2
    NoPort = NoPort
    Port <- TwoPorts
    Dpc <- OnePort
    XenPort = {1, 2}
    Raised <- OrdinaryPort
    MaxEvents = 3
    MaxSuspends = 1
SPECIFICATION FairSpec
INVARIANTS
    PortOutlivesUsers
    DpcConsistent
PROPERTIES
    
    StopReturns
