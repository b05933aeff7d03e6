CONSTANTS
    p1 = p1
    p2 = p2
    NoPort = NoPort
    Port <- OnePort
    Dpc <- OnePort
    XenPort = {1}
    Raised <- OnePort
    MaxEvents = 3
    MaxSuspends = 0
SPECIFICATION FairSpec
PROPERTY
    EventsDelivered
