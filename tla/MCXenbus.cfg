CONSTANTS
    r1 = r1
    r2 = r2
    NoRequester = NoRequester
    Requester <- MCRequester
    HighIrql <- MCHighIrql
    CallerBuffer <- MCCallerBuffer
    RingSize = 3
    IndexModulus = 6
    IdModulus = 3
    HeaderLen = 2
    RequestLen = 2
    ReplyLen <- MCReplyLen
    EventLen = 1
    BufferLen = 1
    MaxRequests = 2
    MaxDisturbances = 1
    User = {u1, u2}
    MaxTransactions = 3
    MaxFailures = 1
    MaxResumes = 1
    Operation = {o1, o2, o3}
SPECIFICATION XenbusSpec
CHECK_DEADLOCK FALSE
INVARIANTS
    RequestsConsistent
    
    SuccessMeansCommitted
    
    OffMeansNoneInFlight
PROPERTIES
    ImplementsStoreCalls
    RequestsReturn
