CONSTANTS
    c1 = c1
    c2 = c2
    h1 = h1
    h2 = h2
    Client <- OneClient
    Handler <- TwoHandlers
    MaxLaunches = 1
    MaxRequests = 1
    MaxSuspends = 1
    MaxAnonymous = 1
    Booted = FALSE
    XenbusMayFail = TRUE
SPECIFICATION Spec
CHECK_DEADLOCK FALSE
SYMMETRY HandlerSymmetry
INVARIANTS
    WaitedTokensInhibit
    HandlersInUseAreListed
