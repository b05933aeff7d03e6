CONSTANTS
    Client = {c1}
    Watch = {w1, w2}
    NoWatch = NoWatch
    Path = {a, b}
    NoPath = NoPath
    Revocable = {b}
    Started = {w1}
    StartPath = a
    MaxCalls = 2
    MaxSleeps = 1
SPECIFICATION FairWatchSpec
CHECK_DEADLOCK FALSE
INVARIANTS
    WatchesConsistent
    NoTriggerLost
PROPERTIES
    UnregisterReturns
    
