\* Serve mode: the reaper, a client and two shutdowns at once.
SPECIFICATION FairSpec
CONSTANTS
    Key = {k1}
    Handler = {h1}
    Stopper = {s1, s2}
    GlobalMaxOpen = 1
    MaxConcurrentQuery = 1
    QueueDepth = 1
    IdleReaping = TRUE
    MaxConnID = 2
    None = None
INVARIANTS
    IInv
PROPERTIES
    OnlyStaleReaped
    IdlePoolReaped
    StopEnds
