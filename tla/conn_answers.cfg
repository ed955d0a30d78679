\* Liveness of the clients' requests and of the workers.
SPECIFICATION FairSpec
CONSTANTS
    Key = {k1}
    Handler = {h1, h2}
    Stopper = {}
    GlobalMaxOpen = 1
    MaxConcurrentQuery = 1
    QueueDepth = 1
    IdleReaping = FALSE
    MaxConnID = 2
    None = None
PROPERTIES
    QueryAnswered
    WorkerEnds
    OpenerLeavesLoop
