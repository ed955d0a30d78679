\* Two clients and two databases with a slot each: openers race, pools are closed under queries.
SPECIFICATION Spec
CONSTANTS
    Key = {k1, k2}
    Handler = {h1, h2}
    Stopper = {}
    GlobalMaxOpen = 2
    MaxConcurrentQuery = 1
    QueueDepth = 1
    IdleReaping = FALSE
    MaxConnID = 3
    None = None
SYMMETRY Interchangeable
INVARIANTS
    SlotAccounting
    RegistryConsistent
    LiveOrClosed
    RepliesTrue
    QuerySlotAccounting
    TaskInOnePlace
    WorkerPerPool
PROPERTIES
    RegistrySpec
