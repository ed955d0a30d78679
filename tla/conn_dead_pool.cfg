\* A failed probe leaves the dead pool registered.
SPECIFICATION Spec
CONSTANTS
    Key = {k1}
    Handler = {h1}
    Stopper = {}
    GlobalMaxOpen = 1
    MaxConcurrentQuery = 1
    QueueDepth = 1
    IdleReaping = TRUE
    MaxConnID = 1
    None = None
PROPERTIES
    DeadPoolRetired
