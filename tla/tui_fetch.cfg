\* Two views, any of which may ask for a parameter; owned or attached.
SPECIFICATION FairSpec
CONSTANTS
    v1 = v1
    v2 = v2
    g1 = g1
    g2 = g2
    View = {v1, v2}
    Group = {g1, g2}
    GroupMaps <- MCGroupMaps
    Paged = {v1, v2}
    PageSize <- MCPageSize
    RowCounts <- MCRowCounts
    ConnID = {c1, c2}
    Capacity = 2
    None = None
INVARIANTS
    IInv
    SoleWorkerKeepsPool
    PoolOfSoleWorkerClosed
    PagesCoverRows
PROPERTIES
    AttachedTuiKeepsPools
    EveryPaneFilled
