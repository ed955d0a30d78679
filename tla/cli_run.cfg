\* A run with a gateway of its own or attached to one with other clients and a
\* reaper, Ctrl+C at any moment; one view of each database asks for a parameter.
SPECIFICATION FairSpec
CONSTANTS
    v1 = v1
    v2 = v2
    v3 = v3
    g1 = g1
    g2 = g2
    View <- MCView
    Group <- MCGroup
    GroupOf <- MCGroupOf
    Prompting = {v1, v3}
    ConnID = {c1, c2}
    Capacity = 2
    MaxInterrupts <- MCMaxInterrupts
    None = None
INVARIANTS
    IInv
    OwnedRunCleansUp
    EveryViewHasItsRow
PROPERTIES
    AttachedKeepsPools
    RunEnds
