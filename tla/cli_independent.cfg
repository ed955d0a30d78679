\* A connect that times out hides the rows of other views.
SPECIFICATION Spec
CONSTANTS
    v1 = v1
    v2 = v2
    v3 = v3
    g1 = g1
    g2 = g2
    View <- MCView
    Group <- MCGroup
    GroupOf <- MCGroupOf
    Prompting = {}
    ConnID = {c1, c2}
    Capacity = 2
    MaxInterrupts <- NoInterrupts
    None = None
INVARIANTS
    ViewsIndependent
