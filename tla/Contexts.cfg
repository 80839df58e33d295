SPECIFICATION Spec
CONSTANTS
    NULL = NULL
    p1 = p1
    p2 = p2
    proj = proj
    prj2 = prj2
    a = a
    bb = bb
    v1 = v1
    v2 = v2
    NodeAlign = 2
    Process = {p1, p2}
    Names = {proj, prj2, a, bb}
    Projects = {proj, prj2}
    Length <- AllLengths
    Addrs = {v1, v2}
    Blocks = 3
    RootSize = 6
    ProjectSize = 6
    MaxCalls = 4
SYMMETRY Symmetry
CHECK_DEADLOCK FALSE
INVARIANT ContextInv
PROPERTY SetupFailsOnlyWhenFull
PROPERTY ImplementsAssociations
