\* Two connections at a time, of one node or of two, one of which has a short id.
CONSTANTS
    n1 = n1
    n2 = n2
    k1 = k1
    k2 = k2
    c1 = c1
    c2 = c2
    r1 = r1
    m1 = m1
    Nodes = {n1, n2}
    Keys = {k1, k2}
    Conns = {c1, c2}
    Requests = {r1}
    Models = {m1}
    ModelOf <- MCModelOf
    InitKey <- MCInitKey
    Offers <- SomeOrNone
    ShortIds = {n2}
    Depths = {0, 1}
    NoKey = NoKey
    NoConn = NoConn
    NoNode = NoNode
SPECIFICATION Spec
SYMMETRY Symmetry
INVARIANTS
    HubInv
    MapIsServed
    NoLiveOrphan
    BodyOnlyToAssignee
PROPERTIES
    RouteIsTrue
