SPECIFICATION Spec
CONSTANTS
    i1 = i1
    i2 = i2
    i3 = i3
    a = a
    b = b
    d = d
    e = e
    c1 = c1
    c2 = c2
    r1 = r1
    Images = {i1, i2}
    Holds = {a, b, d, e}
    Home <- Pairs
    Routes = {r1}
    Clients = {c1}
    RouteSize = 2
    None = None
SYMMETRY SameHome
INVARIANT
    MatchesFollowTheReset
PROPERTY RemapIsHoldByHold
CHECK_DEADLOCK FALSE
