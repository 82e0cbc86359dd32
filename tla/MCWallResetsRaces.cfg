SPECIFICATION Spec
CONSTANTS
    i1 = i1
    i2 = i2
    i3 = i3
    a = a
    b = b
    d = d
    e = e
    c1 = c1
    c2 = c2
    r1 = r1
    Images = {i1, i2, i3}
    Holds = {a, d}
    Home <- Firsts
    Routes = {r1}
    Clients = {c1, c2}
    RouteSize = 2
    None = None
SYMMETRY SameKind
INVARIANTS
    OneActiveImage
    PendingResetIsCurrent
    AppliedResetIsDetected
    RoutesKeepToOneImage
CHECK_DEADLOCK FALSE
