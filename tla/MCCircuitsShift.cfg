SPECIFICATION Spec
CONSTANTS
    a1 = a1
    b1 = b1
    b2 = b2
    b3 = b3
    Routes = {a1, b1, b2, b3}
    Own = {a1}
    MaxRoutes = 3
    MaxPosition = 4
    None = None
SYMMETRY SameSetter
INVARIANT
    ReplacementsDoNotCollide
