SPECIFICATION Spec
CONSTANTS
    Lens = {wide, main}
    UltraWide = wide
    Shots = {p1, p2}
    MaxOpens = 5
    MaxPhotos = 2
    None = None
INVARIANT
    CameraIsReleased
CHECK_DEADLOCK FALSE
