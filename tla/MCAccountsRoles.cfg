SPECIFICATION Spec
CONSTANTS
    u1 = u1
    u2 = u2
    p1 = p1
    p2 = p2
    p3 = p3
    s1 = s1
    s2 = s2
    ann = ann
    bob = bob
    box1 = box1
    box2 = box2
    Users = {u1, u2}
    Mailbox <- TwoBoxes
    Passwords = {p1}
    Subjects = {s1, s2}
    Person <- ByAnn
    AddressOf <- OneEach
    Verified = {s1, s2}
    Active = {s1}
    Tokens = {t1, t2}
    Requests = {r1, r2}
    Invites = {i1}
    Founders = {u1}
    PasswordEnabled = TRUE
    AdminManaged = TRUE
    MaxAge = 0
    MaxClock = 2
    MaxVersion = 1
    None = None
SYMMETRY Alike
INVARIANT
    AdminsAreMembersOrInvited
PROPERTIES
    InvitesAreUsedOnce
    LoginMethodRemains
CHECK_DEADLOCK FALSE
