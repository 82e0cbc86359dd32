SPECIFICATION Spec
CONSTANTS
    u1 = u1
    u2 = u2
    p1 = p1
    p2 = p2
    p3 = p3
    s1 = s1
    s2 = s2
    ann = ann
    bob = bob
    box1 = box1
    box2 = box2
    Users = {u1}
    Mailbox <- OneBox
    Passwords = {p1, p2, p3}
    Subjects = {s1, s2}
    Person <- AnnAndBob
    AddressOf <- BothAtU
    Verified = {s1}
    Active = {s1, s2}
    Tokens = {t1, t2, t3, t4}
    Requests = {r1, r2}
    Invites = {}
    Founders = {}
    PasswordEnabled = TRUE
    AdminManaged = FALSE
    MaxAge = 1
    MaxClock = 1
    MaxVersion = 2
    None = None
SYMMETRY Alike
INVARIANTS
    ClaimedAccountIsTheOwners
    PasswordSessionsFollowThePassword
    OneRefreshTokenPerSession
CHECK_DEADLOCK FALSE
