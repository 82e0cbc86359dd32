SPECIFICATION Spec
CONSTANTS
    t1 = t1
    t2 = t2
    r1 = r1
    r2 = r2
    r3 = r3
    Tabs = {t1, t2}
    Users = {u1}
    Requests = {r1, r2}
    TabOf <- OneEach
    MaxPairs = 2
    MaxMishaps = 1
    MaxFailures = 1
    None = None
INVARIANT
    LockIsExclusive
PROPERTIES
    SignOutsAreWarranted
    LogoutIsFinal
    EveryCallEnds
CHECK_DEADLOCK FALSE
