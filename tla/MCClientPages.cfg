SPECIFICATION PagesSpec
CONSTANTS
    Followed = {"editor", "cache", "camera", "list", "review", "logs", "feed", "circuits", "picture", "photos", "stats"}
    None = None
    jug = jug
    crimp = crimp
    chip = chip
    Hold = {jug, crimp, chip}
    Climbs <- Known
    MaxVisits = 1
    MaxLost = 1
    MaxWrites = 1
    MaxFailures = 1
    Lens = {wide, main}
    UltraWide = wide
    Shots = {p1, p2}
    MaxOpens = 4
    MaxPhotos = 2
    WallHolds = {h1, h2}
    WallCircuits = {c1}
    WallLinks <- SomeLinks
    WallClimbs <- SomeClimbs
    CircuitOrder <- SomeOrder
    MaxGrade = 2
    MaxSteps = 5
    Old = {o1}
    New = {n1, n2}
    MaxCalls = 2
    Dates = {1, 2}
    MaxRequests = 2
    Limit = 2
    MaxFeed = 5
    MaxChanges = 2
    MaxFetches = 4
    WallRoutes = {r1, r2}
    HereRoute = r1
    MaxOwn = 2
    MaxMishaps = 1
    MaxUploads = 3
    MaxUnknown = 1
    MaxImages = 2
    MaxFaults = 2
    LoggedClimbs = {easy, open1, hard}
    GradeOf <- SomeGrades
    WallOf <- SomeWalls
    easy = easy
    open1 = open1
    hard = hard
    w1 = w1
    w2 = w2
    Days = {8, 20, 30}
    Today = 30
    Weeks = 2
    Months = 2
    MaxEntries = 3
INVARIANTS
    PagesTypeOK
    ClimbsAreAsDrawn
    CacheIsTruthful
    
    ListIsAsAsked
    
    LogsAreSound
    CircuitListIsWhole
    
    ViewsMatchTheData
PROPERTIES
    VisitKeepsStored
CHECK_DEADLOCK FALSE
