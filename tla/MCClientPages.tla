---------------------------- MODULE MCClientPages ----------------------------
(***************************************************************************)
(* The pages of the web client.  The router mounts one of them at a time,  *)
(* and pages share nothing but the server; so a behaviour follows one of   *)
(* them, "screen", and the others stay as they begin.  The page on which a *)
(* climb is drawn is RouteEditor, which this module extends; the query     *)
(* cache, and the stored photos of a wall, are followed as if they were    *)
(* pages.                                                                  *)
(***************************************************************************)
EXTENDS RouteEditor, ClientQueries, Sequences, TLC

CONSTANTS jug, crimp, chip

\* "None" stands for null and undefined: it is no key, number or id,
\* nor where a picture comes from.
ASSUME NoneIsNoNumber == None \notin Int
ASSUME NoneIsNoSource == None \notin {"upload", "oidc"}

\* A climb of two starts and a foot hold, and one of which a reset has left one hold.
Known == {jug :> "start" @@ crimp :> "start" @@ chip :> "foot", jug :> "finish"}

\* The query cache.
CONSTANTS MaxWrites, MaxFailures
VARIABLES
    key, cachePage, enabled, log, seen, flight, failed, removal, mutation, cacheShown, cacheFailures
cacheVars ==
    <<key, cachePage, enabled, log, seen, flight, failed, removal, mutation, cacheShown, cacheFailures>>
Cache == INSTANCE QueryCache
    WITH page <- cachePage, shown <- cacheShown, failures <- cacheFailures

\* Nor is "None" a write that is under way.
ASSUME NoneIsNoWrite == None \notin [name : Cache!Names, page : Cache!Pages, at : Nat]

\* The camera.
CONSTANTS Lens, UltraWide, Shots, MaxOpens, MaxPhotos
VARIABLES
    cameraMounted, granted, savedLens, gen, stream, live, opener, before, ready, switching, listed,
    active, busy, shot, full, photos
cameraVars ==
    <<cameraMounted, granted, savedLens, gen, stream, live, opener, before, ready, switching, listed,
      active, busy, shot, full, photos>>
Camera == INSTANCE WallCamera WITH mounted <- cameraMounted, saved <- savedLens

\* The list of climbs.
CONSTANTS WallHolds, WallCircuits, WallLinks, WallClimbs, CircuitOrder, MaxGrade, MaxSteps
VARIABLES
    mounted, listAddress, listShown, stored, restored, stale, holds, circuits, loaded, overtaken, steps
listVars ==
    <<mounted, listAddress, listShown, stored, restored, stale, holds, circuits, loaded, overtaken, steps>>
List == INSTANCE RouteList
    WITH Hold <- WallHolds, Circuit <- WallCircuits, Links <- WallLinks,
         Routes <- WallClimbs, Order <- CircuitOrder, address <- listAddress, shown <- listShown

\* A wall has climbs, each with an id of its own, and a circuit has none of them twice.
ASSUME ListBounds == MaxGrade \in Nat /\ MaxSteps \in Nat
ASSUME NoneIsNoCircuit == None \notin WallCircuits
ASSUME LinksAreAddresses == WallLinks \subseteq List!Addresses
ASSUME ClimbsHaveIds ==
    /\ WallClimbs \in Seq([id : Nat, grade : 0..MaxGrade, holds : SUBSET WallHolds, other : BOOLEAN])
    /\ WallClimbs # <<>>
    /\ \A i, j \in DOMAIN WallClimbs : WallClimbs[i].id = WallClimbs[j].id => i = j
    /\ \A c \in WallCircuits :
        /\ CircuitOrder[c] \in Seq(Nat)
        /\ \A i, j \in DOMAIN CircuitOrder[c] : CircuitOrder[c][i] = CircuitOrder[c][j] => i = j

\* A plain link, one that is not canonical, and one with everything.
SomeLinks ==
    LET plain == [holds |-> {}, circuit |-> None, min |-> 0, max |-> 0, other |-> FALSE, junk |-> FALSE]
    IN  {plain, [plain EXCEPT !.min = 2, !.max = 1, !.junk = TRUE]}
            \cup {[plain EXCEPT !.holds = WallHolds, !.circuit = c, !.other = TRUE] : c \in WallCircuits}

\* No climb has two holds, one has no grade, and a circuit has a climb of another wall.
SomeClimbs ==
    LET one == CHOOSE h \in WallHolds : TRUE
        another == CHOOSE h \in WallHolds : h # one
    IN  <<[id |-> 1, grade |-> 1, holds |-> {one}, other |-> TRUE],
          [id |-> 2, grade |-> 0, holds |-> {another}, other |-> FALSE],
          [id |-> 3, grade |-> 2, holds |-> {one}, other |-> FALSE],
          [id |-> 4, grade |-> 1, holds |-> {another}, other |-> TRUE]>>
SomeOrder == [c \in WallCircuits |-> <<4, 9, 3, 1, 2>>]

\* The review of a reset.
CONSTANTS Old, New, MaxCalls

\* Nor is "None" a diff that is being read.
ASSUME NoneIsNoDiff ==
    None \notin [matches : [Old -> New \cup {None}] \cup {None}, holds : (SUBSET New) \cup {None}]
VARIABLES
    detection, review, match, hold, read, due, diff, selection, reviewCalls, reviewMade,
    reviewPlace, torn, answersLost
reviewVars ==
    <<detection, review, match, hold, read, due, diff, selection, reviewCalls, reviewMade,
      reviewPlace, torn, answersLost>>
Review == INSTANCE ResetReview
    WITH shown <- diff, calls <- reviewCalls, made <- reviewMade, place <- reviewPlace, lost <- answersLost

\* The log drawer of a climb.
CONSTANTS Dates, MaxRequests
VARIABLES
    rows, lock, requests, logsMade, reset, logsShown, adding, logEdited, open, choice, dialog, event
logsVars ==
    <<rows, lock, requests, logsMade, reset, logsShown, adding, logEdited, open, choice, dialog, event>>
Logs == INSTANCE ClimbLogs WITH made <- logsMade, shown <- logsShown, editing <- logEdited

\* The feed of a wall or a climb.
CONSTANTS Limit, MaxFeed, MaxChanges, MaxFetches
VARIABLES
    entries, changes, feedPages, touched, feedFetch, fetches
feedVars ==
    <<entries, changes, feedPages, touched, feedFetch, fetches>>

\* Days are numbers, from 1; a page of the feed has an entry, and there may be more of them
\* than one has; and "None" is no cursor.
ASSUME FeedBounds == Dates \subseteq Int /\ 1 \in Dates /\ Limit \in Nat \ {0} /\ MaxFeed \in Nat /\ Limit < MaxFeed
ASSUME NoneIsNoCursor == None \notin [id : Nat, day : Int]
Feed == INSTANCE ActivityFeed WITH MaxEntries <- MaxFeed, pages <- feedPages, fetch <- feedFetch

\* The circuits of a wall.
CONSTANTS WallRoutes, HereRoute, MaxOwn, MaxMishaps
ASSUME WallRoutesAreFinite == IsFiniteSet(WallRoutes) /\ HereRoute \in WallRoutes

\* Nor is "None" the answer to a fetch.
ASSUME NoneIsNoAnswer ==
    None \notin [answer : [routes : Seq(WallRoutes), version : Nat] \cup {None}]
VARIABLES
    circuit, circuitShown, fetch, circuitCalls, circuitMade, others, circuitFailures, circuitPlace,
    pending, own
circuitsVars ==
    <<circuit, circuitShown, fetch, circuitCalls, circuitMade, others, circuitFailures, circuitPlace,
      pending, own>>
Circuits == INSTANCE CircuitEditor
    WITH Route <- WallRoutes, Here <- HereRoute, MaxWrites <- MaxOwn, shown <- circuitShown, calls <- circuitCalls,
         made <- circuitMade, failures <- circuitFailures, place <- circuitPlace

\* The picture on the profile page.
CONSTANTS MaxUploads, MaxUnknown
VARIABLES
    avatarKey, source, objects, avatarCalls, avatarMade, me, preparing, unknown, leaks
pictureVars ==
    <<avatarKey, source, objects, avatarCalls, avatarMade, me, preparing, unknown, leaks>>
Picture == INSTANCE Avatars
    WITH MaxRequests <- MaxUploads, key <- avatarKey, calls <- avatarCalls, made <- avatarMade

\* The stored photos of a wall.
CONSTANTS MaxImages, MaxFaults
VARIABLES
    photoWall, photoRows, photoObjects, queue, photosDue, taken, photoRequests, photosMade, photosOpen,
    photoFaults, left, late
photoVars ==
    <<photoWall, photoRows, photoObjects, queue, photosDue, taken, photoRequests, photosMade, photosOpen,
      photoFaults, left, late>>
Photos == INSTANCE WallPhotos
    WITH MaxUploads <- MaxImages, wall <- photoWall, rows <- photoRows, objects <- photoObjects,
         due <- photosDue, requests <- photoRequests, made <- photosMade, open <- photosOpen,
         faults <- photoFaults

\* The statistics.
CONSTANTS LoggedClimbs, GradeOf, WallOf, Days, Today, Weeks, Months, MaxEntries
VARIABLES
    book, wall
statsVars ==
    <<book, wall>>
Stats == INSTANCE Statistics WITH Climb <- LoggedClimbs

\* Grades are ranks, and days are numbers.
ASSUME LogbookBounds ==
    /\ GradeOf \in [LoggedClimbs -> Nat \cup {None}] /\ LoggedClimbs = DOMAIN WallOf
    /\ Days \subseteq Int /\ Today \in Int
    /\ Weeks \in Nat /\ Months \in Nat /\ MaxEntries \in Nat

\* Three climbs on two walls, one without a grade.
CONSTANTS easy, open1, hard, w1, w2
SomeGrades == easy :> 2 @@ open1 :> None @@ hard :> 5
SomeWalls == easy :> w1 @@ open1 :> w2 @@ hard :> w1

-----------------------------------------------------------------------------

CONSTANT Followed

ASSUME BoundsAreNumbers ==
    {MaxWrites, MaxFailures, MaxOpens, MaxPhotos, MaxRequests, MaxOwn, MaxMishaps, MaxUploads, MaxImages} \subseteq Nat

VARIABLE screen

pages == <<vars, cacheVars, cameraVars, listVars, reviewVars, logsVars, feedVars, circuitsVars,
           pictureVars, photoVars, statsVars, screen>>

\* Of the pages that stay as they begin, one beginning is enough.
PagesInit ==
    /\ screen \in Followed
    /\ Init
    /\ Cache!Init /\ (screen # "cache" => key = "me" /\ cachePage = "walls")
    /\ Camera!Init /\ (screen # "camera" => ~granted /\ savedLens = None)
    /\ List!Init /\ (screen # "list" => circuits = {} /\ ~loaded)
    /\ Review!Init
    /\ Logs!Init /\ (screen # "logs" => ~reset)
    /\ Feed!Init /\ (screen # "feed" => \A e \in entries : e.day = 1)
    /\ Circuits!Init
    /\ Picture!Init /\ (screen # "picture" => avatarKey = None)
    /\ Photos!Init /\ (screen # "photos" => photoRows = {})
    /\ Stats!Init

Editing == screen = "editor" /\ Next
    /\ UNCHANGED <<cacheVars, cameraVars, listVars, reviewVars, logsVars, feedVars, circuitsVars, pictureVars, photoVars, statsVars>>

Caching == screen = "cache" /\ Cache!Next
    /\ UNCHANGED <<vars, cameraVars, listVars, reviewVars, logsVars, feedVars, circuitsVars, pictureVars, photoVars, statsVars>>

Shooting == screen = "camera" /\ Camera!Next
    /\ UNCHANGED <<vars, cacheVars, listVars, reviewVars, logsVars, feedVars, circuitsVars, pictureVars, photoVars, statsVars>>

Listing == screen = "list" /\ List!Next
    /\ UNCHANGED <<vars, cacheVars, cameraVars, reviewVars, logsVars, feedVars, circuitsVars, pictureVars, photoVars, statsVars>>

Reviewing == screen = "review" /\ Review!Next
    /\ UNCHANGED <<vars, cacheVars, cameraVars, listVars, logsVars, feedVars, circuitsVars, pictureVars, photoVars, statsVars>>

Logging == screen = "logs" /\ Logs!Next
    /\ UNCHANGED <<vars, cacheVars, cameraVars, listVars, reviewVars, feedVars, circuitsVars, pictureVars, photoVars, statsVars>>

Reading == screen = "feed" /\ Feed!Next
    /\ UNCHANGED <<vars, cacheVars, cameraVars, listVars, reviewVars, logsVars, circuitsVars, pictureVars, photoVars, statsVars>>

Ordering == screen = "circuits" /\ Circuits!Next
    /\ UNCHANGED <<vars, cacheVars, cameraVars, listVars, reviewVars, logsVars, feedVars, pictureVars, photoVars, statsVars>>

Picturing == screen = "picture" /\ Picture!Next
    /\ UNCHANGED <<vars, cacheVars, cameraVars, listVars, reviewVars, logsVars, feedVars, circuitsVars, photoVars, statsVars>>

Storing == screen = "photos" /\ Photos!Next
    /\ UNCHANGED <<vars, cacheVars, cameraVars, listVars, reviewVars, logsVars, feedVars, circuitsVars, pictureVars, statsVars>>

Counting == screen = "stats" /\ Stats!Next
    /\ UNCHANGED <<vars, cacheVars, cameraVars, listVars, reviewVars, logsVars, feedVars, circuitsVars, pictureVars, photoVars>>

PagesNext ==
    /\ \/ Editing \/ Caching \/ Shooting \/ Listing \/ Reviewing \/ Logging \/ Reading \/ Ordering
       \/ Picturing \/ Storing \/ Counting
    /\ UNCHANGED screen

\* The fairness of each page, while it is the one that is followed.
PagesFairness ==
    /\ WF_cacheVars(screen = "cache" /\ Cache!ServerReads)
    /\ WF_cacheVars(screen = "cache" /\ Cache!Arrives)
    /\ WF_cacheVars(screen = "cache" /\ Cache!Poll)
    /\ WF_cameraVars(screen = "camera" /\ Camera!Answer)
    /\ \A s \in Shots : WF_cameraVars(screen = "camera" /\ Camera!Develop(s))
    /\ WF_listVars(screen = "list" /\ List!Render)
    /\ WF_logsVars(screen = "logs" /\ Logs!FinishClose)
    /\ WF_logsVars(screen = "logs" /\ Logs!Close)
    /\ WF_circuitsVars(screen = "circuits" /\ Circuits!ServerReads)
    /\ WF_circuitsVars(screen = "circuits" /\ Circuits!Arrives)
    /\ WF_circuitsVars(screen = "circuits" /\ Circuits!Serve)
    /\ WF_circuitsVars(screen = "circuits" /\ Circuits!Succeed)
    /\ WF_circuitsVars(screen = "circuits" /\ Circuits!Settle)
    /\ WF_photoVars(screen = "photos" /\ Photos!TakeNext)
    /\ WF_photoVars(screen = "photos" /\ Photos!DrainQueue)
    /\ WF_photoVars(screen = "photos" /\ Photos!MinutePasses)

PagesSpec == PagesInit /\ [][PagesNext]_pages

FairPagesSpec == PagesSpec /\ PagesFairness

-----------------------------------------------------------------------------
(* The properties, as the modules state them.                              *)

\* The types of the pages' state.
PagesTypeOK ==
    /\ TypeOK
    /\ screen = "cache" => Cache!TypeOK
    /\ screen = "camera" => Camera!TypeOK
    /\ screen = "list" => List!TypeOK
    /\ screen = "review" => Review!TypeOK
    /\ screen = "logs" => Logs!TypeOK
    /\ screen = "feed" => Feed!TypeOK
    /\ screen = "circuits" => Circuits!TypeOK
    /\ screen = "picture" => Picture!TypeOK
    /\ screen = "photos" => Photos!TypeOK
    /\ screen = "stats" => Stats!TypeOK

\* A page shows what was written from it, also when a fetch that began before is under way
\* (mutations.ts), and a hold that could not be deleted comes back (deleteHold).  A query
\* that is read page by page skips and repeats no entry that stays as it is, whatever
\* happens between its pages (queryActivity, useActivity).
CacheIsTruthful ==
    /\ screen = "cache" => Cache!OwnWritesShow /\ Cache!RemovalIsUndone
    /\ screen = "feed" => Feed!FeedIsWhole

\* No camera runs that the page has lost hold of (openStream), the shutter is offered for
\* one that runs (switchLens, startCamera), and a capture gives the preview its size back
\* (drawFullSizeFrame).
CameraIsTended ==
    screen = "camera" =>
        Camera!NoCameraIsLost /\ Camera!ReadyShowsTheStream /\ Camera!PreviewIsRestored

\* The filters settle on an address that is canonical, current and stored (RouteList), and
\* a grade range has its bounds in order (selectGrade).
ListIsAsAsked ==
    screen = "list" => List!SettledIsCanonical /\ List!RangeIsInOrder

\* A plain visit does not forget the filters that it restores (skipSaveWallIdRef).
VisitKeepsStored == List!VisitKeepsStored

\* A match that is asked for joins an old hold to a new one (selectHold); a review that has
\* settled shows the reset as it is (invalidateResetQueries); and of apply and discard one
\* is done, the one that is answered (finish, discardReset).
ReviewIsTruthful ==
    screen = "review" =>
        Review!RequestsPairOldAndNew /\ Review!SettledPageIsUpToDate /\ Review!DecisionsStand

\* A flash is the first entry of a climb whatever is logged at once (writeLog), and a new
\* entry never overwrites the one that was edited before (RouteDetail).
LogsAreSound ==
    screen = "logs" => Logs!FlashIsFirst /\ Logs!NewEntryNeverOverwrites

\* No list of a circuit has a route twice (persistRoutes), and one that can be edited has
\* the changes made before it (pendingDraft).
CircuitListIsWhole ==
    screen = "circuits" => Circuits!NoRouteTwice /\ Circuits!DraftHasOwnWrites

\* The picture or photo that a row names is stored (SetAvatar, UploadImage), requests for
\* a picture that come one after the other leave no other behind (ClearAvatar), and the
\* photo of a row that is gone is deleted by its request, queued, or given up knowingly
\* (deleteStorageObjectBestEffort, queueStoredImages).
PicturesAreKept ==
    /\ screen = "picture" => Picture!PictureIsStored /\ Picture!NothingIsLeft
    /\ screen = "photos" => Photos!PhotoIsStored /\ Photos!NothingIsForgotten

\* What a page shows is what there is.  The climbs are in the order that is asked for
\* (sortRoutes), and if there are none, the filters can be cleared (hasRouteFilters); the
\* pyramid counts every climb once, a month shows its hardest climb, the streaks are runs of
\* weeks (stats.ts), and a day has a colour if there is an entry (Stats.tsx).
ViewsMatchTheData ==
    /\ screen = "list" => List!ListIsInOrder /\ List!EmptyListCanBeCleared
    /\ screen = "stats" =>
        /\ Stats!PyramidCountsClimbs /\ Stats!MonthsShowHardest
        /\ Stats!StreaksAreRuns /\ Stats!ColoursShowEntries

\* A page that waits for a detection shows its end (refetchInterval).
DetectionIsNoticed == Cache!DetectionIsNoticed

\* The buttons of the camera come back (setBusy, setSwitching), and the drawer goes away
\* with its page knowing (FilterDrawer).
ControlsComeBack == Camera!ControlsComeBack /\ Logs!DrawerCloses

\* The effects of the list come to rest (RouteList), a circuit's list that is being
\* saved can be edited again (persistRoutes), and a photo that is queued is deleted
\* (RunStorageDeleteQueue).
PagesComeToRest == List!EffectsSettle /\ Circuits!SavesEnd /\ Photos!QueueDrains

=============================================================================
