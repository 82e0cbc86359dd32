------------------------------- MODULE WallResets -------------------------------
(***************************************************************************)
(* The images of one wall, their detected holds, the partial reset that    *)
(* relates the holds of a new photo to those of the active one, and the    *)
(* routes drawn on them (server/internal/wall, server/internal/route).     *)
(*                                                                         *)
(* An action is one database transaction.  A handler that reads the active *)
(* image outside its transaction is one action per statement group: what   *)
(* it read stays in its request while other handlers run.  Detection is    *)
(* the abstract queue of DetectionSpec: fate[i] is the fate of image i's   *)
(* job, which is inserted and deleted with the image, so that it also says *)
(* whether the row of the image exists.                                    *)
(***************************************************************************)
EXTENDS Naturals, Sequences, Functions

CONSTANTS
    Images,         \* ids of wall_images rows
    Holds,          \* ids of holds rows
    Home,           \* the wall_image_id each hold is inserted with
    Routes,         \* ids of routes rows
    Clients,        \* requests being served at the same time
    RouteSize,      \* holds of a route; the code asks for at least two
    None            \* NULL

ASSUME ConstantsOK ==
    /\ Home \in [Holds -> Images]
    /\ RouteSize \in Nat \ {0, 1}
    /\ None \notin Images

VARIABLES
    wall,           \* the walls row exists
    fate, active, review, parent,       \* wall_images and detection_jobs
    hold,           \* holds
    matches,        \* hold_matches: pairs <<old_hold_id, new_hold_id>>
    routes, on, ids,                    \* routes: wall_image_id, hold_ids
    seen,           \* old holds read by the worker that processes the image
    req             \* requests that have read the active image

imageVars == <<fate, active, review, parent>>
routeVars == <<routes, on, ids>>
vars == <<wall, imageVars, hold, matches, routeVars, seen, req>>

Present(i) == fate[i] \in {"waiting", "done", "failed"}

HoldLists == [1..RouteSize -> Holds]

Idle == [op |-> "idle"]

Requests ==
    {Idle}
    \cup [op : {"partial", "addHold", "removeHold", "create"}, image : Images]
    \cup [op : {"update"}, image : Images, route : Routes]
    \cup [op : {"createValid"}, image : Images, ids : HoldLists]
    \cup [op : {"updateValid"}, image : Images, route : Routes, ids : HoldLists]

TypeOK ==
    /\ wall \in BOOLEAN
    /\ fate \in [Images -> {"none", "waiting", "done", "failed", "removed"}]
    /\ active \in [Images -> BOOLEAN]
    /\ review \in [Images -> {"null", "pending", "applied"}]
    /\ parent \in [Images -> Images \cup {None}]
    /\ hold \in [Holds -> {"unused", "present", "deleted"}]
    /\ matches \subseteq Holds \X Holds
    /\ routes \in [Routes -> {"unborn", "present", "deleted"}]
    /\ on \in [Routes -> Images \cup {None}]
    /\ ids \in [Routes -> HoldLists \cup {<<>>}]
    /\ seen \in [Images -> SUBSET Holds]
    /\ req \in [Clients -> Requests]

Init ==
    /\ wall = TRUE
    /\ fate = [i \in Images |-> "none"]
    /\ active = [i \in Images |-> FALSE]
    /\ review = [i \in Images |-> "null"]
    /\ parent = [i \in Images |-> None]
    /\ hold = [h \in Holds |-> "unused"]
    /\ matches = {}
    /\ routes = [r \in Routes |-> "unborn"]
    /\ on = [r \in Routes |-> None]
    /\ ids = [r \in Routes |-> <<>>]
    /\ seen = [i \in Images |-> {}]
    /\ req = [c \in Clients |-> Idle]

-----------------------------------------------------------------------------
(* Helpers *)

HoldsOf(i) == {h \in Holds : Home[h] = i /\ hold[h] = "present"}

FreshHolds(i) == {h \in Holds : Home[h] = i /\ hold[h] = "unused"}

\* The rows of hold_matches WHERE wall_image_id = i: that of the new hold.
MatchesOf(i) == {m \in matches : Home[m[2]] = i}

Touching(H) == {m \in matches : m[1] \in H \/ m[2] \in H}

OneToOne(M) == \A m, n \in M : (m[1] = n[1]) <=> (m[2] = n[2])

\* Deleting the rows of holds H deletes their matches with them.
DeleteHolds(H) ==
    /\ hold' = [h \in Holds |-> IF h \in H THEN "deleted" ELSE hold[h]]
    /\ matches' = matches \ Touching(H)

Pending == {i \in Images : Present(i) /\ review[i] = "pending"}

\* The images D are deleted with what hangs on them (ON DELETE CASCADE), and
\* the images C inserted with their jobs.  The review and parent of a deleted
\* row keep their last value and are not read again.
ReplaceImages(D, C) ==
    /\ fate' = [i \in Images |-> IF i \in C THEN "waiting"
                                 ELSE IF i \in D THEN "removed" ELSE fate[i]]
    /\ seen' = [i \in Images |-> IF i \in D THEN {} ELSE seen[i]]
    /\ DeleteHolds(UNION {HoldsOf(i) : i \in D})

\* ON DELETE SET NULL: parent_image_id when the rows D are gone.
Orphaned(D) == [i \in Images |-> IF parent[i] \in D THEN None ELSE parent[i]]

ActivateToo(i) == active' = [active EXCEPT ![i] = TRUE]                  \* mutant

\* Every other image of the wall is deactivated.
Activate(i) == active' = [j \in Images |-> j = i]

Respond(c) == req' = [req EXCEPT ![c] = Idle]

-----------------------------------------------------------------------------
(* Handlers that read the active image first, and write later. *)

GetActiveWallImage(c) ==
    /\ wall
    /\ req[c] = Idle
    /\ \E i \in Images :
        /\ active[i]
        /\ \/ \E op \in {"partial", "addHold", "removeHold", "create"} :
                req' = [req EXCEPT ![c] = [op |-> op, image |-> i]]
           \/ \E r \in Routes :
                /\ routes[r] = "present"
                /\ req' = [req EXCEPT ![c] = [op |-> "update", image |-> i, route |-> r]]
    /\ UNCHANGED <<wall, imageVars, hold, matches, routeVars, seen>>

\* CreateRoute and UpdateRoute: the holds must belong to the image just read.
ValidateHolds(c) ==
    /\ req[c].op \in {"create", "update"}
    /\ \E s \in [1..RouteSize -> HoldsOf(req[c].image)] :
        \/ /\ req[c].op = "create"
           /\ req' = [req EXCEPT ![c] =
                        [op |-> "createValid", image |-> req[c].image, ids |-> s]]
        \/ /\ req[c].op = "update"
           /\ req' = [req EXCEPT ![c] =
                        [op |-> "updateValid", image |-> req[c].image,
                         route |-> req[c].route, ids |-> s]]
    /\ UNCHANGED <<wall, imageVars, hold, matches, routeVars, seen>>

CreateRoute(c) ==
    /\ req[c].op = "createValid"
    /\ Present(req[c].image)
    /\ \E r \in Routes :
        /\ routes[r] = "unborn"
        /\ routes' = [routes EXCEPT ![r] = "present"]
        /\ on' = [on EXCEPT ![r] = req[c].image]
        /\ ids' = [ids EXCEPT ![r] = req[c].ids]
    /\ Respond(c)
    /\ UNCHANGED <<wall, imageVars, hold, matches, seen>>

UpdateRouteKeepingImage(c) ==                                           \* mutant
    /\ req[c].op = "updateValid"
    /\ routes[req[c].route] = "present"
    /\ ids' = [ids EXCEPT ![req[c].route] = req[c].ids]
    /\ Respond(c)
    /\ UNCHANGED <<wall, imageVars, hold, matches, routes, on, seen>>

UpdateRoute(c) ==
    /\ req[c].op = "updateValid"
    /\ routes[req[c].route] = "present"
    /\ on' = [on EXCEPT ![req[c].route] = req[c].image]
    /\ ids' = [ids EXCEPT ![req[c].route] = req[c].ids]
    /\ Respond(c)
    /\ UNCHANGED <<wall, imageVars, hold, matches, routes, seen>>

CreateHold(c) ==
    /\ req[c].op = "addHold"
    /\ Present(req[c].image)
    /\ \E h \in FreshHolds(req[c].image) : hold' = [hold EXCEPT ![h] = "present"]
    /\ Respond(c)
    /\ UNCHANGED <<wall, imageVars, matches, routeVars, seen>>

DeleteHold(c) ==
    /\ req[c].op = "removeHold"
    /\ \E h \in HoldsOf(req[c].image) : DeleteHolds({h})
    /\ Respond(c)
    /\ UNCHANGED <<wall, imageVars, routeVars, seen>>

ActiveOnceMore(i) == Present(i)                                         \* mutant

\* Under the lock of the wall, the active image is the one read before.
StillActive(i) == active[i]

\* The photo was stored in MinIO meanwhile.
UploadPartial(c) ==
    /\ req[c].op = "partial"
    /\ wall
    /\ StillActive(req[c].image)
    /\ \E i \in Images :
        /\ fate[i] = "none"
        /\ ReplaceImages(Pending, {i})
        /\ parent' = [Orphaned(Pending) EXCEPT ![i] = req[c].image]
        /\ review' = [review EXCEPT ![i] = "pending"]
    /\ active' = [i \in Images |-> active[i] /\ i \notin Pending]
    /\ Respond(c)
    /\ UNCHANGED <<wall, routeVars>>

\* A 4xx or 5xx answer, or a client that goes away: nothing is written.
Refuse(c) ==
    /\ req[c] # Idle
    /\ Respond(c)
    /\ UNCHANGED <<wall, imageVars, hold, matches, routeVars, seen>>

-----------------------------------------------------------------------------
(* Handlers that are one transaction. *)

UploadFull(i) ==
    /\ wall
    /\ fate[i] = "none"
    /\ ReplaceImages(Pending, {i})
    /\ parent' = Orphaned(Pending)
    /\ Activate(i)
    /\ UNCHANGED <<wall, review, routeVars, req>>

DeleteRoute(r) ==
    /\ routes[r] = "present"
    /\ routes' = [routes EXCEPT ![r] = "deleted"]
    /\ UNCHANGED <<wall, imageVars, hold, matches, on, ids, seen, req>>

DeleteWall ==
    /\ wall
    /\ wall' = FALSE
    /\ ReplaceImages({i \in Images : Present(i)}, {})
    /\ parent' = [i \in Images |-> None]
    /\ active' = [i \in Images |-> FALSE]
    /\ routes' = [r \in Routes |-> IF routes[r] = "present" THEN "deleted" ELSE routes[r]]
    /\ UNCHANGED <<review, on, ids, req>>

\* lockPendingReset: the row of the image stays locked to the end.
Reviewable(i) == i \in Pending /\ parent[i] # None /\ ~active[i]

UpsertByOldHold(i, old, new) ==                                         \* mutant
    (matches \ (MatchesOf(i) \cap Touching({old}))) \cup {<<old, new>>}

\* upsertMatch: both holds give up the match they had in this reset.
Upsert(i, old, new) ==
    (matches \ (MatchesOf(i) \cap Touching({old, new}))) \cup {<<old, new>>}

UpdateResetMatch(i) ==
    /\ Reviewable(i)
    /\ \E old \in HoldsOf(parent[i]) :
        \/ matches' = matches \ {m \in MatchesOf(i) : m[1] = old}
        \/ \E new \in HoldsOf(i) : matches' = Upsert(i, old, new)
    /\ UNCHANGED <<wall, imageVars, hold, routeVars, seen, req>>

DeleteResetHold(i) ==
    /\ Reviewable(i)
    /\ \E h \in HoldsOf(i) : DeleteHolds({h})
    /\ UNCHANGED <<wall, imageVars, routeVars, seen, req>>

\* An old hold is projected onto the new photo: the alignment must be stored.
RestoreResetHold(i) ==
    /\ Reviewable(i)
    /\ fate[i] = "done"
    /\ \E old \in HoldsOf(parent[i]), new \in FreshHolds(i) :
        /\ hold' = [hold EXCEPT ![new] = "present"]
        /\ matches' = Upsert(i, old, new)
    /\ UNCHANGED <<wall, imageVars, routeVars, seen, req>>

\* remapRouteHolds: each hold through its match, or the route stays behind.
Remappable(i, s) == \A h \in Range(s) : \E m \in MatchesOf(i) : m[1] = h

RemapReversed(i, s) ==                                                  \* mutant
    [k \in DOMAIN s |-> CHOOSE h \in Holds : <<s[Len(s) + 1 - k], h>> \in MatchesOf(i)]

Remap(i, s) ==
    [k \in DOMAIN s |-> CHOOSE h \in Holds : <<s[k], h>> \in MatchesOf(i)]

Kept(i) ==
    {r \in Routes : routes[r] = "present" /\ on[r] = parent[i] /\ Remappable(i, ids[r])}

ApplicableUndetected(i) == wall /\ Reviewable(i) /\ active[parent[i]]    \* mutant

Applicable(i) == wall /\ Reviewable(i) /\ active[parent[i]] /\ fate[i] = "done"

\* No route and no image changes unless all of them do.
ApplyReset(i) ==
    /\ Applicable(i)
    /\ on' = [r \in Routes |-> IF r \in Kept(i) THEN i ELSE on[r]]
    /\ ids' = [r \in Routes |-> IF r \in Kept(i) THEN Remap(i, ids[r]) ELSE ids[r]]
    /\ Activate(i)
    /\ review' = [review EXCEPT ![i] = "applied"]
    /\ UNCHANGED <<wall, fate, parent, hold, matches, routes, seen, req>>

DiscardReset(i) ==
    /\ i \in Pending
    /\ ReplaceImages({i}, {})
    /\ parent' = Orphaned({i})
    /\ active' = [active EXCEPT ![i] = FALSE]
    /\ UNCHANGED <<wall, review, routeVars, req>>

-----------------------------------------------------------------------------
(* The worker, as the server sees it: see DetectionJobs. *)

LoadPartialParent(i) ==
    /\ fate[i] = "waiting"
    /\ review[i] # "null"
    /\ seen' = [seen EXCEPT ![i] = HoldsOf(parent[i])]
    /\ UNCHANGED <<wall, imageVars, hold, matches, routeVars, req>>

\* The matcher is greedy and one to one; the foreign key refuses a match, and
\* with it the whole transaction, if its old hold was deleted meanwhile.
Storable(M) == OneToOne(M) /\ \A m \in M : hold[m[1]] = "present"

\* New holds, and matches to the old holds read before.
WriteResults(i) ==
    /\ wall
    /\ fate[i] = "waiting"
    /\ \E new \in SUBSET FreshHolds(i) :
        \E M \in SUBSET (seen[i] \X new) :
            /\ Storable(M)
            /\ hold' = [h \in Holds |-> IF h \in new THEN "present" ELSE hold[h]]
            /\ matches' = matches \cup M
    /\ fate' = [fate EXCEPT ![i] = "done"]
    /\ seen' = [seen EXCEPT ![i] = {}]
    /\ UNCHANGED <<wall, active, review, parent, routeVars, req>>

FailDetection(i) ==
    /\ fate[i] = "waiting"
    /\ fate' = [fate EXCEPT ![i] = "failed"]
    /\ seen' = [seen EXCEPT ![i] = {}]
    /\ UNCHANGED <<wall, active, review, parent, hold, matches, routeVars, req>>

-----------------------------------------------------------------------------
Next ==
    \/ \E c \in Clients :
        \/ GetActiveWallImage(c) \/ ValidateHolds(c) \/ Refuse(c)
        \/ CreateRoute(c) \/ UpdateRoute(c) \/ CreateHold(c) \/ DeleteHold(c)
        \/ UploadPartial(c)
    \/ \E i \in Images :
        \/ UploadFull(i) \/ UpdateResetMatch(i) \/ DeleteResetHold(i)
        \/ RestoreResetHold(i) \/ ApplyReset(i) \/ DiscardReset(i)
        \/ LoadPartialParent(i) \/ WriteResults(i) \/ FailDetection(i)
    \/ \E r \in Routes : DeleteRoute(r)
    \/ DeleteWall

Spec == Init /\ [][Next]_vars

-----------------------------------------------------------------------------
(* Properties *)

\* However uploads, resets and discards interleave, a wall that has shown an
\* image shows exactly one until it is deleted (GetActiveWallImage takes one).
OneActiveImage ==
    /\ \A i, j \in Images : active[i] /\ active[j] => i = j
    /\ (\E i \in Images : Present(i)) => \E i \in Images : active[i] /\ Present(i)

\* There is at most one reset to review, and what it is reviewed against is
\* the image the wall shows now, although the photo was uploaded after that
\* image was read (the 409 of UploadImage).
PendingResetIsCurrent ==
    /\ \A i, j \in Pending : i = j
    /\ \A i \in Pending : parent[i] # None /\ active[parent[i]] /\ ~active[i]

\* The worker's matches, the setter's corrections and the deletion of holds
\* on both sides keep hold_matches one to one, between holds that exist, from
\* the parent image to its reset; so its keys are never violated.
MatchesFollowTheReset ==
    /\ OneToOne(matches)
    /\ \A m \in matches :
        /\ hold[m[1]] = "present" /\ hold[m[2]] = "present"
        /\ review[Home[m[2]]] # "null"
        /\ parent[Home[m[2]]] = Home[m[1]]

\* A route's holds all belong to the image it is drawn on, whichever of its
\* edits and resets came last, and no route is ever on an image that is still
\* under review (which could then not be deleted: routes.wall_image_id).
RoutesKeepToOneImage ==
    \A r \in Routes :
        routes[r] = "present" =>
            /\ \A h \in Range(ids[r]) : Home[h] = on[r] /\ hold[h] # "unused"
            /\ Present(on[r])
            /\ review[on[r]] # "pending"

\* A reset is applied only with its detection results stored, and no late
\* result of a worker changes the holds of an applied reset (ApplyReset).
AppliedResetIsDetected ==
    \A i \in Images : review[i] = "applied" /\ Present(i) => fate[i] = "done"

\* A step that moves a route nobody is saving moves it from the active image
\* to the reset applied in that step, every hold by its match and two holds
\* never onto one; otherwise the route is left exactly as it was.
RouteMovesWithReset(r) ==
    /\ active[on[r]] /\ active'[on'[r]] /\ parent[on'[r]] = on[r]
    /\ Len(ids'[r]) = Len(ids[r])
    /\ \A k \in DOMAIN ids[r] : <<ids[r][k], ids'[r][k]>> \in matches
    /\ \A k, l \in DOMAIN ids[r] :
         ids[r][k] # ids[r][l] => ids'[r][k] # ids'[r][l]

RemapIsHoldByHold ==
    [][\A r \in Routes :
         routes[r] = "present" /\ req' = req /\ <<on[r], ids[r]>>' # <<on[r], ids[r]>>
         => RouteMovesWithReset(r)]_vars

=============================================================================
