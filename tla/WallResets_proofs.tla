---------------------------- MODULE WallResets_proofs ----------------------------
(***************************************************************************)
(* Proofs about WallResets, for any number of images, holds, routes and    *)
(* requests.                                                               *)
(***************************************************************************)
EXTENDS WallResets, TLAPS

(* The inductive invariant.  The properties of WallResets depend on each     *)
(* other through the history of an image: it is inserted as a reset or as    *)
(* the active image, a reset is pending until it is active, and what was     *)
(* active is never pending again.                                            *)

\* An image of this wall that was active once and is so no longer.
Archived(i) == fate[i] # "none" /\ review[i] # "pending" /\ ~active[i]

\* What holds of the rows of wall_images and their jobs.
ImagesOK ==
    /\ \A i \in Images : active[i] => Present(i) /\ review[i] # "pending"
    /\ \A i, j \in Images : active[i] /\ active[j] => i = j
    /\ \A i \in Images : Present(i) => wall /\ \E j \in Images : active[j]
    /\ \A i \in Images : fate[i] = "none" => review[i] = "null" /\ parent[i] = None
    /\ \A i, j \in Pending : i = j
    /\ \A i \in Pending : parent[i] # None /\ active[parent[i]]
    /\ \A i \in Images : Present(i) /\ review[i] = "applied" =>
          fate[i] = "done" /\ (parent[i] # None => Archived(parent[i]))

\* Holds hang on their image; a reset has none before its results are stored;
\* the old holds its worker has read are those of its parent.
HoldsOK ==
    /\ \A h \in Holds : hold[h] = "present" => Present(Home[h])
    /\ \A h \in Holds : fate[Home[h]] = "none" => hold[h] = "unused"
    /\ \A h \in Holds : fate[Home[h]] = "waiting" /\ review[Home[h]] = "pending"
                           => hold[h] = "unused"
    /\ \A i \in Images : \A h \in seen[i] :
          /\ fate[i] = "waiting" /\ review[i] = "pending"
          /\ Home[h] = parent[i] /\ hold[h] # "unused"

\* A list of holds that were holds of image i when it was validated.
Drawn(s, i) == \A k \in DOMAIN s : Home[s[k]] = i /\ hold[s[k]] # "unused"

\* A request acts on an image that was active when it read it.
RequestOK(c) ==
    req[c] # Idle =>
        /\ fate[req[c].image] # "none" /\ review[req[c].image] # "pending"
        /\ wall => Present(req[c].image)
        /\ req[c].op \in {"createValid", "updateValid"} => Drawn(req[c].ids, req[c].image)

RequestsOK == \A c \in Clients : RequestOK(c)

\* A route lives on an image of its wall and lists holds of that image.
RouteOK(r) ==
    routes[r] = "present" =>
        /\ wall /\ on[r] \in Images /\ ids[r] \in HoldLists
        /\ Present(on[r]) /\ review[on[r]] # "pending"
        /\ Drawn(ids[r], on[r])

RoutesOK == \A r \in Routes : RouteOK(r)

IInv ==
    /\ TypeOK
    /\ ImagesOK
    /\ HoldsOK
    /\ RequestsOK
    /\ RoutesOK
    /\ MatchesFollowTheReset

-----------------------------------------------------------------------------
(* What the actions do, row by row. *)

\* The fields of a request, by its operation.
LEMMA RequestFields ==
    ASSUME NEW q \in Requests
    PROVE  /\ q = Idle <=> q.op = "idle"
           /\ q # Idle => q.image \in Images
           /\ q.op \in {"update", "updateValid"} => q.route \in Routes
           /\ q.op \in {"createValid", "updateValid"} => q.ids \in HoldLists
<1>1. CASE q = Idle
  BY <1>1 DEF Idle
<1>2. CASE q \in [op : {"partial", "addHold", "removeHold", "create"}, image : Images]
  BY <1>2 DEF Idle
<1>3. CASE q \in [op : {"update"}, image : Images, route : Routes]
  BY <1>3 DEF Idle
<1>4. CASE q \in [op : {"createValid"}, image : Images, ids : HoldLists]
  BY <1>4 DEF Idle
<1>5. CASE q \in [op : {"updateValid"}, image : Images, route : Routes, ids : HoldLists]
  BY <1>5 DEF Idle
<1> QED
  BY <1>1, <1>2, <1>3, <1>4, <1>5 DEF Requests

\* Answering a request leaves the others alone.
LEMMA RespondEffect ==
    ASSUME TypeOK, NEW c \in Clients, Respond(c)
    PROVE  /\ req' \in [Clients -> Requests]
           /\ req'[c] = Idle
           /\ \A d \in Clients : d # c => req'[d] = req[d]
BY DEF Respond, TypeOK, Requests

\* Deleting holds deletes them and the matches that touch them.
LEMMA DeleteHoldsEffect ==
    ASSUME TypeOK, NEW H \in SUBSET Holds, DeleteHolds(H)
    PROVE  /\ hold' \in [Holds -> {"unused", "present", "deleted"}]
           /\ matches' \subseteq matches
           /\ matches' \subseteq Holds \X Holds
           /\ \A h \in Holds : hold'[h] = IF h \in H THEN "deleted" ELSE hold[h]
           /\ \A m \in matches' : m[1] \notin H /\ m[2] \notin H
BY DEF DeleteHolds, Touching, TypeOK

\* Images D go with their holds, matches and readings; images C come.
LEMMA ReplaceEffect ==
    ASSUME TypeOK, NEW D \in SUBSET Images, NEW C \in SUBSET Images, ReplaceImages(D, C)
    PROVE  /\ fate' \in [Images -> {"none", "waiting", "done", "failed", "removed"}]
           /\ seen' \in [Images -> SUBSET Holds]
           /\ hold' \in [Holds -> {"unused", "present", "deleted"}]
           /\ matches' \subseteq matches
           /\ matches' \subseteq Holds \X Holds
           /\ \A i \in Images : fate'[i] = IF i \in C THEN "waiting"
                                           ELSE IF i \in D THEN "removed" ELSE fate[i]
           /\ \A i \in Images : seen'[i] = IF i \in D THEN {} ELSE seen[i]
           /\ \A h \in Holds : hold'[h] = IF hold[h] = "present" /\ Home[h] \in D
                                          THEN "deleted" ELSE hold[h]
           /\ \A m \in matches' : /\ ~(hold[m[1]] = "present" /\ Home[m[1]] \in D)
                                 /\ ~(hold[m[2]] = "present" /\ Home[m[2]] \in D)
<1> DEFINE H == UNION {HoldsOf(i) : i \in D}
<1>1. H \in SUBSET Holds /\ \A h \in Holds : h \in H <=> hold[h] = "present" /\ Home[h] \in D
  BY DEF HoldsOf
<1>2. DeleteHolds(H)
  BY DEF ReplaceImages
<1> HIDE DEF H
<1>3. /\ hold' \in [Holds -> {"unused", "present", "deleted"}]
      /\ matches' \subseteq matches
      /\ matches' \subseteq Holds \X Holds
      /\ \A h \in Holds : hold'[h] = IF h \in H THEN "deleted" ELSE hold[h]
      /\ \A m \in matches' : m[1] \notin H /\ m[2] \notin H
  BY <1>1, <1>2, DeleteHoldsEffect
<1>4. \A m \in matches' : m[1] \in Holds /\ m[2] \in Holds
  BY <1>3
<1>5. /\ fate' = [i \in Images |-> IF i \in C THEN "waiting"
                                   ELSE IF i \in D THEN "removed" ELSE fate[i]]
      /\ seen' = [i \in Images |-> IF i \in D THEN {} ELSE seen[i]]
  BY DEF ReplaceImages
<1>6. fate' \in [Images -> {"none", "waiting", "done", "failed", "removed"}]
  BY <1>5 DEF TypeOK
<1>7. seen' \in [Images -> SUBSET Holds]
  BY <1>5 DEF TypeOK
<1> QED
  BY <1>1, <1>3, <1>4, <1>5, <1>6, <1>7

\* Images D go, none comes.
LEMMA RemoveEffect ==
    ASSUME TypeOK, NEW D \in SUBSET Images, ReplaceImages(D, {})
    PROVE  /\ fate' \in [Images -> {"none", "waiting", "done", "failed", "removed"}]
           /\ seen' \in [Images -> SUBSET Holds]
           /\ hold' \in [Holds -> {"unused", "present", "deleted"}]
           /\ matches' \subseteq matches
           /\ matches' \subseteq Holds \X Holds
           /\ \A i \in Images : fate'[i] = IF i \in D THEN "removed" ELSE fate[i]
           /\ \A i \in Images : seen'[i] = IF i \in D THEN {} ELSE seen[i]
           /\ \A h \in Holds : hold'[h] = IF hold[h] = "present" /\ Home[h] \in D
                                          THEN "deleted" ELSE hold[h]
           /\ \A m \in matches' : /\ ~(hold[m[1]] = "present" /\ Home[m[1]] \in D)
                                  /\ ~(hold[m[2]] = "present" /\ Home[m[2]] \in D)
<1>1. PICK C \in SUBSET Images : C = {}
  OBVIOUS
<1>2. ReplaceImages(D, C)
  BY <1>1
<1>3. \A i \in Images : fate'[i] = IF i \in C THEN "waiting"
                                   ELSE IF i \in D THEN "removed" ELSE fate[i]
  BY <1>2, ReplaceEffect
<1>4. \A i \in Images : fate'[i] = IF i \in D THEN "removed" ELSE fate[i]
  BY <1>1, <1>3
<1> QED
  BY <1>2, <1>4, ReplaceEffect

\* Parents among the deleted rows become NULL.
LEMMA OrphanedEffect ==
    ASSUME TypeOK, NEW D \in SUBSET Images
    PROVE  /\ Orphaned(D) \in [Images -> Images \cup {None}]
           /\ \A i \in Images : Orphaned(D)[i] = IF parent[i] \in D THEN None ELSE parent[i]
BY DEF Orphaned, TypeOK

-----------------------------------------------------------------------------
(* What requests and routes rely on. *)

\* What a request in flight or a route relies on lasts: the wall, its images
\* other than a reset under review, and which holds have ever existed.
Lasting ==
    /\ wall' = wall
    /\ \A h \in Holds : hold[h] # "unused" => hold'[h] # "unused"
    /\ \A i \in Images : review[i] # "pending" =>
          /\ Present(i) => Present(i)' /\ review'[i] # "pending"
          /\ fate[i] # "none" => fate'[i] # "none" /\ review'[i] # "pending"

\* A validated list of holds stays valid.
LEMMA DrawnLasts ==
    ASSUME Lasting, NEW s \in HoldLists, NEW i, Drawn(s, i)
    PROVE  \A k \in DOMAIN s : Home[s[k]] = i /\ hold'[s[k]] # "unused"
BY DEF Drawn, Lasting, HoldLists

\* Requests stay valid when they are answered or left alone.
LEMMA RequestsLast ==
    ASSUME TypeOK, RequestsOK, Lasting,
           \A c \in Clients : req'[c] = req[c] \/ req'[c] = Idle
    PROVE  RequestsOK'
<1> SUFFICES ASSUME NEW c \in Clients, req'[c] # Idle PROVE RequestOK(c)'
  BY DEF RequestsOK, RequestOK
<1>1. PICK r : r = req[c] /\ r = req'[c] /\ r \in Requests /\ r # Idle
  BY DEF TypeOK
<1>2. r.image \in Images
  BY <1>1, RequestFields
<1>3. /\ fate[r.image] # "none" /\ review[r.image] # "pending"
      /\ wall => Present(r.image)
      /\ r.op \in {"createValid", "updateValid"} => Drawn(r.ids, r.image)
  BY <1>1 DEF RequestsOK, RequestOK
<1>4. /\ fate'[r.image] # "none" /\ review'[r.image] # "pending"
      /\ wall' => Present(r.image)'
  BY <1>2, <1>3 DEF Lasting
<1>5. r.op \in {"createValid", "updateValid"} => r.ids \in HoldLists
  BY <1>1, RequestFields
<1>6. r.op \in {"createValid", "updateValid"}
        => \A k \in DOMAIN r.ids : Home[r.ids[k]] = r.image /\ hold'[r.ids[k]] # "unused"
  BY <1>3, <1>5, DrawnLasts
<1> QED
  BY <1>1, <1>4, <1>6 DEF RequestOK, Present, Drawn

\* Routes nobody touches stay where they are.
LEMMA RoutesLast ==
    ASSUME TypeOK, RoutesOK, Lasting, UNCHANGED <<on, ids>>,
           \A r \in Routes : routes'[r] = "present" => routes[r] = "present"
    PROVE  RoutesOK'
<1> SUFFICES ASSUME NEW r \in Routes, routes'[r] = "present" PROVE RouteOK(r)'
  BY DEF RoutesOK, RouteOK
<1>1. /\ wall /\ on[r] \in Images /\ ids[r] \in HoldLists
      /\ Present(on[r]) /\ review[on[r]] # "pending"
      /\ Drawn(ids[r], on[r])
  BY DEF RoutesOK, RouteOK
<1>2. fate'[on[r]] \in {"waiting", "done", "failed"} /\ review'[on[r]] # "pending" /\ wall'
  BY <1>1 DEF Lasting, Present
<1>3. \A k \in DOMAIN ids[r] : Home[ids[r][k]] = on[r] /\ hold'[ids[r][k]] # "unused"
  BY <1>1, DrawnLasts
<1> QED
  BY <1>1, <1>2, <1>3 DEF RouteOK, Present, Drawn, HoldLists

-----------------------------------------------------------------------------
(* One lemma per action, or per group of actions that change the same tables. *)

\* Reading the active image, validating holds against it, and refusing.
LEMMA RequestStep ==
    ASSUME IInv, NEW c \in Clients,
           GetActiveWallImage(c) \/ ValidateHolds(c) \/ Refuse(c)
    PROVE  IInv'
<1> USE DEF IInv
<1>1. UNCHANGED <<wall, fate, active, review, parent, hold, matches, routes, on, ids, seen>>
  BY DEF GetActiveWallImage, ValidateHolds, Refuse, imageVars, routeVars
<1>2. PICK q \in Requests :
        /\ req' = [req EXCEPT ![c] = q]
        /\ q # Idle =>
             /\ fate[q.image] # "none" /\ review[q.image] # "pending"
             /\ wall => Present(q.image)
             /\ q.op \in {"createValid", "updateValid"} => Drawn(q.ids, q.image)
  <2>1. CASE Refuse(c)
    BY <2>1 DEF Refuse, Respond, Requests
  <2>2. CASE GetActiveWallImage(c)
    <3>1. PICK i \in Images :
            /\ active[i]
            /\ \/ \E op \in {"partial", "addHold", "removeHold", "create"} :
                    req' = [req EXCEPT ![c] = [op |-> op, image |-> i]]
               \/ \E r \in Routes :
                    req' = [req EXCEPT ![c] = [op |-> "update", image |-> i, route |-> r]]
      BY <2>2 DEF GetActiveWallImage
    <3>2. Present(i) /\ review[i] # "pending" /\ fate[i] # "none"
      BY <3>1 DEF ImagesOK, Present
    <3>3. ASSUME NEW op \in {"partial", "addHold", "removeHold", "create"}
          PROVE  /\ [op |-> op, image |-> i] \in Requests
                 /\ [op |-> op, image |-> i].image = i
                 /\ [op |-> op, image |-> i].op \notin {"createValid", "updateValid"}
      BY DEF Requests
    <3>4. ASSUME NEW r \in Routes
          PROVE  /\ [op |-> "update", image |-> i, route |-> r] \in Requests
                 /\ [op |-> "update", image |-> i, route |-> r].image = i
                 /\ [op |-> "update", image |-> i, route |-> r].op
                      \notin {"createValid", "updateValid"}
      BY DEF Requests
    <3> QED
      BY <3>1, <3>2, <3>3, <3>4
  <2>3. CASE ValidateHolds(c)
    <3>1. req[c] \in Requests /\ req[c].op \in {"create", "update"}
      BY <2>3 DEF ValidateHolds, TypeOK
    <3>2. req[c] # Idle /\ req[c].image \in Images
      BY <3>1, RequestFields
    <3>3. /\ fate[req[c].image] # "none" /\ review[req[c].image] # "pending"
          /\ wall => Present(req[c].image)
      BY <3>2 DEF RequestsOK, RequestOK
    <3>4. PICK s \in [1..RouteSize -> HoldsOf(req[c].image)] :
            \/ req' = [req EXCEPT ![c] =
                         [op |-> "createValid", image |-> req[c].image, ids |-> s]]
            \/ /\ req[c].op = "update"
               /\ req' = [req EXCEPT ![c] =
                            [op |-> "updateValid", image |-> req[c].image,
                             route |-> req[c].route, ids |-> s]]
      BY <2>3 DEF ValidateHolds
    <3>5. s \in HoldLists /\ Drawn(s, req[c].image)
      BY DEF HoldLists, Drawn, HoldsOf
    <3>6. req[c].op = "update" => req[c].route \in Routes
      BY <3>1, RequestFields
    <3> QED
      BY <3>2, <3>3, <3>4, <3>5, <3>6 DEF Requests
  <2> QED
    BY <2>1, <2>2, <2>3
<1>3. TypeOK'
  BY <1>1, <1>2 DEF TypeOK
<1>4. RequestsOK'
  <2> SUFFICES ASSUME NEW d \in Clients PROVE RequestOK(d)'
    BY DEF RequestsOK
  <2>1. CASE d = c
    BY <1>1, <1>2, <2>1 DEF TypeOK, RequestOK, Present, Drawn
  <2>2. CASE d # c
    <3>1. req'[d] = req[d]
      BY <1>2, <2>2 DEF TypeOK
    <3> QED
      BY <1>1, <3>1 DEF RequestsOK, RequestOK, Present, Drawn
  <2> QED
    BY <2>1, <2>2
<1>5. ImagesOK'
  BY <1>1 DEF ImagesOK, Present, Pending, Archived
<1>6. HoldsOK' /\ MatchesFollowTheReset'
  BY <1>1 DEF HoldsOK, MatchesFollowTheReset, Present
<1>7. RoutesOK'
  BY <1>1 DEF RoutesOK, RouteOK, Present, Drawn
<1> QED
  BY <1>3, <1>4, <1>5, <1>6, <1>7

\* A route takes the holds and the image that were validated for it.
LEMMA SaveRouteStep ==
    ASSUME IInv, NEW c \in Clients, CreateRoute(c) \/ UpdateRoute(c)
    PROVE  IInv'
<1> USE DEF IInv
<1>1. /\ UNCHANGED <<wall, fate, active, review, parent, hold, matches, seen>>
      /\ Respond(c)
      /\ req[c].op \in {"createValid", "updateValid"}
  BY DEF CreateRoute, UpdateRoute, imageVars
<1>2. /\ req[c].image \in Images /\ req[c].ids \in HoldLists
      /\ review[req[c].image] # "pending"
      /\ wall => Present(req[c].image)
      /\ Drawn(req[c].ids, req[c].image)
  <2>1. req[c] \in Requests
    BY DEF TypeOK
  <2>2. req[c] # Idle /\ req[c].image \in Images /\ req[c].ids \in HoldLists
    BY <1>1, <2>1, RequestFields
  <2> QED
    BY <1>1, <2>2 DEF RequestsOK, RequestOK
<1>3. PICK r \in Routes :
        /\ wall /\ Present(req[c].image)
        /\ on' = [on EXCEPT ![r] = req[c].image]
        /\ ids' = [ids EXCEPT ![r] = req[c].ids]
        /\ routes' = [routes EXCEPT ![r] = "present"]
  <2>1. CASE CreateRoute(c)
    BY <1>2, <2>1 DEF CreateRoute, ImagesOK
  <2>2. CASE UpdateRoute(c)
    <3>1. req[c].route \in Routes
      BY <2>2, RequestFields DEF UpdateRoute, TypeOK
    <3>2. wall /\ routes' = [routes EXCEPT ![req[c].route] = "present"]
      BY <2>2, <3>1 DEF UpdateRoute, RoutesOK, RouteOK, TypeOK
    <3> QED
      BY <1>2, <2>2, <3>1, <3>2 DEF UpdateRoute
  <2> QED
    BY <2>1, <2>2
<1>4. TypeOK'
  BY <1>1, <1>2, <1>3, RespondEffect DEF TypeOK
<1>5. Lasting
  BY <1>1 DEF Lasting, Present
<1>6. RequestsOK'
  BY <1>1, <1>5, RequestsLast, RespondEffect
<1>7. RoutesOK'
  <2> SUFFICES ASSUME NEW x \in Routes PROVE RouteOK(x)'
    BY DEF RoutesOK
  <2>1. CASE x = r
    <3>1. on'[r] = req[c].image /\ ids'[r] = req[c].ids
      BY <1>3 DEF TypeOK
    <3> QED
      BY <1>1, <1>2, <1>3, <2>1, <3>1 DEF RouteOK, Present, Drawn, HoldLists
  <2>2. CASE x # r
    <3>1. on'[x] = on[x] /\ ids'[x] = ids[x] /\ routes'[x] = routes[x]
      BY <1>3, <2>2 DEF TypeOK
    <3> QED
      BY <1>1, <3>1 DEF RoutesOK, RouteOK, Present, Drawn, HoldLists
  <2> QED
    BY <2>1, <2>2
<1>8. ImagesOK'
  BY <1>1 DEF ImagesOK, Present, Pending, Archived
<1>9. HoldsOK' /\ MatchesFollowTheReset'
  BY <1>1 DEF HoldsOK, MatchesFollowTheReset, Present
<1> QED
  BY <1>4, <1>6, <1>7, <1>8, <1>9

\* Deleting a route leaves the others and everything else alone.
LEMMA DeleteRouteStep ==
    ASSUME IInv, NEW r \in Routes, DeleteRoute(r)
    PROVE  IInv'
<1> USE DEF IInv
<1>1. /\ UNCHANGED <<wall, fate, active, review, parent, hold, matches, on, ids, seen, req>>
      /\ routes' = [routes EXCEPT ![r] = "deleted"]
  BY DEF DeleteRoute, imageVars
<1>2. TypeOK'
  BY <1>1 DEF TypeOK
<1>3. Lasting
  BY <1>1 DEF Lasting, Present
<1>4. RoutesOK' /\ RequestsOK'
  BY <1>1, <1>3, RoutesLast, RequestsLast DEF TypeOK
<1>5. ImagesOK'
  BY <1>1 DEF ImagesOK, Present, Pending, Archived
<1>6. HoldsOK' /\ MatchesFollowTheReset'
  BY <1>1 DEF HoldsOK, MatchesFollowTheReset, Present
<1> QED
  BY <1>2, <1>4, <1>5, <1>6

\* Steps that leave the images alone keep what is known of them.
LEMMA SameImages ==
    ASSUME IInv, UNCHANGED <<wall, fate, active, review, parent>>,
           \A h \in Holds : hold[h] # "unused" => hold'[h] # "unused"
    PROVE  ImagesOK' /\ Lasting
BY DEF IInv, ImagesOK, Present, Pending, Archived, Lasting

\* Matches that remain between holds that remain are in order.
LEMMA FewerMatches ==
    ASSUME MatchesFollowTheReset, matches' \subseteq matches,
           matches \subseteq Holds \X Holds,
           \A m \in matches' : hold'[m[1]] = "present" /\ hold'[m[2]] = "present",
           ConstantsOK,
           \A i \in Images : review[i] # "null" => review'[i] # "null",
           \A m \in matches' : parent'[Home[m[2]]] = parent[Home[m[2]]]
    PROVE  MatchesFollowTheReset'
<1>1. OneToOne(matches)'
  BY DEF MatchesFollowTheReset, OneToOne
<1>2. \A m \in matches' : Home[m[2]] \in Images
  BY DEF ConstantsOK
<1> QED
  BY <1>1, <1>2 DEF MatchesFollowTheReset

\* A new hold hangs on an image that is there, and is not one a reset lacks.
LEMMA CreateHoldStep ==
    ASSUME IInv, NEW c \in Clients, CreateHold(c)
    PROVE  IInv'
<1> USE DEF IInv
<1>1. PICK h \in FreshHolds(req[c].image) : hold' = [hold EXCEPT ![h] = "present"]
  BY DEF CreateHold
<1>2. /\ UNCHANGED <<wall, fate, active, review, parent, matches, routes, on, ids, seen>>
      /\ Respond(c) /\ Present(req[c].image) /\ req[c].op = "addHold"
  BY DEF CreateHold, imageVars, routeVars
<1>3. req[c].image \in Images /\ review[req[c].image] # "pending"
  <2>1. req[c] \in Requests /\ req[c] # Idle
    BY <1>2, RequestFields DEF TypeOK
  <2> QED
    BY <1>2, <2>1, RequestFields DEF RequestsOK, RequestOK
<1>4. h \in Holds /\ Home[h] = req[c].image /\ hold[h] = "unused"
  BY DEF FreshHolds
<1>5. /\ hold' \in [Holds -> {"unused", "present", "deleted"}]
      /\ hold'[h] = "present" /\ \A g \in Holds : g # h => hold'[g] = hold[g]
  BY <1>1, <1>4 DEF TypeOK
<1>6. TypeOK'
  BY <1>2, <1>5, RespondEffect DEF TypeOK
<1>7. ImagesOK' /\ Lasting
  BY <1>2, <1>5, SameImages
<1>8. RequestsOK' /\ RoutesOK'
  BY <1>2, <1>7, RequestsLast, RoutesLast, RespondEffect
<1>9. HoldsOK'
  <2>1. \A g \in Holds : /\ hold'[g] = "present" => Present(Home[g])'
                         /\ fate'[Home[g]] = "none" => hold'[g] = "unused"
                         /\ fate'[Home[g]] = "waiting" /\ review'[Home[g]] = "pending"
                              => hold'[g] = "unused"
    BY <1>2, <1>3, <1>4, <1>5 DEF HoldsOK, Present
  <2>2. \A i \in Images : \A g \in seen'[i] :
          /\ fate'[i] = "waiting" /\ review'[i] = "pending"
          /\ Home[g] = parent'[i] /\ hold'[g] # "unused"
    BY <1>2, <1>4, <1>5 DEF HoldsOK, TypeOK
  <2> QED
    BY <2>1, <2>2 DEF HoldsOK
<1>10. MatchesFollowTheReset'
  <2>1. \A m \in matches : m[1] \in Holds /\ m[2] \in Holds
    BY DEF TypeOK
  <2>2. \A m \in matches : hold'[m[1]] = "present" /\ hold'[m[2]] = "present"
    BY <1>5, <2>1 DEF MatchesFollowTheReset
  <2> QED
    BY <1>2, <2>2 DEF MatchesFollowTheReset
<1> QED
  BY <1>6, <1>7, <1>8, <1>9, <1>10

\* Deleting a hold of the active image, or of the reset under review.
LEMMA DeleteHoldStep ==
    ASSUME IInv,
           \/ \E c \in Clients : DeleteHold(c)
           \/ \E i \in Images : DeleteResetHold(i)
    PROVE  IInv'
<1> USE DEF IInv
<1>1. PICK h \in Holds : hold[h] = "present" /\ DeleteHolds({h})
  BY DEF DeleteHold, DeleteResetHold, HoldsOf
<1>2. /\ UNCHANGED <<wall, fate, active, review, parent, routes, on, ids, seen>>
      /\ req' = req \/ \E c \in Clients : Respond(c)
  BY DEF DeleteHold, DeleteResetHold, imageVars, routeVars
<1>3. /\ hold' \in [Holds -> {"unused", "present", "deleted"}]
      /\ matches' \subseteq matches
      /\ matches' \subseteq Holds \X Holds
      /\ \A g \in Holds : hold'[g] = IF g = h THEN "deleted" ELSE hold[g]
      /\ \A m \in matches' : m[1] # h /\ m[2] # h
  BY <1>1, DeleteHoldsEffect
<1>4. TypeOK'
  BY <1>2, <1>3, RespondEffect DEF TypeOK
<1>5. ImagesOK' /\ Lasting
  BY <1>2, <1>3, SameImages
<1>6. RequestsOK' /\ RoutesOK'
  BY <1>2, <1>5, RequestsLast, RoutesLast, RespondEffect
<1>7. HoldsOK'
  <2>1. \A g \in Holds : /\ hold'[g] = "present" => Present(Home[g])'
                         /\ fate'[Home[g]] = "none" => hold'[g] = "unused"
                         /\ fate'[Home[g]] = "waiting" /\ review'[Home[g]] = "pending"
                              => hold'[g] = "unused"
    BY <1>1, <1>2, <1>3 DEF HoldsOK, Present
  <2>2. \A i \in Images : \A g \in seen'[i] :
          /\ fate'[i] = "waiting" /\ review'[i] = "pending"
          /\ Home[g] = parent'[i] /\ hold'[g] # "unused"
    BY <1>2, <1>3 DEF HoldsOK, TypeOK
  <2> QED
    BY <2>1, <2>2 DEF HoldsOK
<1>8. MatchesFollowTheReset'
  <2>1. \A m \in matches' : hold'[m[1]] = "present" /\ hold'[m[2]] = "present"
    BY <1>3 DEF MatchesFollowTheReset
  <2> QED
    BY <1>2, <1>3, <2>1, FewerMatches, ConstantsOK DEF TypeOK
<1> QED
  BY <1>4, <1>5, <1>6, <1>7, <1>8

\* All matches of a hold of the image a reset is reviewed against belong to
\* that reset: what was applied before has archived its own parent.
LEMMA OldHoldIsFree ==
    ASSUME IInv, NEW i \in Pending, NEW m \in matches, Home[m[1]] = parent[i]
    PROVE  Home[m[2]] = i
<1> USE DEF IInv
<1>1. m[2] \in Holds /\ Home[m[2]] \in Images
  BY ConstantsOK DEF TypeOK
<1>2. PICK j \in Images : j = Home[m[2]]
  BY <1>1
<1>3. Present(j) /\ review[j] # "null" /\ parent[j] = parent[i]
  BY <1>1, <1>2 DEF MatchesFollowTheReset, HoldsOK
<1>4. parent[i] # None /\ active[parent[i]] /\ i \in Images
  BY DEF ImagesOK, Pending
<1>5. review[j] # "applied"
  BY <1>3, <1>4 DEF ImagesOK, Archived
<1>6. j \in Pending
  BY <1>3, <1>5 DEF Pending, TypeOK
<1> QED
  BY <1>2, <1>6 DEF ImagesOK

\* A setter's correction keeps the matches one to one.
LEMMA UpsertKeepsMatches ==
    ASSUME IInv, NEW i \in Pending, NEW old \in HoldsOf(parent[i]), NEW new \in Holds,
           Home[new] = i, matches' = Upsert(i, old, new),
           UNCHANGED <<review, parent>>,
           \A h \in Holds : hold'[h] = IF h = new THEN "present" ELSE hold[h]
    PROVE  MatchesFollowTheReset' /\ matches' \subseteq Holds \X Holds
<1> USE DEF IInv
<1>1. /\ old \in Holds /\ Home[old] = parent[i] /\ hold[old] = "present"
      /\ i \in Images /\ review[i] = "pending"
  BY DEF HoldsOf, Pending
<1>2. matches \subseteq Holds \X Holds
  BY DEF TypeOK
<1>3. matches' \subseteq matches \cup {<<old, new>>}
  BY DEF Upsert
<1>4. matches' \subseteq Holds \X Holds
  BY <1>1, <1>2, <1>3
<1>5. \A m \in matches : m[1] \in Holds /\ m[2] \in Holds
  BY <1>2
<1>6. \A m \in matches : m \in matches' /\ m # <<old, new>> => m[1] # old /\ m[2] # new
  <2> SUFFICES ASSUME NEW m \in matches, m \in matches', m # <<old, new>>
               PROVE  m[1] # old /\ m[2] # new
    OBVIOUS
  <2>1. ~(m \in MatchesOf(i) /\ m \in Touching({old, new}))
    BY DEF Upsert
  <2>2. m \in MatchesOf(i) => m[1] # old /\ m[2] # new
    BY <2>1 DEF Touching
  <2>3. m[1] = old => Home[m[2]] = i
    BY <1>1, OldHoldIsFree
  <2>4. m[2] = new => Home[m[2]] = i
    OBVIOUS
  <2> QED
    BY <2>2, <2>3, <2>4 DEF MatchesOf
<1>7. OneToOne(matches')
  BY <1>3, <1>6 DEF OneToOne, MatchesFollowTheReset
<1>8. \A m \in matches' :
        /\ hold'[m[1]] = "present" /\ hold'[m[2]] = "present"
        /\ review'[Home[m[2]]] # "null"
        /\ parent'[Home[m[2]]] = Home[m[1]]
  <2> SUFFICES ASSUME NEW m \in matches'
               PROVE  /\ hold'[m[1]] = "present" /\ hold'[m[2]] = "present"
                      /\ review[Home[m[2]]] # "null"
                      /\ parent[Home[m[2]]] = Home[m[1]]
    OBVIOUS
  <2>1. CASE m = <<old, new>>
    BY <1>1, <2>1
  <2>2. CASE m \in matches
    BY <1>5, <2>2 DEF MatchesFollowTheReset
  <2> QED
    BY <1>3, <2>1, <2>2
<1> QED
  BY <1>4, <1>7, <1>8 DEF MatchesFollowTheReset, OneToOne

\* Correcting or clearing a match of the reset under review.
LEMMA UpdateResetMatchStep ==
    ASSUME IInv, NEW i \in Images, UpdateResetMatch(i)
    PROVE  IInv'
<1> USE DEF IInv
<1>1. /\ UNCHANGED <<wall, fate, active, review, parent, hold, routes, on, ids, seen, req>>
      /\ i \in Pending
  BY DEF UpdateResetMatch, Reviewable, imageVars, routeVars
<1>2. ImagesOK' /\ Lasting
  BY <1>1, SameImages
<1>3. RequestsOK' /\ RoutesOK'
  BY <1>1, <1>2, RequestsLast, RoutesLast
<1>4. HoldsOK'
  BY <1>1 DEF HoldsOK, Present
<1>5. MatchesFollowTheReset' /\ matches' \subseteq Holds \X Holds
  <2>1. PICK old \in HoldsOf(parent[i]) :
          \/ matches' = matches \ {m \in MatchesOf(i) : m[1] = old}
          \/ \E new \in HoldsOf(i) : matches' = Upsert(i, old, new)
    BY DEF UpdateResetMatch
  <2>2. CASE \E new \in HoldsOf(i) : matches' = Upsert(i, old, new)
    <3>1. PICK new \in Holds : /\ Home[new] = i /\ hold[new] = "present"
                               /\ matches' = Upsert(i, old, new)
      BY <2>2 DEF HoldsOf
    <3>2. \A h \in Holds : hold'[h] = IF h = new THEN "present" ELSE hold[h]
      BY <1>1, <3>1
    <3> QED
      BY <1>1, <3>1, <3>2, UpsertKeepsMatches
  <2>3. CASE matches' = matches \ {m \in MatchesOf(i) : m[1] = old}
    <3>1. matches' \subseteq matches /\ matches \subseteq Holds \X Holds
      BY <2>3 DEF TypeOK
    <3>2. \A m \in matches' : hold'[m[1]] = "present" /\ hold'[m[2]] = "present"
      BY <1>1, <3>1 DEF MatchesFollowTheReset
    <3> QED
      BY <1>1, <3>1, <3>2, FewerMatches, ConstantsOK
  <2> QED
    BY <2>1, <2>2, <2>3
<1>6. TypeOK'
  BY <1>1, <1>5 DEF TypeOK
<1> QED
  BY <1>2, <1>3, <1>4, <1>5, <1>6

\* Restoring an old hold on the new photo.
LEMMA RestoreResetHoldStep ==
    ASSUME IInv, NEW i \in Images, RestoreResetHold(i)
    PROVE  IInv'
<1> USE DEF IInv
<1>1. /\ UNCHANGED <<wall, fate, active, review, parent, routes, on, ids, seen, req>>
      /\ i \in Pending /\ fate[i] = "done"
  BY DEF RestoreResetHold, Reviewable, imageVars, routeVars
<1>2. PICK old \in HoldsOf(parent[i]), new \in FreshHolds(i) :
        /\ hold' = [hold EXCEPT ![new] = "present"]
        /\ matches' = Upsert(i, old, new)
  BY DEF RestoreResetHold
<1>3. new \in Holds /\ Home[new] = i /\ hold[new] = "unused"
  BY DEF FreshHolds
<1>4. /\ hold' \in [Holds -> {"unused", "present", "deleted"}]
      /\ \A h \in Holds : hold'[h] = IF h = new THEN "present" ELSE hold[h]
  BY <1>2, <1>3 DEF TypeOK
<1>5. ImagesOK' /\ Lasting
  BY <1>1, <1>4, SameImages
<1>6. RequestsOK' /\ RoutesOK'
  BY <1>1, <1>5, RequestsLast, RoutesLast
<1>7. MatchesFollowTheReset' /\ matches' \subseteq Holds \X Holds
  BY <1>1, <1>2, <1>3, <1>4, UpsertKeepsMatches
<1>8. TypeOK'
  BY <1>1, <1>4, <1>7 DEF TypeOK
<1>9. HoldsOK'
  <2>1. \A h \in Holds : /\ hold'[h] = "present" => Present(Home[h])'
                         /\ fate'[Home[h]] = "none" => hold'[h] = "unused"
                         /\ fate'[Home[h]] = "waiting" /\ review'[Home[h]] = "pending"
                              => hold'[h] = "unused"
    BY <1>1, <1>3, <1>4 DEF HoldsOK, Present
  <2>2. \A k \in Images : \A h \in seen'[k] :
          /\ fate'[k] = "waiting" /\ review'[k] = "pending"
          /\ Home[h] = parent'[k] /\ hold'[h] # "unused"
    BY <1>1, <1>4 DEF HoldsOK, TypeOK
  <2> QED
    BY <2>1, <2>2 DEF HoldsOK
<1> QED
  BY <1>5, <1>6, <1>7, <1>8, <1>9

\* The worker reads the holds of the parent; a reset that waits is pending.
LEMMA LoadPartialParentStep ==
    ASSUME IInv, NEW i \in Images, LoadPartialParent(i)
    PROVE  IInv'
<1> USE DEF IInv
<1>1. /\ UNCHANGED <<wall, fate, active, review, parent, hold, matches, routes, on, ids, req>>
      /\ seen' = [seen EXCEPT ![i] = HoldsOf(parent[i])]
      /\ fate[i] = "waiting" /\ review[i] # "null"
  BY DEF LoadPartialParent, imageVars, routeVars
<1>2. review[i] = "pending"
  BY <1>1 DEF ImagesOK, Present, TypeOK
<1>3. \A h \in HoldsOf(parent[i]) : h \in Holds /\ Home[h] = parent[i] /\ hold[h] = "present"
  BY DEF HoldsOf
<1>4. TypeOK'
  BY <1>1, <1>3 DEF TypeOK
<1>5. ImagesOK' /\ Lasting
  BY <1>1, SameImages
<1>6. RequestsOK' /\ RoutesOK'
  BY <1>1, <1>5, RequestsLast, RoutesLast
<1>7. HoldsOK'
  <2>1. \A k \in Images : seen'[k] = IF k = i THEN HoldsOf(parent[i]) ELSE seen[k]
    BY <1>1 DEF TypeOK
  <2>2. \A k \in Images : \A h \in seen'[k] :
          /\ fate[k] = "waiting" /\ review[k] = "pending"
          /\ Home[h] = parent[k] /\ hold[h] # "unused"
    BY <1>1, <1>2, <1>3, <2>1 DEF HoldsOK
  <2> QED
    BY <1>1, <2>2 DEF HoldsOK, Present
<1>8. MatchesFollowTheReset'
  BY <1>1 DEF MatchesFollowTheReset
<1> QED
  BY <1>4, <1>5, <1>6, <1>7, <1>8

\* A waiting job that ends leaves what is known of the images in order.
LEMMA JobEnds ==
    ASSUME IInv, NEW i \in Images, fate[i] = "waiting",
           NEW outcome \in {"done", "failed"}, fate' = [fate EXCEPT ![i] = outcome],
           UNCHANGED <<wall, active, review, parent>>,
           \A h \in Holds : hold[h] # "unused" => hold'[h] # "unused"
    PROVE  ImagesOK' /\ Lasting
<1> USE DEF IInv
<1>1. \A k \in Images : fate'[k] = IF k = i THEN outcome ELSE fate[k]
  BY DEF TypeOK
<1>2. \A k \in Images : /\ Present(k) <=> fate'[k] \in {"waiting", "done", "failed"}
                        /\ fate'[k] = "none" <=> fate[k] = "none"
                        /\ fate[k] = "done" => fate'[k] = "done"
  BY <1>1 DEF Present
<1>4. Pending' = Pending
  BY <1>2 DEF Pending, Present
<1>5. Lasting
  BY <1>2 DEF Lasting, Present
<1>6. \A k \in Images : Present(k) /\ review[k] = "applied" /\ parent[k] # None
                          => fate'[parent[k]] # "none"
  BY <1>2 DEF ImagesOK, Archived, TypeOK
<1>7. /\ \A k \in Images : active'[k] => Present(k)' /\ review'[k] # "pending"
      /\ \A k, l \in Images : active'[k] /\ active'[l] => k = l
      /\ \A k \in Images : Present(k)' => wall' /\ \E l \in Images : active'[l]
      /\ \A k \in Images : fate'[k] = "none" => review'[k] = "null" /\ parent'[k] = None
  BY <1>2 DEF ImagesOK, Present
<1>8. /\ \A k, l \in Pending' : k = l
      /\ \A k \in Pending' : parent'[k] # None /\ active'[parent'[k]]
  BY <1>4 DEF ImagesOK
<1>9. \A k \in Images : Present(k)' /\ review'[k] = "applied" =>
        fate'[k] = "done" /\ (parent'[k] # None => Archived(parent[k])')
  BY <1>2, <1>6 DEF ImagesOK, Archived, Present
<1> QED
  BY <1>5, <1>7, <1>8, <1>9 DEF ImagesOK

\* A job that is given up changes no hold.
LEMMA FailDetectionStep ==
    ASSUME IInv, NEW i \in Images, FailDetection(i)
    PROVE  IInv'
<1> USE DEF IInv
<1>1. /\ UNCHANGED <<wall, active, review, parent, hold, matches, routes, on, ids, req>>
      /\ fate[i] = "waiting" /\ fate' = [fate EXCEPT ![i] = "failed"]
      /\ seen' = [seen EXCEPT ![i] = {}]
  BY DEF FailDetection, routeVars
<1>2. TypeOK'
  BY <1>1 DEF TypeOK
<1>3. ImagesOK' /\ Lasting
  BY <1>1, JobEnds
<1>4. RequestsOK' /\ RoutesOK'
  BY <1>1, <1>3, RequestsLast, RoutesLast
<1>5. \A k \in Images : /\ fate'[k] = IF k = i THEN "failed" ELSE fate[k]
                        /\ seen'[k] = IF k = i THEN {} ELSE seen[k]
  BY <1>1 DEF TypeOK
<1>6. \A h \in Holds : Home[h] \in Images
  BY ConstantsOK
<1>7. HoldsOK'
  BY <1>1, <1>5, <1>6 DEF HoldsOK, Present
<1>8. MatchesFollowTheReset'
  BY <1>1 DEF MatchesFollowTheReset
<1> QED
  BY <1>2, <1>3, <1>4, <1>7, <1>8

\* The results of a reset are its first holds and matches, so what the worker
\* matched to holds it read long ago cannot clash with what setters did since.
LEMMA WriteResultsStep ==
    ASSUME IInv, NEW i \in Images, WriteResults(i)
    PROVE  IInv'
<1> USE DEF IInv
<1>1. /\ UNCHANGED <<wall, active, review, parent, routes, on, ids, req>>
      /\ fate[i] = "waiting" /\ fate' = [fate EXCEPT ![i] = "done"]
      /\ seen' = [seen EXCEPT ![i] = {}]
  BY DEF WriteResults, routeVars
<1>2. PICK new \in SUBSET FreshHolds(i) :
        \E M \in SUBSET (seen[i] \X new) :
          /\ Storable(M)
          /\ hold' = [h \in Holds |-> IF h \in new THEN "present" ELSE hold[h]]
          /\ matches' = matches \cup M
  BY DEF WriteResults
<1>3. PICK M \in SUBSET (seen[i] \X new) :
          /\ Storable(M)
          /\ hold' = [h \in Holds |-> IF h \in new THEN "present" ELSE hold[h]]
          /\ matches' = matches \cup M
  BY <1>2
<1>4. \A h \in new : h \in Holds /\ Home[h] = i /\ hold[h] = "unused"
  BY DEF FreshHolds
<1>5. \A h \in Holds : hold'[h] = IF h \in new THEN "present" ELSE hold[h]
  BY <1>3
<1>6. \A m \in M : /\ m[1] \in seen[i] /\ m[2] \in new /\ m[1] \in Holds /\ m[2] \in Holds
                   /\ m = <<m[1], m[2]>>
  BY <1>4 DEF TypeOK
<1>7. TypeOK'
  <2>1. hold' \in [Holds -> {"unused", "present", "deleted"}]
    BY <1>3 DEF TypeOK
  <2>2. matches' \subseteq Holds \X Holds
    BY <1>3, <1>6 DEF TypeOK
  <2> QED
    BY <1>1, <2>1, <2>2 DEF TypeOK
<1>8. ImagesOK' /\ Lasting
  BY <1>1, <1>5, JobEnds
<1>9. RequestsOK' /\ RoutesOK'
  BY <1>1, <1>8, RequestsLast, RoutesLast
<1>10. \A k \in Images : /\ fate'[k] = IF k = i THEN "done" ELSE fate[k]
                         /\ seen'[k] = IF k = i THEN {} ELSE seen[k]
  BY <1>1 DEF TypeOK
<1>11. HoldsOK'
  <2>1. \A h \in Holds : Home[h] \in Images
    BY ConstantsOK
  <2>2. \A h \in Holds : /\ hold'[h] = "present" => Present(Home[h])'
                         /\ fate'[Home[h]] = "none" => hold'[h] = "unused"
                         /\ fate'[Home[h]] = "waiting" /\ review'[Home[h]] = "pending"
                              => hold'[h] = "unused"
    BY <1>1, <1>4, <1>5, <1>10, <2>1 DEF HoldsOK, Present
  <2>3. \A k \in Images : \A h \in seen'[k] :
          /\ fate'[k] = "waiting" /\ review'[k] = "pending"
          /\ Home[h] = parent'[k] /\ hold'[h] # "unused"
    BY <1>1, <1>5, <1>10 DEF HoldsOK, TypeOK
  <2> QED
    BY <2>2, <2>3 DEF HoldsOK
<1>12. MatchesFollowTheReset'
  <2>1. \A m \in M : /\ i \in Pending /\ hold[m[1]] = "present" /\ Home[m[1]] = parent[i]
                     /\ Home[m[2]] = i /\ hold[m[2]] = "unused"
    BY <1>1, <1>3, <1>4, <1>6 DEF HoldsOK, Storable, Pending, Present
  <2>2. \A m \in matches : m[1] \in Holds /\ m[2] \in Holds
    BY DEF TypeOK
  <2>3. \A m \in matches, n \in M : m[1] # n[1] /\ m[2] # n[2]
    <3> SUFFICES ASSUME NEW m \in matches, NEW n \in M PROVE m[1] # n[1] /\ m[2] # n[2]
      OBVIOUS
    <3>1. hold[m[2]] = "present"
      BY DEF MatchesFollowTheReset
    <3>2. m[1] = n[1] => Home[m[2]] = i
      BY <2>1, OldHoldIsFree
    <3>3. Home[m[2]] = i => hold[m[2]] = "unused"
      BY <1>1, <2>1, <2>2 DEF HoldsOK, Pending
    <3> QED
      BY <2>1, <3>1, <3>2, <3>3
  <2>4. OneToOne(matches')
    BY <1>3, <2>3 DEF OneToOne, Storable, MatchesFollowTheReset
  <2>5. \A m \in matches' :
          /\ hold'[m[1]] = "present" /\ hold'[m[2]] = "present"
          /\ review'[Home[m[2]]] # "null"
          /\ parent'[Home[m[2]]] = Home[m[1]]
    <3>1. ASSUME NEW m \in matches
          PROVE  /\ hold'[m[1]] = "present" /\ hold'[m[2]] = "present"
                 /\ review[Home[m[2]]] # "null" /\ parent[Home[m[2]]] = Home[m[1]]
      BY <1>5, <2>2 DEF MatchesFollowTheReset
    <3>2. ASSUME NEW m \in M
          PROVE  /\ hold'[m[1]] = "present" /\ hold'[m[2]] = "present"
                 /\ review[Home[m[2]]] # "null" /\ parent[Home[m[2]]] = Home[m[1]]
      BY <1>5, <1>6, <2>1 DEF Pending
    <3> QED
      BY <1>1, <1>3, <3>1, <3>2
  <2> QED
    BY <2>4, <2>5 DEF MatchesFollowTheReset, OneToOne
<1> QED
  BY <1>7, <1>8, <1>9, <1>11, <1>12

\* Images D go and images C come: the remaining holds and matches are in order.
LEMMA ReplaceKeepsHolds ==
    ASSUME IInv, NEW D \in SUBSET Images, NEW C \in SUBSET Images, ReplaceImages(D, C),
           \A i \in C : fate[i] = "none",
           \A i \in Pending \ D : parent[i] \notin D,
           \A i \in Images \ C : /\ review'[i] = review[i]
                                 /\ parent'[i] = IF parent[i] \in D THEN None ELSE parent[i]
    PROVE  HoldsOK' /\ MatchesFollowTheReset'
<1> USE DEF IInv
<1>1. /\ matches' \subseteq matches
      /\ matches' \subseteq Holds \X Holds
      /\ \A i \in Images : fate'[i] = IF i \in C THEN "waiting"
                                      ELSE IF i \in D THEN "removed" ELSE fate[i]
      /\ \A i \in Images : seen'[i] = IF i \in D THEN {} ELSE seen[i]
      /\ \A h \in Holds : hold'[h] = IF hold[h] = "present" /\ Home[h] \in D
                                     THEN "deleted" ELSE hold[h]
      /\ \A m \in matches' : /\ ~(hold[m[1]] = "present" /\ Home[m[1]] \in D)
                             /\ ~(hold[m[2]] = "present" /\ Home[m[2]] \in D)
  BY ReplaceEffect
<1>2. \A h \in Holds : Home[h] \in Images
  BY ConstantsOK
<1>3. \A h \in Holds : Home[h] \in C => hold[h] = "unused"
  BY DEF HoldsOK
<1>4. \A h \in Holds : hold'[h] = "present" => hold[h] = "present" /\ Home[h] \notin C \cup D
  BY <1>1, <1>3
<1>5. HoldsOK'
  <2>1. \A h \in Holds : hold'[h] = "present" => Present(Home[h])'
    BY <1>1, <1>2, <1>4 DEF HoldsOK, Present
  <2>2. \A h \in Holds : /\ fate'[Home[h]] = "none" => hold'[h] = "unused"
                         /\ fate'[Home[h]] = "waiting" /\ review'[Home[h]] = "pending"
                              => hold'[h] = "unused"
    BY <1>1, <1>2, <1>3 DEF HoldsOK
  <2>3. \A i \in Images : \A h \in seen'[i] :
          /\ fate'[i] = "waiting" /\ review'[i] = "pending"
          /\ Home[h] = parent'[i] /\ hold'[h] # "unused"
    <3> SUFFICES ASSUME NEW i \in Images, NEW h \in seen'[i]
                 PROVE  /\ fate'[i] = "waiting" /\ review'[i] = "pending"
                        /\ Home[h] = parent'[i] /\ hold'[h] # "unused"
      OBVIOUS
    <3>1. i \notin D /\ h \in seen[i] /\ h \in Holds
      BY <1>1 DEF TypeOK
    <3>2. /\ fate[i] = "waiting" /\ review[i] = "pending"
          /\ Home[h] = parent[i] /\ hold[h] # "unused"
      BY <3>1 DEF HoldsOK
    <3>3. i \notin C /\ parent[i] \notin D
      BY <3>1, <3>2 DEF Pending, Present
    <3> QED
      BY <1>1, <3>1, <3>2, <3>3
  <2> QED
    BY <2>1, <2>2, <2>3 DEF HoldsOK
<1>6. MatchesFollowTheReset'
  <2>1. OneToOne(matches)'
    BY <1>1 DEF MatchesFollowTheReset, OneToOne
  <2>2. ASSUME NEW m \in matches'
        PROVE  /\ hold'[m[1]] = "present" /\ hold'[m[2]] = "present"
               /\ review'[Home[m[2]]] # "null"
               /\ parent'[Home[m[2]]] = Home[m[1]]
    <3>1. /\ m[1] \in Holds /\ m[2] \in Holds
          /\ hold[m[1]] = "present" /\ hold[m[2]] = "present"
          /\ review[Home[m[2]]] # "null" /\ parent[Home[m[2]]] = Home[m[1]]
      BY <1>1 DEF MatchesFollowTheReset
    <3>2. Home[m[1]] \notin D /\ Home[m[2]] \notin C \cup D
      BY <1>1, <1>3, <3>1
    <3> QED
      BY <1>1, <1>2, <3>1, <3>2
  <2> QED
    BY <2>1, <2>2 DEF MatchesFollowTheReset
<1> QED
  BY <1>5, <1>6

\* Dropping resets under review and inserting images disturbs nobody else.
LEMMA ReplaceLasts ==
    ASSUME IInv, NEW D \in SUBSET Pending, NEW C \in SUBSET Images, ReplaceImages(D, C),
           \A i \in C : fate[i] = "none", wall' = wall,
           \A i \in Images \ C : review'[i] = review[i]
    PROVE  Lasting
<1> USE DEF IInv
<1>1. D \in SUBSET Images
  BY DEF Pending
<1>2. /\ \A i \in Images : fate'[i] = IF i \in C THEN "waiting"
                                      ELSE IF i \in D THEN "removed" ELSE fate[i]
      /\ \A h \in Holds : hold'[h] = IF hold[h] = "present" /\ Home[h] \in D
                                     THEN "deleted" ELSE hold[h]
  BY <1>1, ReplaceEffect
<1>3. \A i \in Images : review[i] # "pending" => i \notin D
  BY DEF Pending
<1> QED
  BY <1>2, <1>3 DEF Lasting, Present

\* The photo of a reset: its parent is active under the lock of the wall, and
\* the reset that was pending before it is dropped.
LEMMA UploadPartialStep ==
    ASSUME IInv, NEW c \in Clients, UploadPartial(c)
    PROVE  IInv'
<1> USE DEF IInv
<1>1. PICK i \in Images :
        /\ fate[i] = "none"
        /\ ReplaceImages(Pending, {i})
        /\ parent' = [Orphaned(Pending) EXCEPT ![i] = req[c].image]
        /\ review' = [review EXCEPT ![i] = "pending"]
  BY DEF UploadPartial
<1>2. PICK p \in Images : p = req[c].image /\ active[p]
  <2>1. req[c] \in Requests /\ req[c] # Idle
    BY RequestFields DEF UploadPartial, TypeOK
  <2> QED
    BY <2>1, RequestFields DEF UploadPartial, StillActive
<1>3. /\ UNCHANGED <<routes, on, ids>> /\ wall /\ wall' = wall /\ Respond(c)
      /\ active' = [k \in Images |-> active[k] /\ k \notin Pending]
  BY DEF UploadPartial, routeVars
<1>4. Pending \in SUBSET Images /\ {i} \in SUBSET Images
  BY DEF Pending
<1>5. /\ fate' \in [Images -> {"none", "waiting", "done", "failed", "removed"}]
      /\ seen' \in [Images -> SUBSET Holds]
      /\ hold' \in [Holds -> {"unused", "present", "deleted"}]
      /\ matches' \subseteq Holds \X Holds
      /\ \A k \in Images : fate'[k] = IF k = i THEN "waiting"
                                      ELSE IF k \in Pending THEN "removed" ELSE fate[k]
  <2>1. /\ fate' \in [Images -> {"none", "waiting", "done", "failed", "removed"}]
        /\ seen' \in [Images -> SUBSET Holds]
        /\ hold' \in [Holds -> {"unused", "present", "deleted"}]
        /\ matches' \subseteq Holds \X Holds
        /\ \A k \in Images : fate'[k] = IF k \in {i} THEN "waiting"
                                        ELSE IF k \in Pending THEN "removed" ELSE fate[k]
    BY <1>1, <1>4, ReplaceEffect, Zenon
  <2> QED
    BY <2>1
<1>6. /\ parent' \in [Images -> Images \cup {None}]
      /\ \A k \in Images : parent'[k] = IF k = i THEN p
                                        ELSE IF parent[k] \in Pending THEN None ELSE parent[k]
  BY <1>1, <1>2, <1>4, OrphanedEffect
<1>7. /\ review' \in [Images -> {"null", "pending", "applied"}]
      /\ \A k \in Images : review'[k] = IF k = i THEN "pending" ELSE review[k]
  BY <1>1 DEF TypeOK
<1>8. /\ active' \in [Images -> BOOLEAN]
      /\ \A k \in Images : active'[k] <=> active[k]
  <2>1. \A k \in Images : active[k] => k \notin Pending
    BY DEF ImagesOK, Pending
  <2>2. \A k \in Images : active'[k] <=> (active[k] /\ k \notin Pending)
    BY <1>3
  <2>3. active' \in [Images -> BOOLEAN]
    BY <1>3
  <2> QED
    BY <2>1, <2>2, <2>3
<1>9. TypeOK'
  BY <1>3, <1>5, <1>6, <1>7, <1>8, RespondEffect DEF TypeOK
<1>10. Lasting
  BY <1>1, <1>3, <1>4, <1>7, ReplaceLasts
<1>11. RequestsOK' /\ RoutesOK'
  BY <1>3, <1>10, RequestsLast, RoutesLast, RespondEffect
<1>12. \A k \in Pending : parent[k] \notin Pending
  BY DEF ImagesOK, Pending
<1>13. HoldsOK' /\ MatchesFollowTheReset'
  BY <1>1, <1>4, <1>6, <1>7, <1>12, ReplaceKeepsHolds
<1>14. ImagesOK'
  <2>1. Pending' = {i}
    BY <1>5, <1>7 DEF Pending, Present
  <2>2. i # p /\ p \notin Pending
    BY <1>1, <1>2 DEF ImagesOK, Present, Pending
  <2>3. \A k \in Images : active'[k] => Present(k)' /\ review'[k] # "pending"
    BY <1>1, <1>5, <1>7, <1>8 DEF ImagesOK, Present, Pending
  <2>4. \A k \in Images : Present(k)' => wall' /\ \E l \in Images : active'[l]
    BY <1>2, <1>3, <1>8
  <2>5. \A k \in Images : fate'[k] = "none" => review'[k] = "null" /\ parent'[k] = None
    BY <1>5, <1>6, <1>7 DEF ImagesOK
  <2>6. \A k \in Images : Present(k)' /\ review'[k] = "applied" =>
          fate'[k] = "done" /\ (parent'[k] # None => Archived(parent[k])')
    <3> SUFFICES ASSUME NEW k \in Images, Present(k)', review'[k] = "applied"
                 PROVE  /\ fate'[k] = "done"
                        /\ parent'[k] # None =>
                              /\ fate'[parent'[k]] # "none" /\ review'[parent'[k]] # "pending"
                              /\ ~active'[parent'[k]]
      BY DEF Archived
    <3>1. k # i /\ k \notin Pending /\ review[k] = "applied" /\ Present(k)
      BY <1>5, <1>7 DEF Present, Pending
    <3>2. fate[k] = "done" /\ (parent[k] # None => Archived(parent[k]))
      BY <3>1 DEF ImagesOK
    <3>3. parent[k] \in Images \cup {None}
      BY DEF TypeOK
    <3> QED
      BY <1>1, <1>5, <1>6, <1>7, <1>8, <3>1, <3>2, <3>3 DEF Archived
  <2>7. \A k, l \in Images : active'[k] /\ active'[l] => k = l
    BY <1>8 DEF ImagesOK
  <2>8. /\ \A k, l \in Pending' : k = l
        /\ \A k \in Pending' : parent'[k] # None /\ active'[parent'[k]]
    BY ConstantsOK, <1>2, <1>6, <1>8, <2>1
  <2> QED
    BY <2>3, <2>4, <2>5, <2>6, <2>7, <2>8 DEF ImagesOK
<1> QED
  BY <1>9, <1>11, <1>13, <1>14

\* A full photo replaces the active image and drops the pending reset.
LEMMA UploadFullStep ==
    ASSUME IInv, NEW i \in Images, UploadFull(i)
    PROVE  IInv'
<1> USE DEF IInv
<1>1. /\ UNCHANGED <<review, routes, on, ids, req>> /\ wall /\ wall' = wall
      /\ fate[i] = "none" /\ review[i] = "null" /\ parent[i] = None
      /\ ReplaceImages(Pending, {i})
      /\ parent' = Orphaned(Pending)
      /\ active' = [k \in Images |-> k = i]
  BY DEF UploadFull, Activate, routeVars, ImagesOK
<1>2. Pending \in SUBSET Images /\ {i} \in SUBSET Images
  BY DEF Pending
<1>3. /\ fate' \in [Images -> {"none", "waiting", "done", "failed", "removed"}]
      /\ seen' \in [Images -> SUBSET Holds]
      /\ hold' \in [Holds -> {"unused", "present", "deleted"}]
      /\ matches' \subseteq Holds \X Holds
      /\ \A k \in Images : fate'[k] = IF k = i THEN "waiting"
                                      ELSE IF k \in Pending THEN "removed" ELSE fate[k]
  <2>1. /\ fate' \in [Images -> {"none", "waiting", "done", "failed", "removed"}]
        /\ seen' \in [Images -> SUBSET Holds]
        /\ hold' \in [Holds -> {"unused", "present", "deleted"}]
        /\ matches' \subseteq Holds \X Holds
        /\ \A k \in Images : fate'[k] = IF k \in {i} THEN "waiting"
                                        ELSE IF k \in Pending THEN "removed" ELSE fate[k]
    BY <1>1, <1>2, ReplaceEffect, Zenon
  <2> QED
    BY <2>1
<1>4. /\ parent' \in [Images -> Images \cup {None}]
      /\ \A k \in Images : parent'[k] = IF parent[k] \in Pending THEN None ELSE parent[k]
  BY <1>1, <1>2, OrphanedEffect
<1>5. active' \in [Images -> BOOLEAN] /\ \A k \in Images : active'[k] <=> k = i
  BY <1>1
<1>6. TypeOK'
  BY <1>1, <1>3, <1>4, <1>5 DEF TypeOK
<1>7. Lasting
  BY <1>1, <1>2, ReplaceLasts
<1>8. RequestsOK' /\ RoutesOK'
  BY <1>1, <1>7, RequestsLast, RoutesLast
<1>9. \A k \in Pending : parent[k] \notin Pending
  BY DEF ImagesOK, Pending
<1>10. HoldsOK' /\ MatchesFollowTheReset'
  BY <1>1, <1>2, <1>4, <1>9, ReplaceKeepsHolds
<1>11. ImagesOK'
  <2>1. Pending' = {}
    BY <1>1, <1>3 DEF Pending, Present
  <2>2. \A k \in Images : active'[k] => Present(k)' /\ review'[k] # "pending"
    BY <1>1, <1>3, <1>5 DEF Present
  <2>3. \A k \in Images : Present(k)' => wall' /\ \E l \in Images : active'[l]
    BY <1>1, <1>5
  <2>4. \A k \in Images : fate'[k] = "none" => review'[k] = "null" /\ parent'[k] = None
    BY <1>1, <1>3, <1>4 DEF ImagesOK
  <2>5. \A k \in Images : Present(k)' /\ review'[k] = "applied" =>
          fate'[k] = "done" /\ (parent'[k] # None => Archived(parent[k])')
    <3> SUFFICES ASSUME NEW k \in Images, Present(k)', review'[k] = "applied"
                 PROVE  /\ fate'[k] = "done"
                        /\ parent'[k] # None =>
                              /\ fate'[parent'[k]] # "none" /\ review'[parent'[k]] # "pending"
                              /\ ~active'[parent'[k]]
      BY DEF Archived
    <3>1. k # i /\ k \notin Pending /\ review[k] = "applied" /\ Present(k)
      BY <1>1, <1>3 DEF Present, Pending
    <3>2. fate[k] = "done" /\ (parent[k] # None => Archived(parent[k]))
      BY <3>1 DEF ImagesOK
    <3>3. parent[k] \in Images \cup {None}
      BY DEF TypeOK
    <3> QED
      BY <1>1, <1>3, <1>4, <1>5, <3>1, <3>2, <3>3 DEF Archived
  <2>6. \A k, l \in Images : active'[k] /\ active'[l] => k = l
    BY <1>5
  <2> QED
    BY <2>1, <2>2, <2>3, <2>4, <2>5, <2>6 DEF ImagesOK
<1> QED
  BY <1>6, <1>8, <1>10, <1>11

\* Discarding a reset removes the image nobody but its review refers to.
LEMMA DiscardResetStep ==
    ASSUME IInv, NEW i \in Images, DiscardReset(i)
    PROVE  IInv'
<1> USE DEF IInv
<1>1. /\ UNCHANGED <<wall, review, routes, on, ids, req>>
      /\ i \in Pending
      /\ ReplaceImages({i}, {})
      /\ parent' = Orphaned({i})
      /\ active' = [active EXCEPT ![i] = FALSE]
  BY DEF DiscardReset, routeVars
<1>2. {i} \in SUBSET Images /\ {} \in SUBSET Images /\ {i} \in SUBSET Pending
  BY <1>1
<1>3. /\ fate' \in [Images -> {"none", "waiting", "done", "failed", "removed"}]
      /\ seen' \in [Images -> SUBSET Holds]
      /\ hold' \in [Holds -> {"unused", "present", "deleted"}]
      /\ matches' \subseteq Holds \X Holds
      /\ \A k \in Images : fate'[k] = IF k = i THEN "removed" ELSE fate[k]
  <2>1. /\ fate' \in [Images -> {"none", "waiting", "done", "failed", "removed"}]
        /\ seen' \in [Images -> SUBSET Holds]
        /\ hold' \in [Holds -> {"unused", "present", "deleted"}]
        /\ matches' \subseteq Holds \X Holds
        /\ \A k \in Images : fate'[k] = IF k \in {i} THEN "removed" ELSE fate[k]
    BY <1>1, <1>2, RemoveEffect
  <2> QED
    BY <2>1
<1>4. /\ parent' \in [Images -> Images \cup {None}]
      /\ \A k \in Images : parent'[k] = IF parent[k] = i THEN None ELSE parent[k]
  BY <1>1, <1>2, OrphanedEffect
<1>5. active' \in [Images -> BOOLEAN] /\ \A k \in Images : active'[k] <=> active[k]
  <2>1. ~active[i]
    BY <1>1 DEF ImagesOK, Pending
  <2> QED
    BY <1>1, <2>1 DEF TypeOK
<1>6. TypeOK'
  BY <1>1, <1>3, <1>4, <1>5 DEF TypeOK
<1>7. Lasting
  BY <1>1, <1>2, ReplaceLasts
<1>8. RequestsOK' /\ RoutesOK'
  BY <1>1, <1>7, RequestsLast, RoutesLast
<1>9. \A k \in Pending : k = i /\ parent[k] # i
  BY <1>1 DEF ImagesOK, Pending
<1>10. HoldsOK' /\ MatchesFollowTheReset'
  <2>1. \A k \in Images \ {} : /\ review'[k] = review[k]
                               /\ parent'[k] = IF parent[k] \in {i} THEN None ELSE parent[k]
    BY <1>1, <1>4
  <2> QED
    BY <1>1, <1>2, <1>9, <2>1, ReplaceKeepsHolds
<1>11. ImagesOK'
  <2>1. Pending' = {}
    BY <1>1, <1>3, <1>9 DEF Pending, Present
  <2>2. \A k \in Images : active'[k] => Present(k)' /\ review'[k] # "pending"
    BY <1>1, <1>3, <1>5 DEF ImagesOK, Present, Pending
  <2>3. \A k \in Images : Present(k)' => wall' /\ \E l \in Images : active'[l]
    BY <1>1, <1>3, <1>5 DEF ImagesOK, Present
  <2>4. \A k \in Images : fate'[k] = "none" => review'[k] = "null" /\ parent'[k] = None
    BY <1>1, <1>3, <1>4 DEF ImagesOK
  <2>5. \A k \in Images : Present(k)' /\ review'[k] = "applied" =>
          fate'[k] = "done" /\ (parent'[k] # None => Archived(parent[k])')
    <3> SUFFICES ASSUME NEW k \in Images, Present(k)', review'[k] = "applied"
                 PROVE  /\ fate'[k] = "done"
                        /\ parent'[k] # None =>
                              /\ fate'[parent'[k]] # "none" /\ review'[parent'[k]] # "pending"
                              /\ ~active'[parent'[k]]
      BY DEF Archived
    <3>1. k # i /\ review[k] = "applied" /\ Present(k)
      BY <1>1, <1>3 DEF Present, Pending
    <3>2. fate[k] = "done" /\ (parent[k] # None => Archived(parent[k]))
      BY <3>1 DEF ImagesOK
    <3>3. parent[k] \in Images \cup {None}
      BY DEF TypeOK
    <3> QED
      BY <1>1, <1>3, <1>4, <1>5, <3>1, <3>2, <3>3 DEF Archived
  <2>6. \A k, l \in Images : active'[k] /\ active'[l] => k = l
    BY <1>5 DEF ImagesOK
  <2> QED
    BY <2>1, <2>2, <2>3, <2>4, <2>5, <2>6 DEF ImagesOK
<1> QED
  BY <1>6, <1>8, <1>10, <1>11

\* Deleting the wall takes everything with it but the requests in flight.
LEMMA DeleteWallStep ==
    ASSUME IInv, DeleteWall
    PROVE  IInv'
<1> USE DEF IInv
<1> DEFINE D == {k \in Images : Present(k)}
<1>1. /\ UNCHANGED <<review, on, ids, req>> /\ wall' = FALSE
      /\ ReplaceImages(D, {})
      /\ parent' = [k \in Images |-> None]
      /\ active' = [k \in Images |-> FALSE]
      /\ routes' = [r \in Routes |-> IF routes[r] = "present" THEN "deleted" ELSE routes[r]]
  BY DEF DeleteWall
<1>2. D \in SUBSET Images /\ {} \in SUBSET Images
  OBVIOUS
<1>3. \A k \in Images : k \in D <=> Present(k)
  OBVIOUS
<1> HIDE DEF D
<1>4. /\ fate' \in [Images -> {"none", "waiting", "done", "failed", "removed"}]
      /\ seen' \in [Images -> SUBSET Holds]
      /\ hold' \in [Holds -> {"unused", "present", "deleted"}]
      /\ matches' \subseteq Holds \X Holds
      /\ matches' \subseteq matches
      /\ \A k \in Images : fate'[k] = IF k \in D THEN "removed" ELSE fate[k]
      /\ \A k \in Images : seen'[k] = IF k \in D THEN {} ELSE seen[k]
      /\ \A h \in Holds : hold'[h] = IF hold[h] = "present" /\ Home[h] \in D
                                     THEN "deleted" ELSE hold[h]
      /\ \A m \in matches' : /\ ~(hold[m[1]] = "present" /\ Home[m[1]] \in D)
                             /\ ~(hold[m[2]] = "present" /\ Home[m[2]] \in D)
  BY <1>1, <1>2, RemoveEffect
<1>5. \A k \in Images : fate'[k] \notin {"waiting", "done", "failed"}
  BY <1>3, <1>4 DEF Present
<1>6. TypeOK'
  BY <1>1, <1>4 DEF TypeOK
<1>7. ImagesOK'
  <2>1. Pending' = {}
    BY <1>5 DEF Pending, Present
  <2>2. \A k \in Images : fate'[k] = "none" => review'[k] = "null" /\ parent'[k] = None
    BY <1>1, <1>4 DEF ImagesOK
  <2>3. \A k \in Images : ~Present(k)' /\ ~active'[k]
    BY <1>1, <1>5 DEF Present
  <2> QED
    BY <2>1, <2>2, <2>3 DEF ImagesOK
<1>8. matches' = {}
  <2>1. \A m \in matches : hold[m[1]] = "present" /\ m[1] \in Holds /\ Home[m[1]] \in Images
    BY ConstantsOK DEF MatchesFollowTheReset, TypeOK
  <2> QED
    BY <1>3, <1>4, <2>1 DEF HoldsOK
<1>9. HoldsOK'
  <2>1. \A h \in Holds : Home[h] \in Images
    BY ConstantsOK
  <2>2. \A h \in Holds : hold'[h] # "present"
    BY <1>3, <1>4, <2>1 DEF HoldsOK
  <2>3. \A h \in Holds : fate'[Home[h]] = "none" => hold'[h] = "unused"
    BY <1>4, <2>1 DEF HoldsOK
  <2>4. \A k \in Images : seen'[k] = {}
    BY <1>3, <1>4 DEF HoldsOK, Present
  <2> QED
    BY <1>5, <2>1, <2>2, <2>3, <2>4 DEF HoldsOK
<1>10. RoutesOK'
  <2>1. \A r \in Routes : routes'[r] # "present"
    BY <1>1
  <2> QED
    BY <2>1 DEF RoutesOK, RouteOK
<1>11. RequestsOK'
  <2> SUFFICES ASSUME NEW c \in Clients, req[c] # Idle PROVE RequestOK(c)'
    BY <1>1 DEF RequestsOK, RequestOK
  <2>1. PICK q \in Requests : q = req[c] /\ q = req'[c] /\ q # Idle
    BY <1>1 DEF TypeOK
  <2>2. /\ fate[q.image] # "none" /\ review[q.image] # "pending"
        /\ q.op \in {"createValid", "updateValid"} => Drawn(q.ids, q.image)
        /\ q.image \in Images
        /\ q.op \in {"createValid", "updateValid"} => q.ids \in HoldLists
    BY <2>1, RequestFields DEF RequestsOK, RequestOK
  <2>3. fate'[q.image] # "none" /\ review'[q.image] # "pending"
    BY <1>1, <1>4, <2>2
  <2>4. q.op \in {"createValid", "updateValid"} =>
          \A k \in DOMAIN q.ids : Home[q.ids[k]] = q.image /\ hold'[q.ids[k]] # "unused"
    BY <1>4, <2>2 DEF Drawn, HoldLists
  <2> QED
    BY <1>1, <2>1, <2>3, <2>4 DEF RequestOK, Drawn
<1>12. MatchesFollowTheReset'
  BY <1>8 DEF MatchesFollowTheReset, OneToOne
<1> QED
  BY <1>6, <1>7, <1>9, <1>10, <1>11, <1>12

\* What a remap makes of a route that can be kept: a list of as many holds of
\* the new image, each the match of the one it replaces.
LEMMA RemapEffect ==
    ASSUME IInv, NEW i \in Images, NEW s \in HoldLists, Remappable(i, s)
    PROVE  /\ Remap(i, s) \in HoldLists
           /\ \A k \in DOMAIN s : <<s[k], Remap(i, s)[k]>> \in matches
           /\ \A k \in DOMAIN s : /\ Home[Remap(i, s)[k]] = i
                                  /\ hold[Remap(i, s)[k]] = "present"
<1> USE DEF IInv
<1>1. DOMAIN s = 1..RouteSize
  BY DEF HoldLists
<1>2. ASSUME NEW k \in DOMAIN s
      PROVE  /\ Remap(i, s)[k] \in Holds
             /\ <<s[k], Remap(i, s)[k]>> \in matches
             /\ Home[Remap(i, s)[k]] = i
             /\ hold[Remap(i, s)[k]] = "present"
  <2>1. s[k] \in Range(s)
    BY DEF Range
  <2>2. PICK m \in MatchesOf(i) : m[1] = s[k]
    BY <2>1 DEF Remappable
  <2>3. m \in matches /\ m[2] \in Holds /\ m = <<s[k], m[2]>>
    BY <2>2 DEF MatchesOf, TypeOK
  <2>4. \E h \in Holds : <<s[k], h>> \in MatchesOf(i)
    BY <2>2, <2>3
  <2>5. Remap(i, s)[k] = CHOOSE h \in Holds : <<s[k], h>> \in MatchesOf(i)
    BY DEF Remap
  <2>6. PICK h \in Holds : h = Remap(i, s)[k] /\ <<s[k], h>> \in MatchesOf(i)
    BY <2>4, <2>5
  <2>7. <<s[k], h>> \in matches /\ Home[<<s[k], h>>[2]] = i
    BY <2>6 DEF MatchesOf
  <2>8. hold[<<s[k], h>>[2]] = "present"
    BY <2>7 DEF MatchesFollowTheReset
  <2> QED
    BY <2>6, <2>7, <2>8
<1> DEFINE C(k) == CHOOSE h \in Holds : <<s[k], h>> \in MatchesOf(i)
<1>3. Remap(i, s) = [k \in DOMAIN s |-> C(k)]
  BY DEF Remap
<1> HIDE DEF C
<1>4. Remap(i, s) \in HoldLists
  BY <1>1, <1>2, <1>3 DEF HoldLists
<1> QED
  BY <1>2, <1>4

\* Applying a reset makes it active, archives its parent and moves the routes
\* that can be kept.
LEMMA ApplyResetStep ==
    ASSUME IInv, NEW i \in Images, ApplyReset(i)
    PROVE  IInv'
<1> USE DEF IInv
<1>1. /\ UNCHANGED <<wall, fate, parent, hold, matches, routes, seen, req>>
      /\ wall /\ i \in Pending /\ fate[i] = "done"
      /\ on' = [r \in Routes |-> IF r \in Kept(i) THEN i ELSE on[r]]
      /\ ids' = [r \in Routes |-> IF r \in Kept(i) THEN Remap(i, ids[r]) ELSE ids[r]]
      /\ active' = [k \in Images |-> k = i]
      /\ review' = [review EXCEPT ![i] = "applied"]
  BY DEF ApplyReset, Applicable, Reviewable, Activate
<1>2. \A k \in Images : /\ review'[k] = IF k = i THEN "applied" ELSE review[k]
                        /\ active'[k] <=> k = i
  BY <1>1 DEF TypeOK
<1>3. \A r \in Kept(i) : /\ routes[r] = "present" /\ ids[r] \in HoldLists
                         /\ Remappable(i, ids[r])
  BY DEF Kept, RoutesOK, RouteOK
<1>4. TypeOK'
  <2>1. /\ review' \in [Images -> {"null", "pending", "applied"}]
        /\ active' \in [Images -> BOOLEAN]
    BY <1>1 DEF TypeOK
  <2>2. on' \in [Routes -> Images \cup {None}]
    BY <1>1 DEF TypeOK
  <2>3. ids' \in [Routes -> HoldLists \cup {<<>>}]
    <3>1. \A r \in Routes : ids'[r] \in HoldLists \cup {<<>>}
      BY <1>1, <1>3, RemapEffect DEF TypeOK
    <3> QED
      BY <1>1, <3>1
  <2> QED
    BY <1>1, <2>1, <2>2, <2>3 DEF TypeOK
<1>5. Lasting
  BY <1>1, <1>2 DEF Lasting, Present
<1>6. RequestsOK'
  BY <1>1, <1>5, RequestsLast
<1>7. RoutesOK'
  <2> SUFFICES ASSUME NEW r \in Routes, routes[r] = "present" PROVE RouteOK(r)'
    BY <1>1 DEF RoutesOK, RouteOK
  <2>1. /\ on[r] \in Images /\ ids[r] \in HoldLists
        /\ Present(on[r]) /\ review[on[r]] # "pending" /\ Drawn(ids[r], on[r])
    BY DEF RoutesOK, RouteOK
  <2>2. CASE r \in Kept(i)
    <3>1. PICK s \in HoldLists : s = ids[r] /\ Remappable(i, s)
      BY <1>3, <2>2
    <3>2. PICK t \in HoldLists : t = Remap(i, s)
      BY <3>1, RemapEffect
    <3>3. on'[r] = i /\ ids'[r] = t
      BY <1>1, <2>2, <3>1, <3>2
    <3>4. \A k \in DOMAIN t : Home[t[k]] = i /\ hold[t[k]] # "unused"
      <4>1. DOMAIN t = DOMAIN s
        BY <3>1, <3>2 DEF HoldLists
      <4>2. \A k \in DOMAIN s : /\ Home[Remap(i, s)[k]] = i
                                /\ hold[Remap(i, s)[k]] = "present"
        BY <3>1, RemapEffect, Zenon
      <4> QED
        BY <3>2, <4>1, <4>2
    <3>5. /\ wall' /\ on'[r] \in Images /\ ids'[r] \in HoldLists
          /\ fate'[on'[r]] \in {"waiting", "done", "failed"}
          /\ review'[on'[r]] # "pending"
      BY <1>1, <1>2, <3>2, <3>3
    <3>6. \A k \in DOMAIN ids'[r] : Home[ids'[r][k]] = on'[r] /\ hold'[ids'[r][k]] # "unused"
      BY <1>1, <3>3, <3>4
    <3> QED
      BY <3>5, <3>6 DEF RouteOK, Drawn, Present, HoldLists
  <2>3. CASE r \notin Kept(i)
    <3>1. on'[r] = on[r] /\ ids'[r] = ids[r]
      BY <1>1, <2>3
    <3> QED
      BY <1>1, <1>2, <2>1, <3>1 DEF RouteOK, Drawn, Present, HoldLists
  <2> QED
    BY <2>2, <2>3
<1>8. HoldsOK'
  <2>1. fate[i] # "waiting"
    BY <1>1
  <2>2. \A k \in Images : fate[k] = "waiting" => review'[k] = review[k]
    BY <1>2, <2>1
  <2>3. \A h \in Holds : Home[h] \in Images
    BY ConstantsOK
  <2> QED
    BY <1>1, <2>2, <2>3 DEF HoldsOK, Present
<1>9. MatchesFollowTheReset'
  <2>1. \A m \in matches : Home[m[2]] \in Images
    BY ConstantsOK DEF TypeOK
  <2> QED
    BY <1>1, <1>2, <2>1 DEF MatchesFollowTheReset
<1>10. ImagesOK'
  <2>1. Pending' = {}
    BY <1>1, <1>2 DEF Pending, Present, ImagesOK
  <2>2. /\ \A k \in Images : active'[k] => Present(k)' /\ review'[k] # "pending"
        /\ \A k, l \in Images : active'[k] /\ active'[l] => k = l
        /\ \A k \in Images : Present(k)' => wall' /\ \E l \in Images : active'[l]
    BY <1>1, <1>2 DEF Present
  <2>3. \A k \in Images : fate'[k] = "none" => review'[k] = "null" /\ parent'[k] = None
    BY <1>1, <1>2 DEF ImagesOK
  <2>4. \A k \in Images : Present(k)' /\ review'[k] = "applied" =>
          fate'[k] = "done" /\ (parent'[k] # None => Archived(parent[k])')
    <3> SUFFICES ASSUME NEW k \in Images, Present(k), review'[k] = "applied"
                 PROVE  /\ fate[k] = "done"
                        /\ parent[k] # None =>
                              /\ fate[parent[k]] # "none" /\ review'[parent[k]] # "pending"
                              /\ ~active'[parent[k]]
      BY <1>1 DEF Archived, Present
    <3>1. parent[k] \in Images \cup {None}
      BY DEF TypeOK
    <3>2. CASE k = i
      <4>1. active[parent[i]] /\ parent[i] \in Images /\ ~active[i]
        BY <1>1, <3>1, <3>2 DEF ImagesOK, Pending
      <4>2. Present(parent[i]) /\ review[parent[i]] # "pending" /\ parent[i] # i
        BY <4>1 DEF ImagesOK
      <4> QED
        BY <1>1, <1>2, <3>2, <4>1, <4>2 DEF Present
    <3>3. CASE k # i
      <4>1. fate[k] = "done" /\ (parent[k] # None => Archived(parent[k]))
        BY <1>2, <3>3 DEF ImagesOK
      <4>2. review[i] = "pending"
        BY <1>1 DEF Pending
      <4> QED
        BY <1>2, <3>1, <4>1, <4>2 DEF Archived
    <3> QED
      BY <3>2, <3>3
  <2> QED
    BY <2>1, <2>2, <2>3, <2>4 DEF ImagesOK
<1> QED
  BY <1>4, <1>6, <1>7, <1>8, <1>9, <1>10

-----------------------------------------------------------------------------
(* The theorems. *)

\* The invariant holds of a new wall.
LEMMA InitIInv == Init => IInv
<1> SUFFICES ASSUME Init PROVE IInv
  OBVIOUS
<1>1. TypeOK
  BY ConstantsOK DEF Init, TypeOK, Requests
<1>2. Pending = {} /\ ImagesOK
  BY <1>1 DEF Init, ImagesOK, Pending, Present
<1>3. HoldsOK /\ RequestsOK /\ RoutesOK
  BY ConstantsOK DEF Init, HoldsOK, RequestsOK, RequestOK, RoutesOK, RouteOK
<1>4. MatchesFollowTheReset
  BY DEF Init, MatchesFollowTheReset, OneToOne
<1> QED
  BY <1>1, <1>2, <1>3, <1>4 DEF IInv

\* The invariant is inductive.
LEMMA NextIInv == IInv /\ [Next]_vars => IInv'
<1> SUFFICES ASSUME IInv, [Next]_vars PROVE IInv'
  OBVIOUS
<1>1. ASSUME NEW c \in Clients,
             \/ GetActiveWallImage(c) \/ ValidateHolds(c) \/ Refuse(c)
             \/ CreateRoute(c) \/ UpdateRoute(c) \/ CreateHold(c) \/ DeleteHold(c)
             \/ UploadPartial(c)
      PROVE  IInv'
  BY <1>1, RequestStep, SaveRouteStep, CreateHoldStep, DeleteHoldStep, UploadPartialStep
<1>2. ASSUME NEW i \in Images,
             \/ UploadFull(i) \/ UpdateResetMatch(i) \/ DeleteResetHold(i)
             \/ RestoreResetHold(i) \/ ApplyReset(i) \/ DiscardReset(i)
             \/ LoadPartialParent(i) \/ WriteResults(i) \/ FailDetection(i)
      PROVE  IInv'
  BY <1>2, UploadFullStep, UpdateResetMatchStep, DeleteHoldStep, RestoreResetHoldStep,
     ApplyResetStep, DiscardResetStep, LoadPartialParentStep, WriteResultsStep,
     FailDetectionStep
<1>3. ASSUME NEW r \in Routes, DeleteRoute(r) PROVE IInv'
  BY <1>3, DeleteRouteStep
<1>4. CASE DeleteWall
  BY <1>4, DeleteWallStep
<1>5. CASE UNCHANGED vars
  <2>1. UNCHANGED <<wall, fate, active, review, parent, hold, matches, routes, on, ids, seen, req>>
    BY <1>5 DEF vars, imageVars, routeVars
  <2>2. TypeOK'
    BY <2>1 DEF IInv, TypeOK
  <2>3. ImagesOK' /\ Lasting
    BY <2>1, SameImages
  <2>4. RequestsOK' /\ RoutesOK'
    BY <2>1, <2>3, RequestsLast, RoutesLast DEF IInv
  <2>5. HoldsOK' /\ MatchesFollowTheReset'
    BY <2>1 DEF IInv, HoldsOK, MatchesFollowTheReset, Present
  <2> QED
    BY <2>2, <2>3, <2>4, <2>5 DEF IInv
<1> QED
  BY <1>1, <1>2, <1>3, <1>4, <1>5 DEF Next

\* The invariant holds in every reachable state.
LEMMA SpecIInv == Spec => []IInv
BY InitIInv, NextIInv, PTL DEF Spec

\* The tables of a wall and the requests in flight stay well formed.
THEOREM TypeCorrect == Spec => []TypeOK
BY SpecIInv, PTL DEF IInv

\* However uploads, applications and discards interleave, a wall shows exactly
\* one image as long as it has any (UploadImage, ApplyReset, DiscardReset).
THEOREM WallShowsOneImage == Spec => []OneActiveImage
<1>1. IInv => OneActiveImage
  BY DEF IInv, ImagesOK, OneActiveImage
<1> QED
  BY <1>1, SpecIInv, PTL

\* The one reset under review is reviewed against the image the wall shows.
THEOREM ReviewIsCurrent == Spec => []PendingResetIsCurrent
<1>1. IInv => PendingResetIsCurrent
  BY DEF IInv, ImagesOK, Pending, PendingResetIsCurrent
<1> QED
  BY <1>1, SpecIInv, PTL

\* The matches stay one to one, between holds that exist, from parent to reset.
THEOREM MatchesAreOneToOne == Spec => []MatchesFollowTheReset
BY SpecIInv, PTL DEF IInv

\* No reset is applied before the worker's results for it are stored.
THEOREM OnlyDetectedResetsApply == Spec => []AppliedResetIsDetected
<1>1. IInv => AppliedResetIsDetected
  BY DEF IInv, ImagesOK, AppliedResetIsDetected
<1> QED
  BY <1>1, SpecIInv, PTL

\* The holds of a route are all holds of the image it is drawn on.
THEOREM RoutesStayWhole == Spec => []RoutesKeepToOneImage
<1>1. IInv => RoutesKeepToOneImage
  <2> SUFFICES ASSUME IInv, NEW r \in Routes, routes[r] = "present"
               PROVE  /\ \A h \in Range(ids[r]) : Home[h] = on[r] /\ hold[h] # "unused"
                      /\ Present(on[r])
                      /\ review[on[r]] # "pending"
    BY DEF RoutesKeepToOneImage
  <2> QED
    BY DEF IInv, RoutesOK, RouteOK, Drawn, Range
<1> QED
  BY <1>1, SpecIInv, PTL

\* A route that moves without being saved moves with the reset applied in that
\* step, each hold by its match: the step of every action that could do it.
LEMMA RouteMoves ==
    ASSUME IInv, [Next]_vars, NEW r \in Routes, routes[r] = "present", req' = req,
           <<on[r], ids[r]>>' # <<on[r], ids[r]>>
    PROVE  RouteMovesWithReset(r)
<1> USE DEF IInv
<1>1. ASSUME NEW c \in Clients, CreateRoute(c) \/ UpdateRoute(c) PROVE FALSE
  <2>1. req[c] \in Requests /\ req[c].op \in {"createValid", "updateValid"} /\ Respond(c)
    BY <1>1 DEF CreateRoute, UpdateRoute, TypeOK
  <2>2. req[c] # Idle /\ req'[c] = Idle
    BY <2>1, RequestFields, RespondEffect
  <2> QED
    BY <2>2
<1>2. PICK i \in Images : ApplyReset(i)
  BY <1>1 DEF Next, vars, routeVars, GetActiveWallImage, ValidateHolds, Refuse, CreateHold,
     DeleteHold, UploadPartial, UploadFull, UpdateResetMatch, DeleteResetHold,
     RestoreResetHold, DiscardReset, LoadPartialParent, WriteResults, FailDetection,
     DeleteRoute, DeleteWall
<1>3. /\ on' = [x \in Routes |-> IF x \in Kept(i) THEN i ELSE on[x]]
      /\ ids' = [x \in Routes |-> IF x \in Kept(i) THEN Remap(i, ids[x]) ELSE ids[x]]
      /\ active' = [k \in Images |-> k = i]
      /\ active[parent[i]]
  BY <1>2 DEF ApplyReset, Applicable, Activate
<1>4. r \in Kept(i)
  BY <1>3
<1>5. on[r] = parent[i] /\ Remappable(i, ids[r]) /\ ids[r] \in HoldLists
  BY <1>4 DEF Kept, RoutesOK, RouteOK
<1>6. PICK s \in HoldLists : s = ids[r] /\ Remappable(i, s)
  BY <1>5
<1>7. Remap(i, s) \in HoldLists /\ \A k \in DOMAIN s : <<s[k], Remap(i, s)[k]>> \in matches
  BY <1>6, RemapEffect, Zenon
<1>8. PICK t \in HoldLists : t = Remap(i, s) /\ \A k \in DOMAIN s : <<s[k], t[k]>> \in matches
  BY <1>7
<1>9. on'[r] = i /\ ids'[r] = t
  BY <1>3, <1>4, <1>6, <1>8
<1>10. Len(t) = Len(s)
  <2>1. RouteSize \in Nat
    BY ConstantsOK
  <2>2. \A u \in HoldLists : Len(u) = RouteSize
    BY <2>1 DEF HoldLists
  <2> QED
    BY <2>2
<1>11. \A k, l \in DOMAIN s : s[k] # s[l] => t[k] # t[l]
  <2> SUFFICES ASSUME NEW k \in DOMAIN s, NEW l \in DOMAIN s, t[k] = t[l]
               PROVE  s[k] = s[l]
    OBVIOUS
  <2>1. <<s[k], t[k]>> \in matches /\ <<s[l], t[l]>> \in matches
    BY <1>8
  <2>2. \A m, n \in matches : m[2] = n[2] => m[1] = n[1]
    BY DEF MatchesFollowTheReset, OneToOne
  <2> QED
    BY <2>1, <2>2
<1> QED
  BY <1>3, <1>5, <1>6, <1>8, <1>9, <1>10, <1>11 DEF RouteMovesWithReset

\* ApplyReset remaps a route hold by hold or not at all (remapRouteHolds), and
\* nothing else moves a route behind the back of those who edit it.
THEOREM RoutesMoveHoldByHold == Spec => RemapIsHoldByHold
<1>1. IInv /\ [Next]_vars =>
        [\A r \in Routes :
           routes[r] = "present" /\ req' = req /\ <<on[r], ids[r]>>' # <<on[r], ids[r]>>
           => RouteMovesWithReset(r)]_vars
  BY RouteMoves
<1> QED
  BY <1>1, SpecIInv, PTL DEF Spec, RemapIsHoldByHold

=============================================================================
