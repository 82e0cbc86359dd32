------------------------------ MODULE Circuits ------------------------------
(***************************************************************************)
(* The ordered routes of one circuit (server/internal/route/circuits.go).  *)
(*                                                                         *)
(* Only its owner changes a circuit, and both replacing and appending lock *)
(* its row, so there is one such transaction at a time.  The routes belong *)
(* to their setters, who publish, withdraw and delete them meanwhile: a    *)
(* route that is neither published nor the owner's own is hidden from the  *)
(* owner but keeps its place.  Every statement of a replacement sees what  *)
(* was committed before it.                                                *)
(***************************************************************************)
EXTENDS Integers, Sequences, FiniteSets, FiniteSetsExt

CONSTANTS
    Routes,       \* the routes of the wall
    Own,          \* those of the circuit's owner
    MaxRoutes,    \* 100 in the code
    MaxPosition,  \* bounds the positions before a replacement or an append
    None

ASSUME ConstantsOK ==
    /\ Own \subseteq Routes /\ IsFiniteSet(Routes)
    /\ MaxRoutes \in Nat /\ MaxPosition \in Nat
    /\ None \notin Nat

VARIABLES
    status,    \* of each route: published, draft, or gone
    position,  \* circuit_routes: None, or the route's position
    tx         \* None, or the replacement under way

vars == <<status, position, tx>>

Visible(r) == status[r] = "published" \/ (r \in Own /\ status[r] # "gone")

Members(rows) == {r \in Routes : rows[r] # None}

NextPosition == Max({position[x] : x \in Members(position)} \cup {-1}) + 1

\* parseCircuitRouteIDs: unique ids, within the limit.
RouteLists ==
    {ids \in UNION {[1..n -> Routes] : n \in 0..MaxRoutes} :
        \A i, j \in DOMAIN ids : ids[i] = ids[j] => i = j}

Listed(ids) == {ids[i] : i \in DOMAIN ids}

Index(ids, r) == CHOOSE i \in DOMAIN ids : ids[i] = r

\* A circuit has just been created, with any of the routes its owner sees.
Init ==
    /\ status \in [Routes -> {"published", "draft"}]
    /\ \E ids \in RouteLists :
        /\ \A r \in Listed(ids) : Visible(r)
        /\ position = [r \in Routes |->
            IF r \in Listed(ids) THEN Index(ids, r) - 1 ELSE None]
    /\ tx = None

-----------------------------------------------------------------------------
(* Replacing the routes that the owner sees.                               *)

\* The hidden routes, each with the number of hidden and of visible ones before it.
HiddenRoutes(ids) ==
    LET hidden == {r \in Members(position) : ~Visible(r) /\ r \notin Listed(ids)}
        visible == {x \in Members(position) : Visible(x)}
        before(r, S) == Cardinality({x \in S : position[x] < position[r]})
    IN  [r \in hidden |-> [hiddenBefore |-> before(r, hidden), visibleBefore |-> before(r, visible)]]

BeginReplace(ids) ==
    /\ NextPosition <= MaxPosition                                      \* bound
    /\ tx = None
    /\ Len(ids) + Cardinality(DOMAIN HiddenRoutes(ids)) <= MaxRoutes
    /\ tx' = [step |-> "listed", ids |-> ids, hidden |-> HiddenRoutes(ids),
              rows |-> [r \in Routes |-> None]]
    /\ UNCHANGED <<status, position>>

CheckRoutes ==
    /\ tx # None /\ tx.step = "listed"
    /\ \A r \in Listed(tx.ids) : Visible(r)
    /\ tx' = [tx EXCEPT !.step = "checked"]
    /\ UNCHANGED <<status, position>>

OffsetOfIds == Len(tx.ids)                                             \* mutant

Offset == Len(tx.ids) + Cardinality(DOMAIN tx.hidden) + 1

\* The unique key on positions is checked row by row, so the update fails when
\* it moves a row onto one that it has yet to move.
MayCollide == \E r, x \in Members(position) : position[x] = position[r] + Offset

ShiftPositions ==
    /\ tx # None /\ tx.step = "checked"
    /\ \/ tx' = [tx EXCEPT !.step = "shifted",
                           !.rows = [r \in Routes |->
                                IF position[r] = None THEN None ELSE position[r] + Offset]]
       \/ /\ MayCollide
          /\ tx' = None
    /\ UNCHANGED <<status, position>>

DeleteVisible ==
    /\ tx # None /\ tx.step = "shifted"
    /\ tx' = [tx EXCEPT !.step = "deleted",
                        !.rows = [r \in Routes |-> IF Visible(r) THEN None ELSE tx.rows[r]]]
    /\ UNCHANGED <<status, position>>

PlaceLate(r) ==                                                        \* mutant
    IF r \in Listed(tx.ids)
    THEN LET i == Index(tx.ids, r)
         IN  i - 1 + Cardinality({h \in DOMAIN tx.hidden : tx.hidden[h].visibleBefore < i - 1})
    ELSE LET h == tx.hidden[r]
         IN  h.hiddenBefore + (IF h.visibleBefore < Len(tx.ids) THEN h.visibleBefore + 1 ELSE Len(tx.ids))

\* The position that the merge of the requested routes and the hidden ones gives a route:
\* a hidden one comes after as many requested ones as there were visible ones before it.
Place(r) ==
    IF r \in Listed(tx.ids)
    THEN LET i == Index(tx.ids, r)
         IN  i - 1 + Cardinality({h \in DOMAIN tx.hidden : tx.hidden[h].visibleBefore < i})
    ELSE LET h == tx.hidden[r]
         IN  h.hiddenBefore + (IF h.visibleBefore < Len(tx.ids) THEN h.visibleBefore ELSE Len(tx.ids))

NewOrder == Listed(tx.ids) \cup DOMAIN tx.hidden

\* Rows are written one by one, so a position is taken by a row that is not
\* rewritten, or not yet.
Taken(r) == \E x \in Members(tx.rows) :
    tx.rows[x] = Place(r) /\ ~(x \in NewOrder /\ Place(x) <= Place(r))

WriteRowsOnce ==                                                       \* mutant
    /\ tx # None /\ tx.step = "deleted"
    /\ \A r \in Listed(tx.ids) : status[r] # "gone"
    /\ \A r \in NewOrder : ~Taken(r)
    /\ position' = [r \in Routes |->
        IF r \in NewOrder /\ (tx.rows[r] # None <=> r \notin Listed(tx.ids))
        THEN Place(r) ELSE tx.rows[r]]
    /\ tx' = None
    /\ UNCHANGED status

\* A hidden route's row may be gone: its update changes nothing.
WriteRows ==
    /\ tx # None /\ tx.step = "deleted"
    /\ \A r \in Listed(tx.ids) : tx.rows[r] = None /\ status[r] # "gone"
    /\ \A r \in NewOrder : ~Taken(r)
    /\ position' = [r \in Routes |->
        IF r \in Listed(tx.ids) \/ (r \in NewOrder /\ tx.rows[r] # None)
        THEN Place(r) ELSE tx.rows[r]]
    /\ tx' = None
    /\ UNCHANGED status

\* A statement or the commit fails, or the request is refused.
Rollback ==
    /\ tx # None
    /\ tx' = None
    /\ UNCHANGED <<status, position>>

-----------------------------------------------------------------------------
(* Other requests.                                                         *)

\* Appending a route that is there changes nothing.
AppendCircuitRoute(r) ==
    /\ NextPosition <= MaxPosition                                      \* bound
    /\ tx = None
    /\ Visible(r) /\ position[r] = None
    /\ Cardinality(Members(position)) < MaxRoutes
    /\ position' = [position EXCEPT ![r] = NextPosition]
    /\ UNCHANGED <<status, tx>>

\* From the shift on, a replacement holds the locks of the circuit's rows.
RowsLocked == tx # None /\ tx.step \in {"shifted", "deleted"}

DeleteCircuitRoute(r) ==
    /\ ~RowsLocked
    /\ position' = [position EXCEPT ![r] = None]
    /\ UNCHANGED <<status, tx>>

\* The rows of a deleted route go with it.
DeleteRoute(r) ==
    /\ status[r] # "gone"
    /\ RowsLocked => position[r] = None
    /\ status' = [status EXCEPT ![r] = "gone"]
    /\ position' = [position EXCEPT ![r] = None]
    /\ UNCHANGED tx

\* PublishRoute, and the status in UpdateRoute.
UpdateRouteStatus(r, s) ==
    /\ status[r] \notin {"gone", s}
    /\ status' = [status EXCEPT ![r] = s]
    /\ UNCHANGED <<position, tx>>

Next ==
    \/ \E ids \in RouteLists : BeginReplace(ids)
    \/ CheckRoutes \/ ShiftPositions \/ DeleteVisible \/ WriteRows \/ Rollback
    \/ \E r \in Routes :
        \/ AppendCircuitRoute(r) \/ DeleteCircuitRoute(r) \/ DeleteRoute(r)
        \/ \E s \in {"published", "draft"} : UpdateRouteStatus(r, s)

Spec == Init /\ [][Next]_vars

-----------------------------------------------------------------------------
(* What a circuit keeps.                                                   *)

\* Every row and the transaction under way have the columns of their type.
TypeOK ==
    /\ status \in [Routes -> {"published", "draft", "gone"}]
    /\ position \in [Routes -> Nat \cup {None}]
    /\ tx # None =>
        /\ tx.step \in {"listed", "checked", "shifted", "deleted"}
        /\ tx.ids \in RouteLists
        /\ DOMAIN tx.hidden \subseteq Routes \ Listed(tx.ids)
        /\ \A h \in DOMAIN tx.hidden : tx.hidden[h] \in [hiddenBefore : Nat, visibleBefore : Nat]
        /\ tx.rows \in [Routes -> Nat \cup {None}]

\* The shift makes room: whatever became hidden or was deleted meanwhile, no
\* row is in the way of those a replacement writes.
WritesFindRoom ==
    tx # None /\ tx.step = "deleted" => \A r \in NewOrder : ~Taken(r)

\* No two routes of a circuit are in one place.
PlacesDiffer == \A r, x \in Members(position) : position[r] = position[x] => r = x

\* Between requests and inside a replacement the rows are well formed and each has its own
\* position, and what a replacement writes finds room (replaceCircuitRoutes).
CircuitOK == TypeOK /\ PlacesDiffer /\ WritesFindRoom

\* A replacement leaves what was asked for, in that order, even when some of
\* it was withdrawn or deleted meanwhile, and brings nothing else back.
ReplacementIsWhatWasAsked ==
    [][WriteRows =>
        /\ Listed(tx.ids) \subseteq Members(position)'
        /\ \A i, j \in DOMAIN tx.ids : i < j => position'[tx.ids[i]] < position'[tx.ids[j]]
        /\ (Members(position)') \ Listed(tx.ids) \subseteq Members(position)]_vars

\* openapi.yaml: "routes hidden from the caller are preserved in their prior
\* relative position".  Those that the replacement listed as hidden keep their
\* order, and as many of the visible routes before them as there are.
HiddenRoutesKeepTheirPlace ==
    [][WriteRows =>
        \A h \in DOMAIN tx.hidden :
            LET visibleBefore == tx.hidden[h].visibleBefore
                asked == {r \in Listed(tx.ids) : position'[r] < position'[h]}
            IN  tx.rows[h] # None =>
                    /\ \/ Cardinality(asked) = visibleBefore
                       \/ asked = Listed(tx.ids) /\ Len(tx.ids) < visibleBefore
                    /\ \A x \in Members(tx.rows) \cap DOMAIN tx.hidden :
                        position[x] < position[h] => position'[x] < position'[h]]_vars

-----------------------------------------------------------------------------
(* What a document says and the code does not keep.                        *)

\* openapi.yaml: the owner may replace the visible route order by any list of
\* unique routes on the wall that are published or theirs; no failure of the
\* server is among the answers.  The shift of such a replacement finds room.
ReplacementsDoNotCollide ==
    tx # None /\ tx.step = "checked" => ~MayCollide

=============================================================================
