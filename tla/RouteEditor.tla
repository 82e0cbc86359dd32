----------------------------- MODULE RouteEditor -----------------------------
(***************************************************************************)
(* How a climb is drawn: holds are picked in the create mode of the wall   *)
(* page (web/src/pages/WallDetail.tsx), handed over in the address to the  *)
(* form (RouteCreate.tsx) and back, and saved; an existing climb comes     *)
(* from its page (RouteDetail.tsx).                                        *)
(*                                                                         *)
(* The wall page keeps its state while its address changes between         *)
(* browsing and creating; any other page discards it.  An address carries  *)
(* the ids of the holds and, for three of the four roles, who has it.      *)
(* What the form asks beside the holds is not modelled.                    *)
(***************************************************************************)
EXTENDS Integers, FiniteSets

CONSTANTS
    Hold,
    Climbs,    \* the climbs there are before: functions from some holds to roles
    MaxVisits, \* bounds the visits of the form
    MaxLost,   \* bounds the answers that are lost
    None

Roles == {"start", "hand", "finish", "foot"}

Selections == UNION {[S -> Roles] : S \in SUBSET Hold}

With(s, role) == {h \in DOMAIN s : s[h] = role}

\* The client places at most two holds of these.
Drawable(s) == Cardinality(With(s, "start")) <= 2 /\ Cardinality(With(s, "finish")) <= 2

\* A photo has finitely many holds.
ASSUME HoldAssumption == IsFiniteSet(Hold)
ASSUME ClimbsAssumption == \A c \in Climbs : c \in Selections /\ Drawable(c)
ASSUME BoundsAssumption == MaxVisits \in Nat /\ MaxLost \in Nat

VARIABLES
    page,     \* "browse" and "create" are the wall page, "form", "climb", "elsewhere"
    editing,  \* the climb that is edited, or None
    drawn,    \* the holds on the photo as the page knows them
    sel,      \* holdSelections: roles of the holds picked
    tool,
    address,  \* the holds in the address of the form
    picked,   \* history: the selection as it was last seen
    visit,    \* the number of the visit of the form
    request,  \* the save under way of each visit: it carries the address
    saved,    \* history: how many climbs the server has stored, by visit
    lost      \* history: how many answers to a visit were lost

vars == <<page, editing, drawn, sel, tool, address, picked, visit, request, saved, lost>>

Nothing == [h \in {} |-> "hand"]
NoAddress == [ids |-> {}, start |-> {}, finish |-> {}, foot |-> {}]

Init ==
    /\ page = "elsewhere" /\ editing = None
    /\ drawn = Hold
    /\ sel = Nothing /\ tool = "start"
    /\ address = NoAddress /\ picked = Nothing
    /\ visit = 0
    /\ request = [v \in 1..MaxVisits |-> "none"]
    /\ saved = [v \in 1..MaxVisits |-> 0] /\ lost = [v \in 1..MaxVisits |-> 0]

-----------------------------------------------------------------------------
(* The address.                                                            *)

\* allSelectionRoles and goToCreateRoute: a hand hold is one without a role.
Encode(s) == [ids |-> DOMAIN s, start |-> With(s, "start"), finish |-> With(s, "finish"), foot |-> With(s, "foot")]

DecodeWithoutFeet(a) ==                                                \* mutant
    [h \in a.ids |-> IF h \in a.start THEN "start" ELSE IF h \in a.finish THEN "finish" ELSE "hand"]

\* initialSelections.
Decode(a) ==
    [h \in a.ids |->
        IF h \in a.start THEN "start"
        ELSE IF h \in a.finish THEN "finish"
        ELSE IF h \in a.foot THEN "foot" ELSE "hand"]

-----------------------------------------------------------------------------
(* The wall page.                                                          *)

\* useState: the selection and the tool of a page that mounts.
Mount(a, edited) ==
    /\ sel' = Decode(a)
    /\ tool' = IF edited = None THEN "start" ELSE "hand"
    /\ editing' = edited

Discard == Mount(NoAddress, None)

OpenWall ==
    /\ page \in {"elsewhere", "climb"}
    /\ page' = "browse"
    /\ Discard /\ picked' = Nothing
    /\ UNCHANGED <<drawn, address, visit, request, saved, lost>>

\* The button of the navigation bar, on the wall page and from others.
StartClimb ==
    /\ page \in {"browse", "elsewhere"}
    /\ page' = "create"
    /\ IF page = "browse" THEN UNCHANGED <<sel, tool, editing, picked>>
       ELSE Discard /\ picked' = Nothing
    /\ UNCHANGED <<drawn, address, visit, request, saved, lost>>

\* editRoute: of a climb from before a reset, the holds that are still there.
EditClimb(c) ==
    /\ page = "climb"
    /\ page' = "create"
    /\ Mount(Encode(c), c)
    /\ picked' = c
    /\ UNCHANGED <<drawn, address, visit, request, saved, lost>>

ChooseTool(t) ==
    /\ page = "create" /\ t # tool
    /\ tool' = t
    /\ UNCHANGED <<page, editing, drawn, sel, address, picked, visit, request, saved, lost>>

\* The rest of handleCreateHold, for a role.
Place(h) ==
    LET count == Cardinality(With(sel, tool))
        before == IF h \in DOMAIN sel THEN sel[h] ELSE None
    IN  /\ sel' = [x \in DOMAIN sel \cup {h} |-> IF x = h THEN tool ELSE sel[x]]
        /\ tool' = IF tool = "start" /\ before # "start" /\ count + 1 = 2 THEN "hand" ELSE tool

PickWithTheEraser(h) ==                                                \* mutant
    /\ page = "create" /\ h \in drawn
    /\ tool \in {"start", "finish"} /\ h \notin With(sel, tool) => Cardinality(With(sel, tool)) < 2
    /\ Place(h) /\ picked' = sel'
    /\ UNCHANGED <<page, editing, drawn, address, visit, request, saved, lost>>

PickAnother(h) ==                                                      \* mutant
    /\ page = "create" /\ h \in drawn /\ tool # "erase"
    /\ tool \in {"start", "finish"} /\ h \notin DOMAIN sel => Cardinality(With(sel, tool)) < 2
    /\ Place(h) /\ picked' = sel'
    /\ UNCHANGED <<page, editing, drawn, address, visit, request, saved, lost>>

\* handleCreateHold: up to two start and two finish holds.
Pick(h) ==
    /\ page = "create" /\ h \in drawn /\ tool # "erase"
    /\ tool \in {"start", "finish"} /\ h \notin With(sel, tool) => Cardinality(With(sel, tool)) < 2
    /\ Place(h) /\ picked' = sel'
    /\ UNCHANGED <<page, editing, drawn, address, visit, request, saved, lost>>

Without(H) == [x \in DOMAIN sel \ H |-> sel[x]]

Erase(h) ==
    /\ page = "create" /\ h \in drawn /\ tool = "erase"
    /\ sel' = Without({h}) /\ picked' = sel'
    /\ UNCHANGED <<page, editing, drawn, tool, address, visit, request, saved, lost>>

ClearSelection ==
    /\ page = "create"
    /\ sel' = Nothing /\ picked' = sel'
    /\ UNCHANGED <<page, editing, drawn, tool, address, visit, request, saved, lost>>

\* Back to the climb, or to browsing with the selection kept.
CloseCreateMode ==
    /\ page = "create"
    /\ IF editing = None
       THEN page' = "browse" /\ UNCHANGED <<sel, tool, editing, picked>>
       ELSE page' = "climb" /\ Discard /\ picked' = Nothing
    /\ UNCHANGED <<drawn, address, visit, request, saved, lost>>

\* While browsing: a deleted hold leaves the selection, a new photo all of it.
DeleteHold(h) ==
    /\ page = "browse" /\ h \in drawn
    /\ drawn' = drawn \ {h}
    /\ sel' = Without({h}) /\ picked' = sel'
    /\ UNCHANGED <<page, editing, tool, address, visit, request, saved, lost>>

UploadPhoto ==
    /\ page = "browse" /\ drawn # {}
    /\ drawn' = {}
    /\ sel' = Nothing /\ picked' = sel'
    /\ UNCHANGED <<page, editing, tool, address, visit, request, saved, lost>>

\* Someone else deletes a hold.  The selection keeps it.
HoldVanishes(h) ==
    /\ h \in drawn
    /\ drawn' = drawn \ {h}
    /\ UNCHANGED <<page, editing, sel, tool, address, picked, visit, request, saved, lost>>

-----------------------------------------------------------------------------
(* The form.                                                               *)

GoToForm ==
    /\ page = "create" /\ Cardinality(DOMAIN sel) >= 2
    /\ visit < MaxVisits                                                \* bound
    /\ page' = "form"
    /\ address' = Encode(sel)
    /\ Mount(NoAddress, editing)
    /\ visit' = visit + 1
    /\ UNCHANGED <<drawn, picked, request, saved, lost>>

\* The Back link.  What was typed into the form is not in the address.
BackToWall ==
    /\ page = "form"
    /\ page' = "create"
    /\ Mount(address, editing)
    /\ address' = NoAddress
    /\ UNCHANGED <<drawn, picked, visit, request, saved, lost>>

SaveAgain ==                                                           \* mutant
    /\ page = "form" /\ request[visit] # "sent"
    /\ request' = [request EXCEPT ![visit] = "sent"]
    /\ UNCHANGED <<page, editing, drawn, sel, tool, address, picked, visit, saved, lost>>

\* The buttons are disabled while a save of this visit is under way.
Save ==
    /\ page = "form" /\ request[visit] = "none"
    /\ request' = [request EXCEPT ![visit] = "sent"]
    /\ UNCHANGED <<page, editing, drawn, sel, tool, address, picked, visit, saved, lost>>

\* A save of a hold that is not on the active photo is refused by the server.
Accept(v) ==
    /\ request[v] = "sent"
    /\ saved' = [saved EXCEPT ![v] = @ + 1]
    /\ request' = [request EXCEPT ![v] = "answered"]
    /\ UNCHANGED <<page, editing, drawn, sel, tool, address, picked, visit, lost>>

Refuse(v) ==
    /\ request[v] = "sent"
    /\ request' = [request EXCEPT ![v] = "none"]
    /\ UNCHANGED <<page, editing, drawn, sel, tool, address, picked, visit, saved, lost>>

LoseAnswer(v) ==
    /\ request[v] = "answered"
    /\ lost[v] < MaxLost                                                \* bound
    /\ lost' = [lost EXCEPT ![v] = @ + 1]
    /\ request' = [request EXCEPT ![v] = "none"]
    /\ UNCHANGED <<page, editing, drawn, sel, tool, address, picked, visit, saved>>

\* The page moves on if it is still the form that asked.
SaveDone(v) ==
    /\ request[v] = "answered"
    /\ request' = [request EXCEPT ![v] = "none"]
    /\ IF page = "form" /\ visit = v
       THEN /\ page' = IF editing # None THEN "climb" ELSE "browse"
            /\ Discard /\ picked' = Nothing /\ address' = NoAddress
       ELSE UNCHANGED <<page, sel, tool, editing, picked, address>>
    /\ UNCHANGED <<drawn, visit, saved, lost>>

\* The navigation bar is hidden while a climb is drawn.
Leave ==
    /\ page \in {"browse", "climb"}
    /\ page' = "elsewhere"
    /\ Discard /\ picked' = Nothing
    /\ UNCHANGED <<drawn, address, visit, request, saved, lost>>

OpenClimb ==
    /\ page \in {"browse", "elsewhere"}
    /\ page' = "climb"
    /\ Discard /\ picked' = Nothing
    /\ UNCHANGED <<drawn, address, visit, request, saved, lost>>

Next ==
    \/ OpenWall \/ StartClimb \/ ClearSelection \/ CloseCreateMode \/ UploadPhoto
    \/ \E c \in Climbs : EditClimb(c)
    \/ \E t \in Roles \cup {"erase"} : ChooseTool(t)
    \/ \E h \in Hold : Pick(h) \/ Erase(h) \/ DeleteHold(h) \/ HoldVanishes(h)
    \/ GoToForm \/ BackToWall \/ Save
    \/ \E v \in 1..MaxVisits : Accept(v) \/ Refuse(v) \/ LoseAnswer(v) \/ SaveDone(v)
    \/ Leave \/ OpenClimb

Spec == Init /\ [][Next]_vars

-----------------------------------------------------------------------------
(* Properties.                                                             *)

TypeOK ==
    /\ page \in {"browse", "create", "form", "climb", "elsewhere"}
    /\ editing \in Climbs \cup {None} /\ drawn \subseteq Hold
    /\ sel \in Selections /\ picked \in Selections
    /\ tool \in Roles \cup {"erase"}
    /\ address \in [ids : SUBSET Hold, start : SUBSET Hold, finish : SUBSET Hold, foot : SUBSET Hold]
    /\ visit \in 0..MaxVisits
    /\ request \in [1..MaxVisits -> {"none", "sent", "answered"}]
    /\ saved \in [1..MaxVisits -> Nat] /\ lost \in [1..MaxVisits -> 0..MaxLost]

\* Whatever is picked, re-assigned, erased and handed to the form and back, no climb has
\* more than two start or two finish holds: "You can select up to 2" (handleCreateHold).
EndpointsAreLimited ==
    Drawable(sel) /\ Drawable(Decode(address))

\* The form saves and gives back exactly the selection, or the climb, that was last seen;
\* no role is lost in the address (goToCreateRoute, backParams, initialSelections).
HandOverIsFaithful ==
    /\ page \in {"browse", "create"} => sel = picked
    /\ page = "form" => Decode(address) = picked

\* A visit of the form saves one climb, and another only after an answer was lost
\* (canSave, isPending).
OneClimbPerVisit == \A v \in 1..visit : saved[v] <= 1 + lost[v]

\* What is saved is what was drawn: within the limits, unchanged by the way to the form
\* and back, and once (WallDetail, RouteCreate).
ClimbsAreAsDrawn == EndpointsAreLimited /\ HandOverIsFaithful /\ OneClimbPerVisit

=============================================================================
