-------------------------- MODULE ClientPages_proofs --------------------------
(***************************************************************************)
(* Proofs about the pages on which climbs are drawn, listed, logged and    *)
(* put in order, about the feed that is read page by page, and about the   *)
(* query cache behind all pages: for any photo of finitely many holds and  *)
(* any climbs on it (RouteEditor), pages of any length, and any number of  *)
(* visits, taps, requests, writes, fetches and lost answers.               *)
(***************************************************************************)
EXTENDS MCClientPages, FiniteSetTheorems, SequenceTheorems, TLAPS

Addresses == [ids : SUBSET Hold, start : SUBSET Hold, finish : SUBSET Hold, foot : SUBSET Hold]

-----------------------------------------------------------------------------
(* Selections and addresses.                                               *)

LEMMA SelectionIs ==
    ASSUME NEW S \in SUBSET Hold, NEW s \in [S -> Roles]
    PROVE  s \in Selections
  BY DEF Selections

LEMMA SelectionHas ==
    ASSUME NEW s \in Selections
    PROVE  /\ DOMAIN s \in SUBSET Hold
           /\ s \in [DOMAIN s -> Roles]
           /\ \A r \in Roles : With(s, r) \in SUBSET Hold
<1>1. PICK S \in SUBSET Hold : s \in [S -> Roles]
  BY DEF Selections
<1>2. DOMAIN s = S
  BY <1>1
<1> QED
  BY <1>1, <1>2 DEF With

\* What goToCreateRoute writes is an address.
LEMMA EncodeIsAddress ==
    ASSUME NEW s \in Selections
    PROVE  Encode(s) \in Addresses
  BY SelectionHas DEF Encode, Addresses, Roles

\* What initialSelections reads is a selection, whatever the address says.
LEMMA DecodeIsSelection ==
    ASSUME NEW a \in Addresses
    PROVE  Decode(a) \in Selections
<1>1. a.ids \in SUBSET Hold
  BY DEF Addresses
<1>2. Decode(a) \in [a.ids -> Roles]
  BY DEF Decode, Roles
<1> QED
  BY <1>1, <1>2, SelectionIs

\* No role is lost on the way: a hold without a role in the address is a hand hold.
LEMMA AddressKeepsRoles ==
    ASSUME NEW s \in Selections
    PROVE  Decode(Encode(s)) = s
<1> DEFINE e == Encode(s)
<1>1. s \in [DOMAIN s -> Roles]
  BY SelectionHas
<1>2. e.ids = DOMAIN s
  BY DEF Encode
<1>3. ASSUME NEW h \in DOMAIN s
      PROVE  Decode(e)[h] = s[h]
  <2>1. s[h] \in Roles
    BY <1>1
  <2>2. /\ h \in e.start <=> s[h] = "start"
        /\ h \in e.finish <=> s[h] = "finish"
        /\ h \in e.foot <=> s[h] = "foot"
    BY DEF Encode, With
  <2>3. Decode(e)[h] = IF h \in e.start THEN "start"
                       ELSE IF h \in e.finish THEN "finish"
                       ELSE IF h \in e.foot THEN "foot" ELSE "hand"
    BY <1>2 DEF Decode
  <2> QED
    BY <2>1, <2>2, <2>3 DEF Roles
<1>4. Decode(e) = [h \in DOMAIN s |-> Decode(e)[h]]
  BY <1>2 DEF Decode
<1>5. s = [h \in DOMAIN s |-> s[h]]
  BY <1>1
<1> QED
  BY <1>3, <1>4, <1>5

LEMMA NothingIsDrawn ==
    /\ Nothing \in Selections /\ Drawable(Nothing)
    /\ NoAddress \in Addresses /\ Decode(NoAddress) = Nothing
<1>1. Nothing \in [{} -> Roles]
  BY DEF Nothing, Roles
<1>2. Nothing \in Selections
  BY <1>1, SelectionIs
<1>3. With(Nothing, "start") = {} /\ With(Nothing, "finish") = {}
  BY DEF With, Nothing
<1>4. Cardinality({}) = 0
  BY FS_EmptySet
<1>5. Drawable(Nothing)
  BY <1>3, <1>4 DEF Drawable
<1>6. NoAddress \in Addresses
  BY DEF NoAddress, Addresses
<1>7. NoAddress.ids = {}
  BY DEF NoAddress
<1>8. Decode(NoAddress) = Nothing
  BY <1>7 DEF Decode, Nothing
<1> QED
  BY <1>2, <1>5, <1>6, <1>8

\* Fewer holds with a role are within its limit.
LEMMA FewerAreDrawable ==
    ASSUME NEW s \in Selections, NEW t \in Selections, Drawable(s),
           \A r \in {"start", "finish"} : With(t, r) \subseteq With(s, r)
    PROVE  Drawable(t)
<1>1. ASSUME NEW r \in {"start", "finish"}
      PROVE  /\ IsFiniteSet(With(s, r)) /\ Cardinality(With(s, r)) \in Nat
             /\ Cardinality(With(t, r)) \in Nat
             /\ Cardinality(With(t, r)) <= Cardinality(With(s, r))
  <2>1. With(s, r) \in SUBSET Hold
    BY SelectionHas DEF Roles
  <2>2. IsFiniteSet(With(s, r))
    BY <2>1, HoldAssumption, FS_Subset
  <2>3. IsFiniteSet(With(t, r)) /\ Cardinality(With(t, r)) <= Cardinality(With(s, r))
    BY <2>2, FS_Subset
  <2> QED
    BY <2>2, <2>3, FS_CardinalityType
<1> QED
  BY <1>1 DEF Drawable

\* One more hold is within the limit of its role if there was room, or it had it before.
LEMMA PlacedIsDrawable ==
    ASSUME NEW s \in Selections, NEW h \in Hold, NEW role \in Roles, Drawable(s),
           role \in {"start", "finish"} /\ h \notin With(s, role) => Cardinality(With(s, role)) < 2
    PROVE  LET t == [x \in DOMAIN s \cup {h} |-> IF x = h THEN role ELSE s[x]]
           IN  t \in Selections /\ Drawable(t)
<1> DEFINE t == [x \in DOMAIN s \cup {h} |-> IF x = h THEN role ELSE s[x]]
<1>1. s \in [DOMAIN s -> Roles] /\ DOMAIN s \cup {h} \in SUBSET Hold
  BY SelectionHas
<1>2. t \in [DOMAIN s \cup {h} -> Roles]
  BY <1>1
<1>3. t \in Selections
  BY <1>1, <1>2, SelectionIs
<1>4. ASSUME NEW r \in {"start", "finish"}
      PROVE  Cardinality(With(t, r)) <= 2
  <2>1. With(s, r) \in SUBSET Hold
    BY SelectionHas DEF Roles
  <2>2. IsFiniteSet(With(s, r)) /\ Cardinality(With(s, r)) \in Nat /\ Cardinality(With(s, r)) <= 2
    BY <2>1, HoldAssumption, FS_Subset, FS_CardinalityType DEF Drawable
  <2>3. CASE r = role /\ h \notin With(s, role)
    <3>1. With(t, r) = With(s, r) \cup {h}
      BY <2>3, <1>1 DEF With
    <3>2. Cardinality(With(t, r)) = Cardinality(With(s, r)) + 1
      BY <2>2, <2>3, <3>1, FS_AddElement
    <3>3. Cardinality(With(s, r)) < 2
      BY <2>3
    <3> QED
      BY <2>2, <3>2, <3>3
  <2>4. CASE r # role \/ h \in With(s, role)
    <3>1. With(t, r) \subseteq With(s, r)
      BY <2>4, <1>1 DEF With
    <3>2. IsFiniteSet(With(t, r)) /\ Cardinality(With(t, r)) <= Cardinality(With(s, r))
      BY <2>2, <3>1, FS_Subset
    <3> QED
      BY <2>2, <3>2, FS_CardinalityType
  <2> QED
    BY <2>3, <2>4
<1> QED
  BY <1>3, <1>4 DEF Drawable

-----------------------------------------------------------------------------
(* The selection.  That the form gives back what was picked rests on the   *)
(* address decoding to it, and that it is within the limits on the address *)
(* being.                                                                  *)

EditorInv ==
    /\ page \in {"browse", "create", "form", "climb", "elsewhere"}
    /\ editing \in Climbs \cup {None} /\ drawn \subseteq Hold
    /\ sel \in Selections /\ picked \in Selections
    /\ tool \in Roles \cup {"erase"}
    /\ address \in Addresses
    /\ EndpointsAreLimited
    /\ HandOverIsFaithful

LEMMA DiscardIs ==
    ASSUME Discard
    PROVE  sel' = Nothing /\ tool' = "start" /\ editing' = None
  BY NothingIsDrawn DEF Discard, Mount

\* Dropping holds from the selection.
LEMMA WithoutIsDrawable ==
    ASSUME EditorInv, NEW H
    PROVE  Without(H) \in Selections /\ Drawable(Without(H))
<1> DEFINE t == Without(H)
<1>1. sel \in Selections /\ Drawable(sel)
  BY DEF EditorInv, EndpointsAreLimited
<1>2. sel \in [DOMAIN sel -> Roles] /\ DOMAIN sel \in SUBSET Hold
  BY <1>1, SelectionHas
<1>3. t \in [DOMAIN sel \ H -> Roles]
  BY <1>2 DEF Without
<1>4. t \in Selections
  BY <1>2, <1>3, SelectionIs
<1>5. \A r \in {"start", "finish"} : With(t, r) \subseteq With(sel, r)
  BY DEF With, Without
<1> QED
  BY <1>1, <1>4, <1>5, FewerAreDrawable

LEMMA EditorInit == ASSUME Init PROVE EditorInv
<1>1. sel = Nothing /\ picked = Nothing /\ address = NoAddress /\ tool = "start" /\ editing = None
      /\ page = "elsewhere" /\ drawn = Hold
  BY DEF Init
<1> QED
  BY <1>1, NothingIsDrawn DEF EditorInv, EndpointsAreLimited, HandOverIsFaithful, Roles

LEMMA EditorStep == ASSUME EditorInv, [Next]_vars PROVE EditorInv'
<1> USE DEF EditorInv, EndpointsAreLimited, HandOverIsFaithful
<1>1. CASE OpenWall
  BY <1>1, DiscardIs, NothingIsDrawn DEF OpenWall, Roles
<1>2. CASE StartClimb
  BY <1>2, DiscardIs, NothingIsDrawn DEF StartClimb, Roles
<1>3. ASSUME NEW c \in Climbs, EditClimb(c) PROVE EditorInv'
  <2>1. c \in Selections /\ Drawable(c)
    BY ClimbsAssumption
  <2>2. sel' = c /\ tool' \in Roles /\ editing' = c
    BY <1>3, <2>1, AddressKeepsRoles DEF EditClimb, Mount, Roles
  <2> QED
    BY <1>3, <2>1, <2>2 DEF EditClimb
<1>4. ASSUME NEW t \in Roles \cup {"erase"}, ChooseTool(t) PROVE EditorInv'
  BY <1>4 DEF ChooseTool
<1>5. ASSUME NEW h \in Hold, Pick(h) PROVE EditorInv'
  <2>1. tool \in Roles
    BY <1>5 DEF Pick
  <2>2. sel' \in Selections /\ Drawable(sel')
    BY <1>5, <2>1, PlacedIsDrawable DEF Pick, Place
  <2>3. tool' \in Roles \cup {"erase"}
    BY <1>5, <2>1 DEF Pick, Place, Roles
  <2> QED
    BY <1>5, <2>2, <2>3 DEF Pick
<1>6. ASSUME NEW h \in Hold, Erase(h) PROVE EditorInv'
  BY <1>6, WithoutIsDrawable DEF Erase
<1>7. CASE ClearSelection
  BY <1>7, NothingIsDrawn DEF ClearSelection
<1>8. CASE CloseCreateMode
  BY <1>8, DiscardIs, NothingIsDrawn DEF CloseCreateMode, Roles
<1>9. ASSUME NEW h \in Hold, DeleteHold(h) PROVE EditorInv'
  BY <1>9, WithoutIsDrawable DEF DeleteHold
<1>10. CASE UploadPhoto
  BY <1>10, NothingIsDrawn DEF UploadPhoto
<1>11. ASSUME NEW h \in Hold, HoldVanishes(h) PROVE EditorInv'
  BY <1>11 DEF HoldVanishes
<1>12. CASE GoToForm
  <2>1. address' \in Addresses /\ Decode(address') = sel
    BY <1>12, EncodeIsAddress, AddressKeepsRoles DEF GoToForm
  <2>2. sel' = Nothing /\ tool' \in Roles /\ editing' = editing
    BY <1>12, NothingIsDrawn DEF GoToForm, Mount, Roles
  <2> QED
    BY <1>12, <2>1, <2>2, NothingIsDrawn DEF GoToForm
<1>13. CASE BackToWall
  <2>1. sel' = Decode(address) /\ tool' \in Roles /\ editing' = editing
    BY <1>13 DEF BackToWall, Mount, Roles
  <2>2. sel' \in Selections
    BY <2>1, DecodeIsSelection
  <2> QED
    BY <1>13, <2>1, <2>2, NothingIsDrawn DEF BackToWall
<1>14. CASE Save
  BY <1>14 DEF Save
<1>15. ASSUME NEW v \in 1..MaxVisits, Accept(v) \/ Refuse(v) \/ LoseAnswer(v) PROVE EditorInv'
  BY <1>15 DEF Accept, Refuse, LoseAnswer
<1>16. ASSUME NEW v \in 1..MaxVisits, SaveDone(v) PROVE EditorInv'
  BY <1>16, DiscardIs, NothingIsDrawn DEF SaveDone, Roles
<1>17. CASE Leave
  BY <1>17, DiscardIs, NothingIsDrawn DEF Leave, Roles
<1>18. CASE OpenClimb
  BY <1>18, DiscardIs, NothingIsDrawn DEF OpenClimb, Roles
<1>19. CASE UNCHANGED vars
  BY <1>19 DEF vars
<1> QED
  BY <1>1, <1>2, <1>3, <1>4, <1>5, <1>6, <1>7, <1>8, <1>9, <1>10, <1>11, <1>12, <1>13, <1>14,
     <1>15, <1>16, <1>17, <1>18, <1>19 DEF Next

-----------------------------------------------------------------------------
(* The saves.  A save that has not been stored by now was preceded by as   *)
(* many lost answers as the visit has stored climbs.                       *)

SavesInv ==
    /\ visit \in 0..MaxVisits
    /\ request \in [1..MaxVisits -> {"none", "sent", "answered"}]
    /\ saved \in [1..MaxVisits -> Nat] /\ lost \in [1..MaxVisits -> 0..MaxLost]
    /\ page = "form" => visit # 0
    /\ \A v \in 1..MaxVisits :
        /\ saved[v] <= 1 + lost[v]
        /\ request[v] = "sent" => saved[v] <= lost[v]
        /\ page = "form" /\ v = visit /\ request[v] = "none" => saved[v] <= lost[v]
        /\ v > visit => request[v] = "none" /\ saved[v] = 0

LEMMA SavesInit == ASSUME Init PROVE SavesInv
  BY BoundsAssumption DEF Init, SavesInv

LEMMA SavesStep == ASSUME SavesInv, [Next]_vars PROVE SavesInv'
<1> USE BoundsAssumption DEF SavesInv
<1>1. CASE /\ UNCHANGED <<visit, request, saved, lost>>
           /\ page' = page \/ page' # "form"
  BY <1>1
<1>2. CASE GoToForm
  BY <1>2 DEF GoToForm
<1>3. CASE Save
  BY <1>3 DEF Save
<1>4. ASSUME NEW v \in 1..MaxVisits, Accept(v) PROVE SavesInv'
  <2>1. /\ saved[v] \in Nat /\ lost[v] \in 0..MaxLost /\ saved[v] + 1 <= 1 + lost[v]
        /\ v <= visit
    BY <1>4 DEF Accept
  <2>2. /\ saved' = [saved EXCEPT ![v] = saved[v] + 1]
        /\ request' = [request EXCEPT ![v] = "answered"]
        /\ UNCHANGED <<page, visit, lost>>
    BY <1>4 DEF Accept
  <2>3. saved' \in [1..MaxVisits -> Nat]
    BY <2>1, <2>2
  <2>4. ASSUME NEW x \in 1..MaxVisits, x # v
        PROVE  saved'[x] = saved[x] /\ request'[x] = request[x]
    BY <2>2, <2>4
  <2>5. saved'[v] = saved[v] + 1 /\ request'[v] = "answered"
    BY <2>2
  <2>6. request' \in [1..MaxVisits -> {"none", "sent", "answered"}]
    BY <2>2
  <2>7. ASSUME NEW x \in 1..MaxVisits
        PROVE  /\ saved'[x] <= 1 + lost[x]
               /\ request'[x] = "sent" => saved'[x] <= lost[x]
               /\ page = "form" /\ x = visit /\ request'[x] = "none" => saved'[x] <= lost[x]
               /\ x > visit => request'[x] = "none" /\ saved'[x] = 0
    <3>1. CASE x = v
      BY <2>1, <2>5, <3>1
    <3>2. CASE x # v
      BY <2>4, <3>2
    <3> QED
      BY <3>1, <3>2
  <2> QED
    BY <2>2, <2>3, <2>6, <2>7
<1>5. ASSUME NEW v \in 1..MaxVisits, Refuse(v) PROVE SavesInv'
  BY <1>5 DEF Refuse
<1>6. ASSUME NEW v \in 1..MaxVisits, LoseAnswer(v) PROVE SavesInv'
  BY <1>6 DEF LoseAnswer
<1>7. ASSUME NEW v \in 1..MaxVisits, SaveDone(v) PROVE SavesInv'
  BY <1>7 DEF SaveDone
<1>8. CASE \/ OpenWall \/ StartClimb \/ ClearSelection \/ CloseCreateMode \/ UploadPhoto
           \/ \E c \in Climbs : EditClimb(c)
           \/ \E t \in Roles \cup {"erase"} : ChooseTool(t)
           \/ \E h \in Hold : Pick(h) \/ Erase(h) \/ DeleteHold(h) \/ HoldVanishes(h)
           \/ BackToWall \/ Leave \/ OpenClimb
  BY <1>1, <1>8 DEF OpenWall, StartClimb, ClearSelection, CloseCreateMode, UploadPhoto, EditClimb,
     ChooseTool, Pick, Erase, DeleteHold, HoldVanishes, BackToWall, Leave, OpenClimb
<1>9. CASE UNCHANGED vars
  BY <1>1, <1>9 DEF vars
<1> QED
  BY <1>2, <1>3, <1>4, <1>5, <1>6, <1>7, <1>8, <1>9 DEF Next

-----------------------------------------------------------------------------

LEMMA Invariants == Spec => [](EditorInv /\ SavesInv)
<1>1. Init => EditorInv /\ SavesInv
  BY EditorInit, SavesInit
<1>2. EditorInv /\ SavesInv /\ [Next]_vars => (EditorInv /\ SavesInv)'
  BY EditorStep, SavesStep
<1> QED
  BY <1>1, <1>2, PTL DEF Spec

\* The state of the pages stays well formed (WallDetail.tsx, RouteCreate.tsx).
THEOREM TypeCorrect == Spec => []TypeOK
<1>1. EditorInv /\ SavesInv => TypeOK
  BY DEF EditorInv, SavesInv, TypeOK, Addresses
<1> QED
  BY <1>1, Invariants, PTL

\* However a climb is picked, re-assigned, handed over and back, and saved: within the
\* limits of start and finish holds, with every role, and once per visit of the form and
\* lost answer (handleCreateHold, goToCreateRoute, initialSelections, canSave).
THEOREM ClimbsAreSavedAsDrawn == Spec => []ClimbsAreAsDrawn
<1>1. EditorInv /\ SavesInv => ClimbsAreAsDrawn
  BY BoundsAssumption DEF EditorInv, SavesInv, ClimbsAreAsDrawn, OneClimbPerVisit
<1> QED
  BY <1>1, Invariants, PTL

-----------------------------------------------------------------------------
(* The list of climbs.                                                     *)

Links ==
    [holds : SUBSET WallHolds, circuit : WallCircuits \cup {None}, min : 0..MaxGrade, max : 0..MaxGrade,
     other : BOOLEAN, junk : BOOLEAN]

\* What the page has to do about an address, or has done.
Canonical(a) ==
    /\ List!Parse(a) = a
    /\ loaded => a.circuit \in circuits \cup {None}
    /\ holds # {} => a.holds \subseteq holds

ListTyped ==
    /\ listAddress \in Links /\ listShown \in Links /\ stored \in Links
    /\ {mounted, restored, stale, loaded, overtaken} \subseteq BOOLEAN
    /\ holds \subseteq WallHolds /\ circuits \subseteq WallCircuits

\* Unless a tap has overtaken an effect, what is stored are the filters of the address that
\* was rendered, and an address that a render has left alone needs no correction.
ListInv ==
    /\ ListTyped
    /\ mounted /\ restored /\ listShown = listAddress /\ ~overtaken =>
           /\ stored = List!Parse(listAddress)
           /\ ~stale => Canonical(listAddress)

LEMMA ParseIs ==
    ASSUME NEW a \in Links
    PROVE  /\ List!Parse(a) \in Links
           /\ List!Parse(a).holds = a.holds /\ List!Parse(a).circuit = a.circuit
           /\ List!Parse(a).min = a.min /\ List!Parse(a).other = a.other
           /\ List!Parse(a).max = IF a.min # 0 /\ a.min > a.max THEN 0 ELSE a.max
           /\ List!Parse(a).junk = FALSE
<1> DEFINE m == IF a.min # 0 /\ a.min > a.max THEN 0 ELSE a.max
<1>1. a.min \in 0..MaxGrade /\ a.max \in 0..MaxGrade /\ m \in 0..MaxGrade
  BY ListBounds DEF Links
<1>2. List!Parse(a) = [a EXCEPT !.junk = FALSE, !.max = m]
  BY DEF List!Parse
<1> HIDE DEF m
<1>3. /\ List!Parse(a) \in Links
      /\ List!Parse(a).holds = a.holds /\ List!Parse(a).circuit = a.circuit
      /\ List!Parse(a).min = a.min /\ List!Parse(a).other = a.other /\ List!Parse(a).junk = FALSE
      /\ List!Parse(a).max = m
  BY <1>1, <1>2 DEF Links
<1> QED
  BY <1>3 DEF m

\* Two addresses are the same if their parts are.
LEMMA SameLink ==
    ASSUME NEW a \in Links, NEW b \in Links,
           a.holds = b.holds, a.circuit = b.circuit, a.min = b.min, a.max = b.max, a.other = b.other, a.junk = b.junk
    PROVE  a = b
BY DEF Links

LEMMA PlainIsLink == List!NoFilters \in Links /\ List!Parse(List!NoFilters) = List!NoFilters
<1> DEFINE a == List!NoFilters
<1>1. /\ a \in Links
      /\ a.min = 0 /\ a.max = 0 /\ a.junk = FALSE
  BY ListBounds DEF List!NoFilters, Links
<1> HIDE DEF a
<1>2. List!Parse(a) = a
  BY <1>1, ParseIs, SameLink
<1> QED
  BY <1>1, <1>2 DEF a

\* The effects of a render: each of them changes the address, or leaves it.
LEMMA EffectsChange ==
    ASSUME ListTyped
    PROVE  /\ List!Restore = <<>> \/ (List!Restore = <<stored>> /\ stored # listAddress)
           /\ List!Canonicalise = <<>> \/ \E a \in Links \ {listAddress} : List!Canonicalise = <<a>>
           /\ List!DropCircuit = <<>> \/ \E a \in Links \ {listAddress} : List!DropCircuit = <<a>>
           /\ List!PruneHolds = <<>> \/ \E a \in Links \ {listAddress} : List!PruneHolds = <<a>>
<1> DEFINE p == List!Parse(listAddress)
           q == [p EXCEPT !.circuit = None]
           r == [p EXCEPT !.holds = @ \cap holds]
<1>1. listAddress \in Links /\ p \in Links /\ p.holds = listAddress.holds /\ p.circuit = listAddress.circuit
  BY ParseIs DEF ListTyped
<1>2. List!Restore = <<>> \/ (List!Restore = <<stored>> /\ stored # listAddress)
  BY DEF List!Restore, List!HasParams
<1>3. List!Canonicalise = <<>> \/ \E a \in Links \ {listAddress} : List!Canonicalise = <<a>>
  BY <1>1 DEF List!Canonicalise
<1>4. List!DropCircuit = <<>> \/ \E a \in Links \ {listAddress} : List!DropCircuit = <<a>>
  <2>1. q \in Links /\ q.circuit = None
    BY <1>1 DEF Links
  <2> HIDE DEF p
  <2>2. p.circuit \notin circuits \cup {None} => q # listAddress
    BY <1>1, <2>1
  <2>3. List!DropCircuit = IF loaded /\ p.circuit \notin circuits \cup {None} THEN <<q>> ELSE <<>>
    BY DEF List!DropCircuit, p
  <2> HIDE DEF q
  <2> QED
    BY <2>1, <2>2, <2>3
<1>5. List!PruneHolds = <<>> \/ \E a \in Links \ {listAddress} : List!PruneHolds = <<a>>
  <2>1. r \in Links /\ r.holds = p.holds \cap holds
    BY <1>1 DEF Links, ListTyped
  <2> HIDE DEF p
  <2>2. ~(p.holds \subseteq holds) => r # listAddress
    BY <1>1, <2>1
  <2>3. List!PruneHolds = IF holds # {} /\ ~(p.holds \subseteq holds) THEN <<r>> ELSE <<>>
    BY DEF List!PruneHolds, p
  <2> HIDE DEF r
  <2> QED
    BY <2>1, <2>2, <2>3
<1> QED
  BY <1>2, <1>3, <1>4, <1>5

\* The last of several effects wins.
LEMMA LastWins ==
    ASSUME NEW S, NEW s \in Seq(S), NEW t \in Seq(S), t = <<>> \/ \E x \in S : t = <<x>>
    PROVE  /\ s \o t \in Seq(S)
           /\ s \o t = <<>> => s = <<>> /\ t = <<>>
           /\ s \o t # <<>> => List!Last(s \o t) = IF t = <<>> THEN List!Last(s) ELSE List!Last(t)
<1>1. CASE t = <<>>
  <2>1. s \o t = s
    BY <1>1, ConcatEmptySeq
  <2> QED
    BY <1>1, <2>1
<1>2. ASSUME NEW x \in S, t = <<x>> PROVE s \o t = Append(s, x)
  BY <1>2
<1>3. CASE \E x \in S : t = <<x>>
  <2>1. PICK x \in S : t = <<x>>
    BY <1>3
  <2>2. s \o t = Append(s, x)
    BY <1>2, <2>1
  <2>3. Append(s, x) \in Seq(S) /\ Len(Append(s, x)) = Len(s) + 1 /\ Append(s, x)[Len(s) + 1] = x
    OBVIOUS
  <2>4. Append(s, x) # <<>>
    OBVIOUS
  <2>5. List!Last(s \o t) = x /\ List!Last(t) = x
    BY <2>1, <2>2, <2>3 DEF List!Last
  <2> QED
    BY <2>1, <2>2, <2>3, <2>4, <2>5
<1> QED
  BY <1>1, <1>3

\* What a render leaves as the address: a link, and another one if any effect has set it.
LEMMA EffectsSet ==
    ASSUME ListTyped, NEW set, set = List!Restore \o List!Canonicalise \o List!DropCircuit \o List!PruneHolds
    PROVE  /\ set # <<>> => List!Last(set) \in Links \ {listAddress}
           /\ set = <<>> => /\ List!Restore = <<>> /\ List!Canonicalise = <<>>
                            /\ List!DropCircuit = <<>> /\ List!PruneHolds = <<>>
<1> DEFINE Other == Links \ {listAddress}
           Sets(t) == t = <<>> \/ \E x \in Other : t = <<x>>
           LastIn(s) == s \in Seq(Other) /\ (s # <<>> => List!Last(s) \in Other)
<1>1. Sets(List!Restore) /\ Sets(List!Canonicalise) /\ Sets(List!DropCircuit) /\ Sets(List!PruneHolds)
  BY EffectsChange DEF ListTyped
<1>2. ASSUME NEW t, Sets(t)
      PROVE  LastIn(t)
  <2> HIDE DEF Other
  <2>1. CASE t = <<>>
    BY <2>1
  <2>2. ASSUME NEW x \in Other, t = <<x>> PROVE LastIn(t)
    <3>1. t \in Seq(Other) /\ Len(t) = 1 /\ t[1] = x
      BY <2>2
    <3> QED
      BY <3>1 DEF List!Last
  <2> QED
    BY <1>2, <2>1, <2>2
<1>3. ASSUME NEW s, NEW t, LastIn(s), Sets(t)
      PROVE  LastIn(s \o t) /\ (s \o t = <<>> => s = <<>> /\ t = <<>>)
  <2> HIDE DEF Other
  <2>1. t \in Seq(Other) /\ LastIn(t)
    BY <1>2, <1>3
  <2> QED
    BY <1>3, <2>1, LastWins
<1> HIDE DEF Sets, LastIn
<1> DEFINE s == List!Restore
           t == List!Restore \o List!Canonicalise
           u == List!Restore \o List!Canonicalise \o List!DropCircuit
<1>4. LastIn(s)
  BY <1>1, <1>2
<1>5. LastIn(t) /\ (t = <<>> => s = <<>> /\ List!Canonicalise = <<>>)
  BY <1>1, <1>3, <1>4
<1>6. LastIn(u) /\ (u = <<>> => t = <<>> /\ List!DropCircuit = <<>>)
  BY <1>1, <1>3, <1>5
<1>7. LastIn(set) /\ (set = <<>> => u = <<>> /\ List!PruneHolds = <<>>)
  BY <1>1, <1>3, <1>6
<1> QED
  BY <1>5, <1>6, <1>7 DEF LastIn

LEMMA NoEffectIsNeeded ==
    ASSUME ListTyped, List!Canonicalise = <<>>, List!DropCircuit = <<>>, List!PruneHolds = <<>>
    PROVE  Canonical(listAddress)
<1>1. List!Parse(listAddress) = listAddress
  BY DEF List!Canonicalise
<1> QED
  BY <1>1 DEF List!DropCircuit, List!PruneHolds, Canonical

LEMMA ListRenders == ASSUME ListInv, List!Render PROVE ListInv'
<1> DEFINE set == List!Restore \o List!Canonicalise \o List!DropCircuit \o List!PruneHolds
<1>1. /\ mounted /\ listShown' = listAddress /\ restored' = TRUE /\ stale' = FALSE
      /\ listAddress' = IF set = <<>> THEN listAddress ELSE List!Last(set)
      /\ stored' = IF listShown # listAddress \/ ~restored THEN List!SaveState ELSE stored
      /\ overtaken' = (overtaken /\ listShown = listAddress /\ restored)
      /\ UNCHANGED <<mounted, holds, circuits, loaded>>
  BY DEF List!Render
<1>2. /\ set # <<>> => List!Last(set) \in Links \ {listAddress}
      /\ set = <<>> => /\ List!Restore = <<>> /\ List!Canonicalise = <<>>
                       /\ List!DropCircuit = <<>> /\ List!PruneHolds = <<>>
  BY EffectsSet DEF ListInv
<1> HIDE DEF set
<1>3. /\ List!Parse(listAddress) \in Links
      /\ List!SaveState = IF List!Restore # <<>> THEN stored ELSE List!Parse(listAddress)
  BY ParseIs DEF ListInv, ListTyped, List!SaveState
<1>4. ListTyped'
  BY <1>1, <1>2, <1>3 DEF ListInv, ListTyped
<1>5. ASSUME listShown' = listAddress', ~overtaken'
      PROVE  stored' = List!Parse(listAddress)' /\ Canonical(listAddress)'
  <2>1. set = <<>> /\ listAddress' = listAddress
    BY <1>1, <1>2, <1>5
  <2>2. Canonical(listAddress)
    BY <1>2, <2>1, NoEffectIsNeeded DEF ListInv
  <2>3. stored' = List!Parse(listAddress)
    <3>1. CASE listShown # listAddress \/ ~restored
      BY <1>1, <1>2, <1>3, <2>1, <3>1
    <3>2. CASE listShown = listAddress /\ restored
      BY <1>1, <1>5, <3>2 DEF ListInv
    <3> QED
      BY <3>1, <3>2
  <2> QED
    BY <1>1, <2>1, <2>2, <2>3 DEF Canonical, List!Parse
<1> QED
  BY <1>4, <1>5 DEF ListInv

LEMMA ListTapped ==
    ASSUME ListInv, NEW filters \in Links, List!Tap(filters)
    PROVE  ListInv'
<1>1. /\ mounted /\ restored /\ listAddress' = filters
      /\ overtaken' = (overtaken \/ listShown # listAddress)
      /\ UNCHANGED <<mounted, listShown, stored, restored, stale, holds, circuits, loaded>>
  BY DEF List!Tap
<1>2. ListTyped'
  BY <1>1 DEF ListInv, ListTyped
<1>3. ASSUME listShown' = listAddress', ~overtaken'
      PROVE  listAddress' = listAddress /\ listShown = listAddress /\ ~overtaken
  BY <1>1, <1>3
<1> QED
  BY <1>1, <1>2, <1>3 DEF ListInv, Canonical, List!Parse

\* What the buttons ask for is a link.
LEMMA TapsAreLinks ==
    ASSUME ListInv,
           \/ \E h \in WallHolds : List!ToggleHold(h)
           \/ \E c \in WallCircuits \cup {None} : List!UpdateCircuit(c)
           \/ \E g \in List!Grades : List!SelectGrade(g)
           \/ List!ClearHolds \/ List!AnyGrade \/ List!ToggleOther \/ List!ClearFilters
    PROVE  \E filters \in Links : List!Tap(filters)
<1> DEFINE f == List!Parse(listShown)
<1>1. f \in Links /\ f.min \in 0..MaxGrade /\ f.max \in 0..MaxGrade
  BY ParseIs DEF ListInv, ListTyped, Links
<1> HIDE DEF f
<1>2. ASSUME NEW h \in WallHolds, List!ToggleHold(h) PROVE \E filters \in Links : List!Tap(filters)
  <2> DEFINE a == [f EXCEPT !.holds = IF h \in @ THEN @ \ {h} ELSE @ \cup {h}]
  <2>1. a \in Links
    BY <1>1 DEF Links
  <2>2. List!Tap(a)
    BY <1>2 DEF List!ToggleHold, f
  <2> QED
    BY <2>1, <2>2
<1>3. ASSUME NEW c \in WallCircuits \cup {None}, List!UpdateCircuit(c) PROVE \E filters \in Links : List!Tap(filters)
  <2> DEFINE a == [f EXCEPT !.circuit = c]
  <2>1. a \in Links
    BY <1>1 DEF Links
  <2>2. List!Tap(a)
    BY <1>3 DEF List!UpdateCircuit, f
  <2> QED
    BY <2>1, <2>2
<1>4. ASSUME NEW g \in List!Grades, List!SelectGrade(g) PROVE \E filters \in Links : List!Tap(filters)
  <2> DEFINE ends == {f.min, f.max} \ {0}
             range == IF List!Cardinality(ends) = 1 THEN ends \cup {g} ELSE {g}
             a == [f EXCEPT !.min = List!Min(range), !.max = List!Max(range)]
  <2>1. List!Tap(a)
    BY <1>4 DEF List!SelectGrade, f
  <2>2. g \in 0..MaxGrade
    BY ListBounds DEF List!Grades
  <2>3. /\ IsFiniteSet(ends) /\ ends \subseteq 0..MaxGrade
        /\ Cardinality(ends) = 1 => \E e \in 0..MaxGrade : ends = {e}
    <3>1. IsFiniteSet({f.min}) /\ {f.min, f.max} = {f.min} \cup {f.max}
      BY FS_Singleton
    <3>2. IsFiniteSet({f.min, f.max})
      BY <3>1, FS_AddElement
    <3>3. IsFiniteSet(ends) /\ ends \subseteq 0..MaxGrade
      BY <1>1, <3>2, FS_RemoveElement
    <3>4. Cardinality(ends) = 1 => \E e : ends = {e}
      BY <3>3, FS_Singleton
    <3> QED
      BY <3>3, <3>4
  <2>4. \E e \in 0..MaxGrade : range = {e, g}
    BY <2>2, <2>3 DEF List!Cardinality, Cardinality
  <2> HIDE DEF range
  <2>5. List!Min(range) \in 0..MaxGrade /\ List!Max(range) \in 0..MaxGrade
    <3>1. PICK e \in 0..MaxGrade : range = {e, g}
      BY <2>4
    <3>2. /\ \E x \in range : \A y \in range : x <= y
          /\ \E x \in range : \A y \in range : x >= y
      BY <2>2, <3>1, ListBounds
    <3>3. List!Min(range) \in range /\ List!Max(range) \in range
      BY <3>2 DEF List!Min, List!Max
    <3> QED
      BY <2>2, <3>1, <3>3
  <2>6. a \in Links
    BY <1>1, <2>5 DEF Links
  <2> QED
    BY <2>1, <2>6
<1>5. ASSUME List!ClearHolds PROVE \E filters \in Links : List!Tap(filters)
  <2>1. [f EXCEPT !.holds = {}] \in Links
    BY <1>1 DEF Links
  <2> QED
    BY <1>5, <2>1 DEF List!ClearHolds, f
<1>6. ASSUME List!AnyGrade PROVE \E filters \in Links : List!Tap(filters)
  <2>1. 0 \in 0..MaxGrade
    BY ListBounds
  <2>2. [f EXCEPT !.min = 0, !.max = 0] \in Links
    BY <1>1, <2>1 DEF Links
  <2> QED
    BY <1>6, <2>2 DEF List!AnyGrade, f
<1>7. ASSUME List!ToggleOther PROVE \E filters \in Links : List!Tap(filters)
  <2>1. [f EXCEPT !.other = ~@] \in Links
    BY <1>1 DEF Links
  <2> QED
    BY <1>7, <2>1 DEF List!ToggleOther, f
<1>8. List!ClearFilters => \E filters \in Links : List!Tap(filters)
  BY PlainIsLink DEF List!ClearFilters
<1> QED
  BY <1>2, <1>3, <1>4, <1>5, <1>6, <1>7, <1>8

\* The links by which the list is visited.
LEMMA LinksAreLinks == WallLinks \subseteq Links
BY LinksAreAddresses DEF List!Addresses, Links

LEMMA ListNext == ListInv /\ List!Next => ListInv'
<1> SUFFICES ASSUME ListInv, List!Next PROVE ListInv'
  OBVIOUS
<1>1. CASE List!Render
  BY <1>1, ListRenders
<1>2. ASSUME \/ \E h \in WallHolds : List!ToggleHold(h)
             \/ \E c \in WallCircuits \cup {None} : List!UpdateCircuit(c)
             \/ \E g \in List!Grades : List!SelectGrade(g)
             \/ List!ClearHolds \/ List!AnyGrade \/ List!ToggleOther \/ List!ClearFilters
      PROVE  ListInv'
  BY <1>2, TapsAreLinks, ListTapped
<1>3. ASSUME NEW a \in WallLinks, List!Visit(a) PROVE ListInv'
  BY <1>3, LinksAreLinks DEF List!Visit, ListInv, ListTyped
<1>4. CASE List!Leave
  BY <1>4 DEF List!Leave, ListInv, ListTyped
<1>5. ASSUME NEW H \in SUBSET WallHolds, List!HoldsArrive(H) PROVE ListInv'
  BY <1>5 DEF List!HoldsArrive, ListInv, ListTyped, List!Parse
<1>6. ASSUME NEW C \in SUBSET WallCircuits, List!CircuitsArrive(C) PROVE ListInv'
  BY <1>6 DEF List!CircuitsArrive, ListInv, ListTyped, List!Parse
<1> QED
  BY <1>1, <1>2, <1>3, <1>4, <1>5, <1>6 DEF List!Next

LEMMA ListIdle == ListInv /\ UNCHANGED listVars => ListInv'
BY DEF ListInv, ListTyped, Canonical, List!Parse, listVars

LEMMA ListInit == List!Init => ListInv
BY PlainIsLink DEF List!Init, ListInv, ListTyped

LEMMA ListSettles == ListInv => List!SettledIsCanonical /\ List!RangeIsInOrder
<1> SUFFICES ASSUME ListInv, List!AtRest PROVE List!SettledIsCanonical /\ List!RangeIsInOrder
  BY DEF List!SettledIsCanonical, List!RangeIsInOrder
<1>1. Canonical(listAddress) /\ stored = listAddress
  BY DEF ListInv, List!AtRest, Canonical
<1>2. listAddress.min # 0 /\ listAddress.max # 0 => listAddress.min <= listAddress.max
  <2> DEFINE min == listAddress.min
             max == listAddress.max
  <2>1. listAddress \in Links /\ min \in Nat /\ max \in Nat
    BY DEF ListInv, ListTyped, Links
  <2>2. max = IF min # 0 /\ min > max THEN 0 ELSE max
    BY <1>1, <2>1, ParseIs DEF Canonical
  <2> HIDE DEF min, max
  <2>3. min # 0 /\ max # 0 => min <= max
    BY <2>1, <2>2
  <2> QED
    BY <2>3 DEF min, max
<1> QED
  BY <1>1, <1>2 DEF Canonical, List!SettledIsCanonical, List!RangeIsInOrder

\* Only the page that is followed takes steps.
LEMMA PageSteps ==
    ASSUME [PagesNext]_pages
    PROVE  /\ UNCHANGED screen
           /\ UNCHANGED vars \/ Next
           /\ UNCHANGED cacheVars \/ (screen = "cache" /\ Cache!Next)
           /\ UNCHANGED listVars \/ (screen = "list" /\ List!Next)
           /\ UNCHANGED logsVars \/ (screen = "logs" /\ Logs!Next)
           /\ UNCHANGED circuitsVars \/ (screen = "circuits" /\ Circuits!Next)
           /\ UNCHANGED feedVars \/ (screen = "feed" /\ Feed!Next)
<1>1. CASE UNCHANGED pages
  BY <1>1 DEF pages
<1>2. CASE PagesNext
  <2>1. CASE Editing
    BY <1>2, <2>1 DEF PagesNext, Editing
  <2>2. CASE Listing
    BY <1>2, <2>2 DEF PagesNext, Listing
  <2>3. CASE Logging
    BY <1>2, <2>3 DEF PagesNext, Logging
  <2>4. CASE Ordering
    BY <1>2, <2>4 DEF PagesNext, Ordering
  <2>5. CASE Caching
    BY <1>2, <2>5 DEF PagesNext, Caching
  <2>6. CASE Reading
    BY <1>2, <2>6 DEF PagesNext, Reading
  <2>7. CASE Shooting \/ Reviewing \/ Picturing \/ Storing \/ Counting
    BY <1>2, <2>7 DEF PagesNext, Shooting, Reviewing, Picturing, Storing, Counting
  <2> QED
    BY <1>2, <2>1, <2>2, <2>3, <2>4, <2>5, <2>6, <2>7 DEF PagesNext
<1> QED
  BY <1>1, <1>2

\* Among the pages too, a climb is saved as it was drawn.
COROLLARY ClimbsAreSavedOnThePages == PagesSpec => []ClimbsAreAsDrawn
<1>1. PagesInit => Init
  BY DEF PagesInit
<1>2. [PagesNext]_pages => [Next]_vars
  BY PageSteps
<1> QED
  BY <1>1, <1>2, ClimbsAreSavedAsDrawn, PTL DEF PagesSpec, Spec

\* Once the effects of the list have come to rest, its address is canonical, names no
\* circuit or hold that is gone, has a grade range in order, and is what the next visit
\* restores: no effect undoes another's correction, whatever is tapped, visited or loaded in
\* between (RouteList.tsx, parseRouteFilters, selectGrade).
THEOREM ListSettled == PagesSpec => []ListIsAsAsked
<1>1. PagesInit => ListInv
  BY ListInit DEF PagesInit
<1>2. ListInv /\ [PagesNext]_pages => ListInv'
  BY PageSteps, ListNext, ListIdle
<1>3. ListInv => ListIsAsAsked
  BY ListSettles DEF ListIsAsAsked
<1> QED
  BY <1>1, <1>2, <1>3, PTL DEF PagesSpec

\* A visit by a plain link does not forget the filters that it restores.
THEOREM VisitsKeepStored == PagesSpec => VisitKeepsStored
<1>1. ASSUME List!Render, ~restored, ~List!HasParams(listAddress) PROVE UNCHANGED stored
  <2>1. stored' = IF List!Restore # <<>> THEN stored ELSE List!Parse(listAddress)
    BY <1>1 DEF List!Render, List!SaveState
  <2>2. CASE List!HasParams(stored)
    BY <1>1, <2>1, <2>2 DEF List!Restore
  <2>3. CASE ~List!HasParams(stored)
    BY <1>1, <2>1, <2>3, PlainIsLink DEF List!HasParams
  <2> QED
    BY <2>2, <2>3
<1>2. ASSUME List!Next, ~restored, ~List!HasParams(listAddress) PROVE UNCHANGED stored
  <2>1. CASE List!Render
    BY <1>1, <1>2, <2>1
  <2>2. CASE \/ \E h \in WallHolds : List!ToggleHold(h)
             \/ \E c \in WallCircuits \cup {None} : List!UpdateCircuit(c)
             \/ \E g \in List!Grades : List!SelectGrade(g)
             \/ List!ClearHolds \/ List!AnyGrade \/ List!ToggleOther \/ List!ClearFilters
    BY <1>2, <2>2 DEF List!ToggleHold, List!UpdateCircuit, List!SelectGrade, List!ClearHolds, List!AnyGrade,
       List!ToggleOther, List!ClearFilters, List!Tap
  <2>3. CASE \/ \E a \in WallLinks : List!Visit(a)
             \/ List!Leave
             \/ \E H \in SUBSET WallHolds : List!HoldsArrive(H)
             \/ \E C \in SUBSET WallCircuits : List!CircuitsArrive(C)
    BY <2>3 DEF List!Visit, List!Leave, List!HoldsArrive, List!CircuitsArrive
  <2> QED
    BY <1>2, <2>1, <2>2, <2>3 DEF List!Next
<1>3. [PagesNext]_pages => [~restored /\ ~List!HasParams(listAddress) => stored' = stored]_(List!vars)
  <2>1. List!vars = listVars
    BY DEF List!vars, listVars
  <2>2. [PagesNext]_pages => UNCHANGED listVars \/ List!Next
    BY PageSteps
  <2> QED
    BY <1>2, <2>1, <2>2 DEF listVars, List!vars
<1> QED
  BY <1>3, PTL DEF PagesSpec, VisitKeepsStored, List!VisitKeepsStored

-----------------------------------------------------------------------------
(* The log drawer.                                                         *)

RequestFields == {"id", "by", "op", "entry", "outcome", "date", "many", "step"}

\* Requests are numbered.
Numbered ==
    /\ logsMade \in Nat
    /\ \A c \in requests :
        DOMAIN c = RequestFields /\ c.id \in 1..logsMade /\ c.op \in {"create", "update", "delete"}
    /\ \A c, d \in requests : c.id = d.id => c = d

\* The one inside its transaction has the climber's row.
LockIsHeld == \A c \in requests : c.step \in {"locked", "written"} => lock = c.id

\* A write that has passed its check can still be committed.
WritesStayValid ==
    \A c \in requests : c.step = "written" /\ c.op # "delete" => Logs!ValidFlash(Logs!After(c))

LogsInv == Numbered /\ LockIsHeld /\ WritesStayValid /\ Logs!FlashIsFirst

\* Two records that ask for the same.
SameRequest(d, c) ==
    /\ d.op = c.op /\ d.id = c.id /\ d.entry = c.entry /\ d.outcome = c.outcome
    /\ d.date = c.date /\ d.many = c.many

\* What a request leaves in the history depends on what it asks for only.
LEMMA AfterIs ==
    ASSUME NEW c, NEW d, SameRequest(d, c)
    PROVE  Logs!After(d) = Logs!After(c)
BY DEF Logs!After, Logs!Entry, SameRequest

\* Request c has become d, which is a step further on.
BecomesAt(c, d, step) ==
    /\ SameRequest(d, c) /\ d.step = step
    /\ requests' = (requests \ {c}) \cup {d}

LEMMA LogStep ==
    ASSUME Numbered, NEW c \in requests, NEW step, Logs!Step(c, step), UNCHANGED logsMade
    PROVE  Numbered' /\ \E d : BecomesAt(c, d, step)
<1> DEFINE d == [c EXCEPT !.step = step]
<1>1. DOMAIN d = RequestFields /\ SameRequest(d, c) /\ d.step = step
  BY DEF Numbered, RequestFields, SameRequest
<1>2. requests' = (requests \ {c}) \cup {d}
  BY DEF Logs!Step
<1> HIDE DEF d
<1>3. Numbered'
  BY <1>1, <1>2 DEF Numbered, SameRequest
<1> QED
  BY <1>1, <1>2, <1>3 DEF BecomesAt

LEMMA LogEnd ==
    ASSUME Numbered, NEW c \in requests, NEW step, Logs!End(c, step), UNCHANGED logsMade
    PROVE  Numbered' /\ (requests' = requests \ {c} \/ \E d : BecomesAt(c, d, step))
<1>1. CASE Logs!Step(c, step)
  BY <1>1, LogStep
<1>2. CASE requests' = requests \ {c}
  BY <1>2 DEF Numbered
<1> QED
  BY <1>1, <1>2 DEF Logs!End

LEMMA LogLocks ==
    ASSUME LogsInv, NEW c \in requests, Logs!LockUser(c), UNCHANGED logsMade
    PROVE  LogsInv'
<1>1. lock = None /\ lock' = c.id /\ UNCHANGED rows
  BY DEF Logs!LockUser
<1>2. PICK d : BecomesAt(c, d, "locked")
  BY LogStep DEF Logs!LockUser, LogsInv
<1>3. Numbered'
  BY LogStep DEF Logs!LockUser, LogsInv
<1>4. \A e \in requests : e.step \notin {"locked", "written"}
  BY <1>1, NoneIsNoNumber DEF LogsInv, Numbered, LockIsHeld
<1>5. LockIsHeld'
  BY <1>1, <1>2, <1>4 DEF LockIsHeld, BecomesAt, SameRequest
<1>6. WritesStayValid'
  BY <1>2, <1>4 DEF WritesStayValid, BecomesAt
<1>7. Logs!FlashIsFirst'
  BY <1>1 DEF LogsInv, Logs!FlashIsFirst, Logs!ValidFlash
<1> QED
  BY <1>3, <1>5, <1>6, <1>7 DEF LogsInv

LEMMA LogWrites ==
    ASSUME LogsInv, NEW c \in requests, Logs!Write(c), UNCHANGED logsMade
    PROVE  LogsInv'
<1>1. /\ c.step = "locked" /\ UNCHANGED <<rows, lock>>
      /\ c.op # "delete" => Logs!ValidFlash(Logs!After(c))
  BY DEF Logs!Write, Logs!Acceptable, Logs!serverVars
<1>2. PICK d : BecomesAt(c, d, "written")
  BY LogStep DEF Logs!Write, LogsInv
<1>3. Numbered'
  BY LogStep DEF Logs!Write, LogsInv
<1>4. LockIsHeld'
  BY <1>1, <1>2 DEF LogsInv, LockIsHeld, BecomesAt, SameRequest
<1>5. \A e : Logs!After(e)' = Logs!After(e)
  BY <1>1 DEF Logs!After, Logs!Entry
<1>6. Logs!After(d) = Logs!After(c)
  BY <1>2, AfterIs DEF BecomesAt
<1>7. WritesStayValid'
  <2> SUFFICES ASSUME NEW e \in requests', e.step = "written", e.op # "delete"
               PROVE  Logs!ValidFlash(Logs!After(e)')
    BY DEF WritesStayValid, Logs!ValidFlash, Logs!Before
  <2>1. CASE e = d
    BY <1>1, <1>2, <1>5, <1>6, <2>1 DEF BecomesAt, SameRequest
  <2>2. CASE e # d
    BY <1>2, <1>5, <2>2 DEF LogsInv, WritesStayValid, BecomesAt
  <2> QED
    BY <2>1, <2>2
<1>8. Logs!FlashIsFirst'
  BY <1>1 DEF LogsInv, Logs!FlashIsFirst, Logs!ValidFlash
<1> QED
  BY <1>3, <1>4, <1>7, <1>8 DEF LogsInv

\* The one that commits is the only one inside its transaction.
LEMMA LogCommits ==
    ASSUME LogsInv, NEW c \in requests, Logs!Commit(c), UNCHANGED logsMade
    PROVE  LogsInv'
<1>1. c.step = "written" /\ rows' = Logs!After(c) /\ Logs!End(c, "done")
  BY DEF Logs!Commit
<1>2. Numbered' /\ (requests' = requests \ {c} \/ \E d : BecomesAt(c, d, "done"))
  BY <1>1, LogEnd DEF LogsInv
<1>3. \A e \in requests \ {c} : e.step \notin {"locked", "written"}
  BY <1>1 DEF LogsInv, LockIsHeld, Numbered
<1>4. \A e \in requests' : e.step \notin {"locked", "written"}
  BY <1>2, <1>3 DEF BecomesAt
<1>5. LockIsHeld' /\ WritesStayValid'
  BY <1>4 DEF LockIsHeld, WritesStayValid
<1>6. Logs!FlashIsFirst'
  <2>1. Logs!FlashIsFirst' <=> Logs!ValidFlash(rows')
    BY DEF Logs!FlashIsFirst, Logs!ValidFlash, Logs!Before
  <2>2. CASE c.op = "delete"
    <3>1. rows' \subseteq rows
      BY <1>1, <2>2 DEF Logs!After
    <3>2. Logs!ValidFlash(rows')
      BY <3>1 DEF LogsInv, Logs!FlashIsFirst, Logs!ValidFlash
    <3> QED
      BY <2>1, <3>2
  <2>3. CASE c.op # "delete"
    BY <1>1, <2>1, <2>3 DEF LogsInv, WritesStayValid
  <2> QED
    BY <2>2, <2>3
<1> QED
  BY <1>2, <1>5, <1>6 DEF LogsInv

\* Requests that are made, followed no more or given up change no row and no lock.
LEMMA LogRequests ==
    ASSUME LogsInv, UNCHANGED <<rows, lock>>, Numbered',
           \A e \in requests' : e.step \in {"locked", "written"} =>
               \E c \in requests : SameRequest(e, c) /\ e.step = c.step
    PROVE  LogsInv'
<1>1. LockIsHeld'
  BY DEF LogsInv, LockIsHeld, SameRequest
<1>2. \A e : Logs!After(e)' = Logs!After(e)
  BY DEF Logs!After, Logs!Entry
<1>3. WritesStayValid'
  <2> SUFFICES ASSUME NEW e \in requests', e.step = "written", e.op # "delete"
               PROVE  Logs!ValidFlash(Logs!After(e)')
    BY DEF WritesStayValid, Logs!ValidFlash, Logs!Before
  <2>1. PICK c \in requests : SameRequest(e, c) /\ e.step = c.step
    OBVIOUS
  <2>2. Logs!After(e) = Logs!After(c)
    BY <2>1, AfterIs
  <2> QED
    BY <1>2, <2>1, <2>2 DEF LogsInv, WritesStayValid, SameRequest
<1>4. Logs!FlashIsFirst'
  BY DEF LogsInv, Logs!FlashIsFirst, Logs!ValidFlash
<1> QED
  BY <1>1, <1>3, <1>4 DEF LogsInv

LEMMA LogRollsBack ==
    ASSUME LogsInv, NEW c \in requests, Logs!RollBack(c), UNCHANGED logsMade
    PROVE  LogsInv'
<1>1. Logs!End(c, "refused") /\ rows' = rows /\ lock' = IF lock = c.id THEN None ELSE lock
  BY DEF Logs!RollBack
<1>2. Numbered' /\ (requests' = requests \ {c} \/ \E d : BecomesAt(c, d, "refused"))
  BY <1>1, LogEnd DEF LogsInv
<1>3. \A e \in requests' : e.step \in {"locked", "written"} => e \in requests /\ e # c
  BY <1>2 DEF BecomesAt
<1>4. LockIsHeld'
  BY <1>1, <1>3 DEF LogsInv, LockIsHeld, Numbered
<1>5. \A e : Logs!After(e)' = Logs!After(e)
  BY <1>1 DEF Logs!After, Logs!Entry
<1>6. WritesStayValid'
  BY <1>3, <1>5 DEF LogsInv, WritesStayValid, Logs!ValidFlash, Logs!Before
<1>7. Logs!FlashIsFirst'
  BY <1>1 DEF LogsInv, Logs!FlashIsFirst, Logs!ValidFlash
<1> QED
  BY <1>2, <1>4, <1>6, <1>7 DEF LogsInv

LEMMA LogRequested ==
    ASSUME LogsInv, NEW by, NEW op \in {"create", "update", "delete"}, NEW entry, NEW outcome, NEW date, NEW many,
           Logs!Request(by, op, entry, outcome, date, many), UNCHANGED <<rows, lock>>
    PROVE  LogsInv'
<1> DEFINE new == [id |-> logsMade', by |-> by, op |-> op, entry |-> entry, outcome |-> outcome, date |-> date,
                   many |-> many, step |-> IF op = "create" /\ reset THEN "refused" ELSE "begun"]
<1>1. logsMade' = logsMade + 1 /\ requests' = requests \cup {new}
  BY DEF Logs!Request
<1>2. DOMAIN new = RequestFields /\ new.id = logsMade' /\ new.op = op /\ new.step \notin {"locked", "written"}
  BY DEF RequestFields
<1> HIDE DEF new
<1>3. \A e \in requests : e.id \in 1..logsMade /\ e.id \in 1..logsMade' /\ e.id # logsMade'
  BY <1>1 DEF LogsInv, Numbered
<1>4. logsMade' \in Nat /\ logsMade' \in 1..logsMade'
  BY <1>1 DEF LogsInv, Numbered
<1>5. Numbered'
  BY <1>1, <1>2, <1>3, <1>4 DEF LogsInv, Numbered
<1>6. \A e \in requests' : e.step \in {"locked", "written"} => \E c \in requests : SameRequest(e, c) /\ e.step = c.step
  BY <1>1, <1>2 DEF SameRequest
<1> QED
  BY <1>5, <1>6, LogRequests

LEMMA LogIdle == LogsInv /\ UNCHANGED <<rows, lock, requests, logsMade>> => LogsInv'
<1> SUFFICES ASSUME LogsInv, UNCHANGED <<rows, lock, requests, logsMade>> PROVE LogsInv'
  OBVIOUS
<1>1. Numbered'
  BY DEF LogsInv, Numbered
<1> QED
  BY <1>1, LogRequests DEF SameRequest

LEMMA LogFails == LogsInv /\ Logs!Fail => LogsInv'
<1> SUFFICES ASSUME LogsInv, Logs!Fail PROVE LogsInv'
  OBVIOUS
<1>1. PICK c \in requests :
        requests' = (requests \ {c}) \cup
                    (IF c.step \in {"done", "refused"} THEN {} ELSE {[c EXCEPT !.by = "other"]})
  BY DEF Logs!Fail
<1> DEFINE d == [c EXCEPT !.by = "other"]
<1>2. UNCHANGED <<rows, lock, logsMade>>
  BY DEF Logs!Fail, Logs!serverVars
<1>3. DOMAIN d = RequestFields /\ SameRequest(d, c) /\ d.step = c.step
  BY DEF LogsInv, Numbered, RequestFields, SameRequest
<1>4. requests' = requests \ {c} \/ requests' = (requests \ {c}) \cup {d}
  BY <1>1
<1> HIDE DEF d
<1>5. Numbered'
  BY <1>2, <1>3, <1>4 DEF LogsInv, Numbered, SameRequest
<1>6. \A e \in requests' : \E b \in requests : SameRequest(e, b) /\ e.step = b.step
  BY <1>3, <1>4 DEF SameRequest
<1> QED
  BY <1>2, <1>5, <1>6, LogRequests

LEMMA LogsNext == LogsInv /\ Logs!Next => LogsInv'
<1> SUFFICES ASSUME LogsInv, Logs!Next PROVE LogsInv'
  OBVIOUS
<1>1. CASE Logs!Serve
  BY <1>1, LogLocks, LogWrites, LogCommits, LogRollsBack DEF Logs!Serve
<1>2. CASE Logs!Elsewhere
  BY <1>2, LogRequested DEF Logs!Elsewhere, Logs!serverVars
<1>3. CASE Logs!SubmitLog
  BY <1>3, LogRequested DEF Logs!SubmitLog, Logs!serverVars
<1>4. CASE Logs!RemoveLog
  BY <1>4, LogRequested DEF Logs!RemoveLog, Logs!serverVars
<1>5. CASE Logs!Succeed
  <2>1. PICK c \in requests : requests' = requests \ {c}
    BY <1>5 DEF Logs!Succeed
  <2>2. UNCHANGED <<rows, lock, logsMade>>
    BY <1>5 DEF Logs!Succeed, Logs!serverVars
  <2>3. Numbered'
    BY <2>1, <2>2 DEF LogsInv, Numbered
  <2> QED
    BY <2>1, <2>2, <2>3, LogRequests DEF SameRequest
<1>6. CASE Logs!Fail
  BY <1>6, LogFails
<1>7. CASE Logs!RequestClose \/ Logs!FinishClose \/ Logs!Close \/ Logs!LogClimb \/ Logs!Edit \/ Logs!Choose
           \/ Logs!Cancel \/ Logs!Refetch
  BY <1>7, LogIdle
  DEF Logs!RequestClose, Logs!FinishClose, Logs!Close, Logs!LogClimb, Logs!Edit, Logs!Choose, Logs!Cancel,
      Logs!Refetch, Logs!serverVars
<1> QED
  BY <1>1, <1>2, <1>3, <1>4, <1>5, <1>6, <1>7 DEF Logs!Next

LEMMA LogsInit == Logs!Init => LogsInv /\ Logs!NewEntryNeverOverwrites
<1> SUFFICES ASSUME Logs!Init PROVE LogsInv /\ Logs!NewEntryNeverOverwrites
  OBVIOUS
<1>1. \A e \in rows : e.outcome = "send"
  BY DEF Logs!Init
<1>2. Logs!FlashIsFirst
  BY <1>1 DEF Logs!FlashIsFirst, Logs!ValidFlash
<1> QED
  BY <1>2 DEF Logs!Init, LogsInv, Numbered, LockIsHeld, WritesStayValid, Logs!NewEntryNeverOverwrites

\* One form at a time.
LEMMA OneForm == Logs!NewEntryNeverOverwrites /\ Logs!Next => Logs!NewEntryNeverOverwrites'
<1> SUFFICES ASSUME Logs!NewEntryNeverOverwrites, Logs!Next PROVE adding' => logEdited' = None
  BY DEF Logs!NewEntryNeverOverwrites
<1>1. CASE Logs!LogClimb
  BY <1>1 DEF Logs!LogClimb
<1>2. CASE Logs!Edit
  BY <1>2 DEF Logs!Edit
<1>3. CASE Logs!Cancel
  BY <1>3 DEF Logs!Cancel, Logs!NewEntryNeverOverwrites
<1>4. CASE Logs!Succeed
  BY <1>4 DEF Logs!Succeed, Logs!NewEntryNeverOverwrites
<1>5. CASE Logs!Serve \/ Logs!Elsewhere \/ Logs!RequestClose \/ Logs!FinishClose \/ Logs!Close \/ Logs!Choose
           \/ Logs!SubmitLog \/ Logs!RemoveLog \/ Logs!Fail \/ Logs!Refetch
  BY <1>5
  DEF Logs!Serve, Logs!Elsewhere, Logs!RequestClose, Logs!FinishClose, Logs!Close, Logs!Choose, Logs!SubmitLog,
      Logs!RemoveLog, Logs!Fail, Logs!Refetch, Logs!formVars, Logs!NewEntryNeverOverwrites
<1> QED
  BY <1>1, <1>2, <1>3, <1>4, <1>5 DEF Logs!Next

\* However a climber's devices race, a flash is the first entry of a climb's history: each
\* write is checked under the lock that orders them, and an entry that goes does no harm.
\* And what is entered as a new climb never overwrites the entry edited before it
\* (logs.go, RouteDetail.tsx).
THEOREM LogsStaySound == PagesSpec => []LogsAreSound
<1> DEFINE J == LogsInv /\ Logs!NewEntryNeverOverwrites
<1>1. PagesInit => J
  BY LogsInit DEF PagesInit
<1>2. J /\ [PagesNext]_pages => J'
  <2> SUFFICES ASSUME J, [PagesNext]_pages PROVE J'
    OBVIOUS
  <2>1. CASE Logs!Next
    BY <2>1, LogsNext, OneForm
  <2>2. CASE UNCHANGED logsVars
    BY <2>2, LogIdle DEF logsVars, Logs!NewEntryNeverOverwrites
  <2> QED
    BY <2>1, <2>2, PageSteps
<1>3. J => LogsAreSound
  BY DEF LogsAreSound, LogsInv
<1> QED
  BY <1>1, <1>2, <1>3, PTL DEF PagesSpec

-----------------------------------------------------------------------------
(* The circuits of the wall.                                               *)

\* The lists that have no route twice.
Whole == {s \in Seq(WallRoutes) : Circuits!IsInjective(s)}

Versions == [routes : Whole, version : Nat]

\* Writes under way.
CircuitSaves ==
    [id : Nat, op : {"routes", "style", "include", "exclude"}, routes : Whole,
     step : {"sent", "done", "settling", "settled"}, version : Nat, mounted : BOOLEAN]

ListsAreWhole ==
    /\ circuit \in Versions /\ circuitShown \in Versions
    /\ fetch \notin {None, Circuits!Asked} => fetch.answer \in Versions
    /\ pending # None => pending \in Whole
    /\ circuitCalls \subseteq CircuitSaves
    /\ circuitMade \in Nat /\ circuitFailures \in Nat /\ own \in Nat

\* What has succeeded is on the server; unless a fetch has failed or an answer was lost, it is
\* also in the answer to a fetch under way, or is shown when there is none: whatever succeeds
\* while a fetch is under way starts another.
OwnIsFetched ==
    /\ own <= circuit.version
    /\ \A c \in circuitCalls : c.version <= circuit.version
    /\ circuitFailures = 0 =>
        /\ fetch = None => own <= circuitShown.version
        /\ fetch \notin {None, Circuits!Asked} => own <= fetch.answer.version

CircuitsInv == ListsAreWhole /\ OwnIsFetched

\* Asking is not having asked nothing.
LEMMA AskedIsNotNone == Circuits!Asked # None
BY NoneIsNoAnswer DEF Circuits!Asked

\* Nor is an answer.
LEMMA AnswerIsNotNone == ASSUME NEW a \in Versions PROVE [answer |-> a] # None
<1>1. a \in [routes : Seq(WallRoutes), version : Nat]
  BY DEF Versions, Whole
<1> QED
  BY <1>1, NoneIsNoAnswer

LEMMA WholeIs ==
    ASSUME NEW s
    PROVE  s \in Whole <=> s \in Seq(WallRoutes) /\ \A i, j \in 1..Len(s) : s[i] = s[j] => i = j
BY DEF Whole, Circuits!IsInjective

\* The lists that are saved, one by one.
LEMMA ShortIsWhole == <<>> \in Whole /\ <<HereRoute>> \in Whole
<1> DEFINE s == <<HereRoute>>
<1>1. s \in Seq(WallRoutes) /\ Len(s) = 1
  BY WallRoutesAreFinite
<1> HIDE DEF s
<1>2. s \in Whole
  BY <1>1, WholeIs
<1>3. <<>> \in Whole
  <2>1. <<>> \in Seq(WallRoutes) /\ DOMAIN <<>> = {}
    OBVIOUS
  <2> QED
    BY <2>1 DEF Whole, Circuits!IsInjective
<1> QED
  BY <1>2, <1>3 DEF s

LEMMA MovedIsWhole ==
    ASSUME NEW s \in Whole, NEW i \in DOMAIN s, NEW j \in DOMAIN s
    PROVE  [s EXCEPT ![i] = s[j], ![j] = s[i]] \in Whole
<1> DEFINE t == [s EXCEPT ![i] = s[j], ![j] = s[i]]
<1>1. s \in Seq(WallRoutes) /\ i \in 1..Len(s) /\ j \in 1..Len(s)
  BY DEF Whole
<1>2. t \in Seq(WallRoutes) /\ Len(t) = Len(s)
  BY <1>1
<1>3. \A k \in 1..Len(s) : t[k] = IF k = j THEN s[i] ELSE IF k = i THEN s[j] ELSE s[k]
  BY <1>1
<1> HIDE DEF t
<1>4. \A k, l \in 1..Len(t) : t[k] = t[l] => k = l
  BY <1>1, <1>2, <1>3, WholeIs
<1> QED
  BY <1>2, <1>4, WholeIs DEF t

LEMMA AppendedIsWhole ==
    ASSUME NEW s \in Whole, NEW r \in WallRoutes, \A i \in 1..Len(s) : s[i] # r
    PROVE  Append(s, r) \in Whole
<1>1. s \in Seq(WallRoutes)
  BY DEF Whole
<1>2. /\ Append(s, r) \in Seq(WallRoutes) /\ Len(Append(s, r)) = Len(s) + 1
      /\ \A k \in 1..Len(s) : Append(s, r)[k] = s[k]
      /\ Append(s, r)[Len(s) + 1] = r
  BY <1>1
<1>3. \A i, j \in 1..Len(s) : s[i] = s[j] => i = j
  BY WholeIs
<1> DEFINE t == Append(s, r)
<1> HIDE DEF t
<1>4. \A i, j \in 1..Len(t) : t[i] = t[j] => i = j
  BY <1>1, <1>2, <1>3 DEF t
<1> QED
  BY <1>2, <1>4, WholeIs DEF t

LEMMA ReversedIsWhole ==
    ASSUME NEW s \in Whole
    PROVE  Circuits!Reverse(s) \in Whole
<1> DEFINE t == Circuits!Reverse(s)
<1>1. s \in Seq(WallRoutes) /\ \A i, j \in 1..Len(s) : s[i] = s[j] => i = j
  BY WholeIs
<1>2. t \in Seq(WallRoutes) /\ Len(t) = Len(s) /\ \A k \in 1..Len(s) : t[k] = s[(Len(s) - k) + 1]
  BY <1>1 DEF Circuits!Reverse
<1> HIDE DEF t
<1>3. ASSUME NEW i \in 1..Len(t), NEW j \in 1..Len(t), t[i] = t[j] PROVE i = j
  <2>1. (Len(s) - i) + 1 \in 1..Len(s) /\ (Len(s) - j) + 1 \in 1..Len(s)
    BY <1>1, <1>2
  <2>2. (Len(s) - i) + 1 = (Len(s) - j) + 1
    BY <1>1, <1>2, <1>3, <2>1
  <2> QED
    BY <1>1, <1>2, <2>2
<1> QED
  BY <1>2, <1>3, WholeIs DEF t

LEMMA RemovedIsWhole ==
    ASSUME NEW s \in Whole, NEW i \in 1..Len(s)
    PROVE  Circuits!RemoveAt(s, i) \in Whole
<1> DEFINE a == SubSeq(s, 1, i - 1)
           b == SubSeq(s, i + 1, Len(s))
           t == a \o b
<1>1. s \in Seq(WallRoutes) /\ Len(s) \in Nat /\ \A j, k \in 1..Len(s) : s[j] = s[k] => j = k
  BY WholeIs
<1>2. a \in Seq(WallRoutes) /\ Len(a) = i - 1 /\ \A k \in 1..i - 1 : a[k] = s[k]
  BY <1>1
<1>3. b \in Seq(WallRoutes) /\ Len(b) = Len(s) - i /\ \A k \in 1..Len(s) - i : b[k] = s[k + i]
  BY <1>1
<1> HIDE DEF a, b
<1>4. t \in Seq(WallRoutes) /\ Len(t) = Len(s) - 1
  BY <1>1, <1>2, <1>3
<1>5. \A k \in 1..Len(s) - 1 : t[k] = IF k < i THEN s[k] ELSE s[k + 1]
  BY <1>1, <1>2, <1>3
<1> HIDE DEF t
<1>6. ASSUME NEW j \in 1..Len(t), NEW k \in 1..Len(t), t[j] = t[k] PROVE j = k
  <2> DEFINE at(x) == IF x < i THEN x ELSE x + 1
  <2>1. at(j) \in 1..Len(s) /\ at(k) \in 1..Len(s)
    BY <1>1, <1>4
  <2>2. t[j] = s[at(j)] /\ t[k] = s[at(k)]
    BY <1>4, <1>5
  <2>3. at(j) = at(k)
    BY <1>1, <1>6, <2>1, <2>2
  <2> QED
    BY <1>4, <2>3
<1> QED
  BY <1>4, <1>6, WholeIs DEF t, a, b, Circuits!RemoveAt

LEMMA WithoutIsWhole ==
    ASSUME NEW s \in Whole, NEW r
    PROVE  Circuits!Without(s, r) \in Whole
<1>1. CASE Circuits!Contains(s, r)
  <2>1. DOMAIN s = 1..Len(s)
    BY DEF Whole
  <2>2. \E i \in DOMAIN s : s[i] = r
    BY <1>1, <2>1 DEF Circuits!Contains
  <2>3. (CHOOSE i \in DOMAIN s : s[i] = r) \in 1..Len(s)
    BY <2>1, <2>2
  <2> QED
    BY <1>1, <2>3, RemovedIsWhole DEF Circuits!Without
<1>2. CASE ~Circuits!Contains(s, r)
  BY <1>2 DEF Circuits!Without
<1> QED
  BY <1>1, <1>2

\* A wall's circuit begins as some order of its routes, each once.
LEMMA CircuitsInit == Circuits!Init => CircuitsInv
<1> SUFFICES ASSUME Circuits!Init PROVE CircuitsInv
  OBVIOUS
<1> DEFINE S == WallRoutes
           s == Circuits!SetToSeq(S)
           n == Cardinality(S)
<1>1. IsFiniteSet(S)
  BY WallRoutesAreFinite
<1>2. n \in Nat /\ ExistsBijection(1..n, S)
  BY <1>1, FS_CardinalityType
<1>3. \E f \in [1..n -> S] : Circuits!IsInjective(f)
  <2>1. PICK f : f \in Bijection(1..n, S)
    BY <1>2 DEF ExistsBijection
  <2>2. f \in [1..n -> S] /\ \A a, b \in 1..n : f[a] = f[b] => a = b
    BY <2>1 DEF Bijection, Injection, IsInjective
  <2>3. DOMAIN f = 1..n
    BY <2>2
  <2> QED
    BY <2>2, <2>3 DEF Circuits!IsInjective
<1>4. s \in [1..n -> S] /\ Circuits!IsInjective(s)
  BY <1>3 DEF Circuits!SetToSeq, Circuits!Cardinality, Cardinality
<1> HIDE DEF s, n
<1>5. s \in Whole
  BY <1>2, <1>4 DEF Whole
<1>6. circuit = [routes |-> s, version |-> 0] /\ circuitShown = circuit
  BY DEF Circuits!Init, s
<1>7. circuit \in Versions /\ circuitShown \in Versions
  BY <1>5, <1>6 DEF Versions
<1> QED
  BY <1>6, <1>7, AskedIsNotNone DEF Circuits!Init, CircuitsInv, ListsAreWhole, OwnIsFetched

\* A fetch that begins, ends or fails.
LEMMA CircuitsFetched ==
    CircuitsInv /\ (Circuits!Focus \/ Circuits!ServerReads \/ Circuits!Arrives \/ Circuits!FetchFails)
        => CircuitsInv'
<1> SUFFICES ASSUME CircuitsInv,
                    Circuits!Focus \/ Circuits!ServerReads \/ Circuits!Arrives \/ Circuits!FetchFails
             PROVE  CircuitsInv'
  OBVIOUS
<1>1. Circuits!Asked' = Circuits!Asked
  BY DEF Circuits!Asked
<1>2. \A c \in CircuitSaves : [c EXCEPT !.step = "settled"] \in CircuitSaves /\ [c EXCEPT !.step = "settled"].version = c.version
  BY DEF CircuitSaves
<1>3. /\ Circuits!Released \subseteq CircuitSaves
      /\ \A c \in Circuits!Released : c.version <= circuit.version
  BY <1>2 DEF CircuitsInv, ListsAreWhole, OwnIsFetched, Circuits!Released
<1>4. CASE Circuits!Focus
  BY <1>1, <1>4, AskedIsNotNone DEF Circuits!Focus, Circuits!Refresh, Circuits!pageVars, CircuitsInv, ListsAreWhole, OwnIsFetched
<1>5. CASE Circuits!ServerReads
  <2>1. fetch' = [answer |-> circuit] /\ fetch' # None /\ fetch'.answer = circuit
    BY <1>5, AnswerIsNotNone DEF Circuits!ServerReads, CircuitsInv, ListsAreWhole
  <2> QED
    BY <1>1, <1>5, <2>1 DEF Circuits!ServerReads, Circuits!pageVars, CircuitsInv, ListsAreWhole, OwnIsFetched
<1>6. CASE Circuits!Arrives
  BY <1>1, <1>3, <1>6 DEF Circuits!Arrives, Circuits!pageVars, CircuitsInv, ListsAreWhole, OwnIsFetched
<1>7. CASE Circuits!FetchFails
  <2>1. circuitFailures' \in Nat /\ circuitFailures' # 0
    BY <1>7 DEF Circuits!FetchFails, CircuitsInv, ListsAreWhole
  <2> QED
    BY <1>1, <1>3, <1>7, <2>1 DEF Circuits!FetchFails, Circuits!pageVars, CircuitsInv, ListsAreWhole, OwnIsFetched
<1> QED
  BY <1>4, <1>5, <1>6, <1>7

\* A write that is sent has a list that is whole.
LEMMA CircuitsWritten ==
    ASSUME CircuitsInv, NEW op \in {"routes", "style", "include", "exclude"}, NEW routes \in Whole,
           Circuits!Write(op, routes), pending' \in {pending, routes},
           UNCHANGED <<circuit, circuitShown, fetch, circuitFailures, own>>
    PROVE  CircuitsInv'
<1> DEFINE new == [id |-> circuitMade', op |-> op, routes |-> routes, step |-> "sent", version |-> 0, mounted |-> TRUE]
<1>1. circuitMade' = circuitMade + 1 /\ circuitCalls' = circuitCalls \cup {new}
  BY DEF Circuits!Write
<1>2. circuitMade' \in Nat
  BY <1>1 DEF CircuitsInv, ListsAreWhole
<1>3. new \in CircuitSaves /\ new.version = 0
  BY <1>2 DEF CircuitSaves
<1> HIDE DEF new
<1>4. circuit.version \in Nat
  BY DEF CircuitsInv, ListsAreWhole, Versions
<1>5. ListsAreWhole'
  BY <1>1, <1>2, <1>3 DEF CircuitsInv, ListsAreWhole, Circuits!Asked
<1>6. OwnIsFetched'
  BY <1>1, <1>3, <1>4 DEF CircuitsInv, OwnIsFetched, Circuits!Asked
<1> QED
  BY <1>5, <1>6 DEF CircuitsInv

LEMMA CircuitsEdited ==
    CircuitsInv /\ (Circuits!Move \/ Circuits!RemoveRoute \/ Circuits!AddRoute \/ Circuits!SaveCircuit \/ Circuits!Toggle)
        => CircuitsInv'
<1> SUFFICES ASSUME CircuitsInv PROVE Circuits!Move \/ Circuits!RemoveRoute \/ Circuits!AddRoute \/ Circuits!SaveCircuit \/ Circuits!Toggle
                                         => CircuitsInv'
  OBVIOUS
<1>1. Circuits!Draft \in Whole
  BY DEF Circuits!Draft, CircuitsInv, ListsAreWhole, Versions
<1>2. ASSUME NEW next \in Whole, Circuits!PersistRoutes(next) PROVE CircuitsInv'
  BY <1>2, CircuitsWritten DEF Circuits!PersistRoutes
<1>3. ASSUME Circuits!Move PROVE CircuitsInv'
  BY <1>1, <1>2, <1>3, MovedIsWhole DEF Circuits!Move
<1>4. ASSUME Circuits!RemoveRoute PROVE CircuitsInv'
  BY <1>1, <1>2, <1>4, WithoutIsWhole DEF Circuits!RemoveRoute
<1>5. ASSUME Circuits!AddRoute PROVE CircuitsInv'
  <2>1. PICK r \in WallRoutes \ Circuits!Range(Circuits!Draft) : Circuits!PersistRoutes(Append(Circuits!Draft, r))
    BY <1>5 DEF Circuits!AddRoute
  <2>2. \A i \in 1..Len(Circuits!Draft) : Circuits!Draft[i] # r
    BY <1>1 DEF Circuits!Range, Whole
  <2> QED
    BY <1>1, <1>2, <2>1, <2>2, AppendedIsWhole
<1>6. ASSUME Circuits!SaveCircuit PROVE CircuitsInv'
  BY <1>6, CircuitsWritten, ShortIsWhole DEF Circuits!SaveCircuit, Circuits!pageVars
<1>7. ASSUME Circuits!Toggle PROVE CircuitsInv'
  BY <1>7, CircuitsWritten, ShortIsWhole DEF Circuits!Toggle, Circuits!pageVars
<1> QED
  BY <1>3, <1>4, <1>5, <1>6, <1>7

\* What the server makes of a write.
LEMMA WrittenIsWhole ==
    ASSUME NEW op \in {"routes", "style", "include", "exclude"}, NEW routes \in Whole, circuit.routes \in Whole
    PROVE  Circuits!Written(op, routes) \in Whole
<1>1. ~Circuits!Contains(circuit.routes, HereRoute) => Append(circuit.routes, HereRoute) \in Whole
  BY AppendedIsWhole, WallRoutesAreFinite DEF Circuits!Contains
<1> QED
  BY <1>1, WithoutIsWhole DEF Circuits!Written

LEMMA CircuitsServed == CircuitsInv /\ Circuits!Serve => CircuitsInv'
<1> SUFFICES ASSUME CircuitsInv, Circuits!Serve PROVE CircuitsInv'
  OBVIOUS
<1>1. PICK c \in circuitCalls :
        /\ circuit' = [routes |-> Circuits!Written(c.op, c.routes), version |-> circuit.version + 1]
        /\ circuitCalls' = (circuitCalls \ {c}) \cup {[c EXCEPT !.step = "done", !.version = circuit'.version]}
        /\ UNCHANGED <<circuitShown, fetch, circuitMade, others, circuitFailures, Circuits!pageVars, own>>
  BY DEF Circuits!Serve
<1> DEFINE d == [c EXCEPT !.step = "done", !.version = circuit'.version]
<1>2. c \in CircuitSaves /\ circuit.routes \in Whole /\ circuit.version \in Nat
  BY DEF CircuitsInv, ListsAreWhole, Versions
<1>3. circuit' \in Versions /\ circuit'.version = circuit.version + 1
  BY <1>1, <1>2, WrittenIsWhole DEF Versions, CircuitSaves
<1>4. d \in CircuitSaves /\ d.version = circuit'.version
  BY <1>2, <1>3 DEF CircuitSaves, Versions
<1> HIDE DEF d
<1>5. circuitCalls' = (circuitCalls \ {c}) \cup {d}
  BY <1>1 DEF d
<1>6. ListsAreWhole'
  BY <1>1, <1>3, <1>4, <1>5 DEF CircuitsInv, ListsAreWhole, Circuits!Asked, Circuits!pageVars
<1>7. OwnIsFetched'
  <2>1. \A e \in circuitCalls : e.version \in Nat
    BY DEF CircuitsInv, ListsAreWhole, CircuitSaves
  <2>2. own \in Nat
    BY DEF CircuitsInv, ListsAreWhole
  <2>3. circuit'.version \in Nat /\ \A v \in Nat : v <= circuit.version => v <= circuit'.version
    BY <1>2, <1>3
  <2>4. \A e \in circuitCalls' : e.version <= circuit'.version
    BY <1>4, <1>5, <2>1, <2>3 DEF CircuitsInv, OwnIsFetched
  <2> QED
    BY <1>1, <2>2, <2>3, <2>4 DEF CircuitsInv, OwnIsFetched, Circuits!Asked
<1> QED
  BY <1>6, <1>7 DEF CircuitsInv

LEMMA CircuitsElsewhere == CircuitsInv /\ Circuits!Elsewhere => CircuitsInv'
<1> SUFFICES ASSUME CircuitsInv, Circuits!Elsewhere PROVE CircuitsInv'
  OBVIOUS
<1>1. /\ circuit' = [routes |-> Circuits!Reverse(circuit.routes), version |-> circuit.version + 1]
      /\ UNCHANGED <<circuitShown, fetch, circuitCalls, circuitMade, circuitFailures, pending, own>>
  BY DEF Circuits!Elsewhere, Circuits!pageVars
<1>2. circuit.routes \in Whole /\ circuit.version \in Nat
  BY DEF CircuitsInv, ListsAreWhole, Versions
<1>3. circuit' \in Versions /\ circuit'.version = circuit.version + 1
  BY <1>1, <1>2, ReversedIsWhole DEF Versions
<1>4. ListsAreWhole'
  BY <1>1, <1>3 DEF CircuitsInv, ListsAreWhole, Circuits!Asked
<1>5. OwnIsFetched'
  <2>1. own \in Nat /\ \A e \in circuitCalls : e.version \in Nat
    BY DEF CircuitsInv, ListsAreWhole, CircuitSaves
  <2>2. \A v \in Nat : v <= circuit.version => v <= circuit'.version
    BY <1>2, <1>3
  <2> QED
    BY <1>1, <2>1, <2>2 DEF CircuitsInv, OwnIsFetched, Circuits!Asked
<1> QED
  BY <1>4, <1>5 DEF CircuitsInv

\* Whatever succeeds starts another fetch.
LEMMA CircuitsSucceed == CircuitsInv /\ Circuits!Succeed => CircuitsInv'
<1> SUFFICES ASSUME CircuitsInv, Circuits!Succeed PROVE CircuitsInv'
  OBVIOUS
<1>1. PICK c \in circuitCalls :
        /\ own' = IF c.version > own THEN c.version ELSE own
        /\ fetch' = Circuits!Asked
        /\ circuitCalls' = (Circuits!Released \ {c}) \cup {[c EXCEPT !.step = "settling"]}
  BY DEF Circuits!Succeed
<1>2. UNCHANGED <<circuit, circuitShown, circuitMade, circuitFailures, pending>>
  BY DEF Circuits!Succeed, Circuits!pageVars
<1>3. \A e \in CircuitSaves, step \in {"settling", "settled"} :
        [e EXCEPT !.step = step] \in CircuitSaves /\ [e EXCEPT !.step = step].version = e.version
  BY DEF CircuitSaves
<1>4. \A e \in circuitCalls : e \in CircuitSaves /\ e.version <= circuit.version
  BY DEF CircuitsInv, ListsAreWhole, OwnIsFetched
<1>5. \A e \in circuitCalls' : e \in CircuitSaves /\ e.version <= circuit.version
  <2>1. ASSUME NEW e \in Circuits!Released
        PROVE  e \in CircuitSaves /\ e.version <= circuit.version
    <3>1. PICK b \in circuitCalls : e = b \/ e = [b EXCEPT !.step = "settled"]
      BY DEF Circuits!Released
    <3>2. b \in CircuitSaves /\ b.version <= circuit.version
      BY <1>4
    <3>3. [b EXCEPT !.step = "settled"] \in CircuitSaves /\ [b EXCEPT !.step = "settled"].version = b.version
      BY <1>3, <3>2
    <3> QED
      BY <3>1, <3>2, <3>3
  <2>2. [c EXCEPT !.step = "settling"] \in CircuitSaves /\ [c EXCEPT !.step = "settling"].version <= circuit.version
    BY <1>3, <1>4
  <2> QED
    BY <1>1, <2>1, <2>2
<1>6. own' \in Nat /\ own' <= circuit.version
  BY <1>1, <1>4 DEF CircuitsInv, ListsAreWhole, OwnIsFetched, CircuitSaves
<1>7. Circuits!Asked' = Circuits!Asked
  BY DEF Circuits!Asked
<1> QED
  BY <1>1, <1>2, <1>5, <1>6, <1>7, AskedIsNotNone DEF CircuitsInv, ListsAreWhole, OwnIsFetched

\* A write that is over, or whose page has been left.
LEMMA CircuitsEnd ==
    CircuitsInv /\ (Circuits!Settle \/ Circuits!Fail \/ Circuits!LoseAnswer \/ Circuits!Navigate) => CircuitsInv'
<1> SUFFICES ASSUME CircuitsInv, Circuits!Settle \/ Circuits!Fail \/ Circuits!LoseAnswer \/ Circuits!Navigate
             PROVE  CircuitsInv'
  OBVIOUS
<1>1. Circuits!Asked' = Circuits!Asked
  BY DEF Circuits!Asked
<1>2. CASE Circuits!Settle \/ Circuits!Fail
  BY <1>1, <1>2 DEF Circuits!Settle, Circuits!Fail, Circuits!AfterWrite, CircuitsInv, ListsAreWhole, OwnIsFetched
<1>3. CASE Circuits!LoseAnswer
  <2>1. circuitFailures' \in Nat /\ circuitFailures' # 0
    BY <1>3 DEF Circuits!LoseAnswer, CircuitsInv, ListsAreWhole
  <2> QED
    BY <1>1, <1>3, <2>1 DEF Circuits!LoseAnswer, Circuits!AfterWrite, CircuitsInv, ListsAreWhole, OwnIsFetched
<1>4. CASE Circuits!Navigate
  <2>1. \A c \in CircuitSaves : [c EXCEPT !.mounted = FALSE] \in CircuitSaves /\ [c EXCEPT !.mounted = FALSE].version = c.version
    BY DEF CircuitSaves
  <2>2. \A c \in circuitCalls' : c \in CircuitSaves /\ c.version <= circuit.version
    BY <1>4, <2>1 DEF Circuits!Navigate, CircuitsInv, ListsAreWhole, OwnIsFetched
  <2> QED
    BY <1>1, <1>4, <2>2, AskedIsNotNone DEF Circuits!Navigate, Circuits!Refresh, CircuitsInv, ListsAreWhole, OwnIsFetched
<1> QED
  BY <1>2, <1>3, <1>4

LEMMA CircuitsIdle == CircuitsInv /\ UNCHANGED circuitsVars => CircuitsInv'
BY DEF CircuitsInv, ListsAreWhole, OwnIsFetched, circuitsVars, Circuits!Asked

\* No list of a circuit that is shown, saved or stored has a route twice, whatever is moved,
\* added and removed on lists of different ages; and whenever the list can be edited it has
\* every change that this device has made and that has succeeded, so that saving the next one
\* takes none of them back (Circuits.tsx: persistRoutes, pendingDraft).
THEOREM CircuitListsAreWhole == PagesSpec => []CircuitListIsWhole
<1>1. PagesInit => CircuitsInv
  BY CircuitsInit DEF PagesInit
<1>2. CircuitsInv /\ [PagesNext]_pages => CircuitsInv'
  BY PageSteps, CircuitsIdle, CircuitsFetched, CircuitsEdited, CircuitsServed, CircuitsElsewhere, CircuitsSucceed,
     CircuitsEnd
  DEF Circuits!Next
<1>3. CircuitsInv => CircuitListIsWhole
  <2> SUFFICES ASSUME CircuitsInv PROVE Circuits!NoRouteTwice /\ Circuits!DraftHasOwnWrites
    BY DEF CircuitListIsWhole
  <2>1. Circuits!NoRouteTwice
    BY DEF CircuitsInv, ListsAreWhole, Versions, CircuitSaves, Whole, Circuits!NoRouteTwice
  <2>2. Circuits!DraftHasOwnWrites
    BY DEF CircuitsInv, ListsAreWhole, OwnIsFetched, Versions, Circuits!DraftHasOwnWrites, Circuits!Editable
  <2> QED
    BY <2>1, <2>2
<1> QED
  BY <1>1, <1>2, <1>3, PTL DEF PagesSpec

-----------------------------------------------------------------------------
(* The query cache.                                                        *)

\* What is asked of a write: a page that stays observes no query of what is written that it is
\* not told of, and one that it is left for observes none that is removed.
SoundWrite(w) ==
    /\ w.to \subseteq Cache!Pages
    /\ "me" \notin w.removed
    /\ \A p \in w.to : w.removed \cap Cache!Observes[p] = {}
    /\ w.to = {} => \A p \in w.on : \A k \in Cache!Observes[p] \ {"me"} :
           Cache!Reads(k) \cap w.writes # {} => k \in w.stale \cup w.removed

\* A write of the profile or of a role that does not put its answer in the entry invalidates it.
TellsMe(w) == {"profile", "role"} \cap w.writes # {} => "me" \in w.stale

\* What the queries of the pages read.
LEMMA QueriesRead ==
    /\ Cache!Reads("me") = {"profile", "role"}
    /\ Cache!Reads("walls") = {"name", "image"}
    /\ Cache!Reads("wall-detail") = {"name", "image", "detection", "role"}
    /\ Cache!Reads("reset-diff") = {"image", "detection", "matches", "holds", "routes"}
    /\ Cache!Reads("wall-stats") = {"image", "holds", "routes", "logs", "ratings", "profile"}
    /\ Cache!Reads("holds") = {"image", "detection", "holds"}
    /\ Cache!Reads("circuits") = {"circuits", "routes", "profile"}
    /\ Cache!Reads("climb-logs") = {"logs"}
    /\ Cache!Reads("beta-videos") = {"videos", "profile"}
    /\ \A k \in {"routes", "route-detail"} :
        Cache!Reads(k) = {"image", "remaps", "routes", "logs", "ratings", "videos"}
    /\ Cache!Reads("activity") = {"image", "routes", "logs", "profile"}
    /\ Cache!Reads("logbook") = {"name", "routes", "logs"}
  BY DEF Cache!Reads, Cache!WallQueries, Cache!RouteQueries, Cache!FeedQueries, Cache!AccountQueries



SoundGroup(group) == \A n \in DOMAIN group : SoundWrite(group[n]) /\ TellsMe(group[n])

LEMMA ResetsSound == SoundGroup(Cache!ResetWrites)
<1>1. ASSUME NEW writes \in SUBSET {"matches", "holds", "image", "remaps", "routes"}, NEW to \in {{}, {"climbs"}},
             NEW w, w = [on |-> {"review"}, writes |-> writes, stale |-> Cache!ResetQueries, removed |-> {}, to |-> to]
      PROVE  SoundWrite(w) /\ TellsMe(w)
  <2>1. Cache!Observes["review"] = {"reset-diff", "wall-detail"}
    BY DEF Cache!Observes
  <2>2. {"climbs"} \subseteq Cache!Pages
    BY DEF Cache!Pages, Cache!Observes
  <2> QED
    BY <1>1, <2>1, <2>2 DEF SoundWrite, TellsMe, Cache!ResetQueries
<1> DEFINE Sound(n) == SoundWrite(Cache!ResetWrites[n]) /\ TellsMe(Cache!ResetWrites[n])
<1>2. DOMAIN Cache!ResetWrites = {"match", "deleteNew", "restore", "apply", "discard"}
  BY DEF Cache!ResetWrites
<1>3. Sound("match")
  <2>1. Cache!ResetWrites["match"] = Cache!Write({"review"}, {"matches"}, Cache!ResetQueries)
    BY DEF Cache!ResetWrites
  <2> QED
    BY <1>1, <2>1 DEF Cache!Write
<1>4. Sound("deleteNew") /\ Sound("restore")
  <2>1. /\ Cache!ResetWrites["deleteNew"] = Cache!Write({"review"}, {"holds", "matches"}, Cache!ResetQueries)
        /\ Cache!ResetWrites["restore"] = Cache!Write({"review"}, {"holds", "matches"}, Cache!ResetQueries)
    BY DEF Cache!ResetWrites
  <2> QED
    BY <1>1, <2>1 DEF Cache!Write
<1>5. Sound("apply")
  <2>1. Cache!ResetWrites["apply"] =
            [Cache!Write({"review"}, {"image", "remaps", "routes", "matches"}, Cache!ResetQueries) EXCEPT !.to = {"climbs"}]
    BY DEF Cache!ResetWrites
  <2> QED
    BY <1>1, <2>1 DEF Cache!Write
<1>6. Sound("discard")
  <2>1. Cache!ResetWrites["discard"] =
            [Cache!Write({"review"}, {"image", "matches"}, Cache!ResetQueries) EXCEPT !.to = {"climbs"}]
    BY DEF Cache!ResetWrites
  <2> QED
    BY <1>1, <2>1 DEF Cache!Write
<1> QED
  BY <1>2, <1>3, <1>4, <1>5, <1>6 DEF SoundGroup

LEMMA ClimbPageSound == SoundGroup(Cache!ClimbWrites) /\ SoundGroup(Cache!VideoWrites) /\ SoundGroup(Cache!RatingWrites)
<1>1. SoundGroup(Cache!ClimbWrites)
  BY QueriesRead DEF SoundGroup, Cache!ClimbWrites, Cache!ClimbQueries, Cache!Write, SoundWrite, TellsMe, Cache!Observes, Cache!Wall
<1>2. SoundGroup(Cache!VideoWrites)
  BY QueriesRead DEF SoundGroup, Cache!VideoWrites, Cache!Write, SoundWrite, TellsMe, Cache!Observes, Cache!Wall
<1>3. SoundGroup(Cache!RatingWrites)
  BY QueriesRead DEF SoundGroup, Cache!RatingWrites, Cache!Write, SoundWrite, TellsMe, Cache!Observes, Cache!Wall
<1> QED
  BY <1>1, <1>2, <1>3

LEMMA RoutesSound == SoundGroup(Cache!RouteWrites)
<1> DEFINE Sound(n) == SoundWrite(Cache!RouteWrites[n]) /\ TellsMe(Cache!RouteWrites[n])
<1>1. DOMAIN Cache!RouteWrites = {"createRoute", "updateRoute", "deleteRoute"}
  BY DEF Cache!RouteWrites
<1>2. Sound("createRoute")
  BY DEF Cache!RouteWrites, Cache!Write, SoundWrite, TellsMe, Cache!Pages, Cache!Observes
<1>3. Sound("updateRoute")
  BY DEF Cache!RouteWrites, Cache!Write, SoundWrite, TellsMe, Cache!Pages, Cache!Observes
<1>4. Sound("deleteRoute")
  <2> DEFINE w == Cache!RouteWrites["deleteRoute"]
  <2>1. w = [on |-> {"route"}, writes |-> {"routes", "logs", "ratings", "videos", "circuits"},
             stale |-> {"routes", "circuits", "activity", "logbook", "wall-stats"},
             removed |-> {"route-detail"}, to |-> {"climbs", "circuits", "logbook"}]
    BY DEF Cache!RouteWrites, Cache!Write
  <2>2. "route-detail" \notin Cache!Observes["climbs"] \cup Cache!Observes["circuits"] \cup Cache!Observes["logbook"]
    BY DEF Cache!Observes, Cache!Wall
  <2> HIDE DEF w
  <2>3. SoundWrite(w) /\ TellsMe(w)
    BY <2>1, <2>2 DEF SoundWrite, TellsMe, Cache!Pages, Cache!Observes
  <2> QED
    BY <2>3 DEF w
<1> QED
  BY <1>1, <1>2, <1>3, <1>4 DEF SoundGroup

LEMMA CircuitsSound == SoundGroup(Cache!CircuitWrites)
<1>1. ASSUME NEW on \in SUBSET {"route", "circuits"}, NEW w, w = Cache!Write(on, {"circuits"}, {"circuits"})
      PROVE  SoundWrite(w) /\ TellsMe(w)
  BY <1>1, QueriesRead DEF Cache!Write, SoundWrite, TellsMe, Cache!Observes, Cache!Wall
<1>2. DOMAIN Cache!CircuitWrites = {"createCircuit", "updateCircuit", "deleteCircuit", "setRoutes", "toggleRoute"}
  BY DEF Cache!CircuitWrites
<1>3. ASSUME NEW n \in DOMAIN Cache!CircuitWrites
      PROVE  \E on \in SUBSET {"route", "circuits"} : Cache!CircuitWrites[n] = Cache!Write(on, {"circuits"}, {"circuits"})
  BY <1>2 DEF Cache!CircuitWrites
<1> QED
  BY <1>1, <1>3 DEF SoundGroup

LEMMA HoldsSound == SoundGroup(Cache!HoldWrites)
  BY QueriesRead DEF SoundGroup, Cache!HoldWrites, Cache!Write, SoundWrite, TellsMe, Cache!Observes, Cache!Wall

LEMMA ImagesSound == SoundGroup(Cache!ImageWrites)
<1> DEFINE upload(pg) == Cache!Write({pg}, {"image", "holds", "detection"}, {"wall-detail", "holds", "routes"})
<1>1. DOMAIN Cache!ImageWrites = {"uploadFull", "uploadPartial"}
  BY DEF Cache!ImageWrites
<1>2. SoundWrite(upload("climbs")) /\ TellsMe(upload("climbs"))
  BY QueriesRead DEF Cache!Write, SoundWrite, TellsMe, Cache!Observes, Cache!Wall
<1>3. ASSUME NEW w, w = [upload("camera") EXCEPT !.to = {"climbs"}]
      PROVE  SoundWrite(w) /\ TellsMe(w)
  BY <1>3 DEF Cache!Write, SoundWrite, TellsMe, Cache!Pages, Cache!Observes
<1>4. /\ Cache!ImageWrites["uploadFull"] = upload("climbs")
      /\ Cache!ImageWrites["uploadPartial"] = [upload("camera") EXCEPT !.to = {"climbs"}]
  BY DEF Cache!ImageWrites
<1> HIDE DEF upload
<1> QED
  BY <1>1, <1>2, <1>3, <1>4 DEF SoundGroup

LEMMA WallsSound == SoundGroup(Cache!NameWrites) /\ SoundGroup(Cache!WallWrites)
<1>1. SoundGroup(Cache!NameWrites)
  BY QueriesRead DEF SoundGroup, Cache!NameWrites, Cache!Write, SoundWrite, TellsMe, Cache!Observes, Cache!Wall
<1>2. SoundGroup(Cache!WallWrites)
  BY QueriesRead DEF SoundGroup, Cache!WallWrites, Cache!Write, SoundWrite, TellsMe, Cache!Observes
<1> QED
  BY <1>1, <1>2

LEMMA AccountsSound == SoundGroup(Cache!InviteWrites) /\ SoundGroup(Cache!PasswordWrites)
<1>1. SoundGroup(Cache!InviteWrites)
  BY DEF SoundGroup, Cache!InviteWrites, Cache!Write, SoundWrite, TellsMe, Cache!Pages, Cache!Observes
<1>2. SoundGroup(Cache!PasswordWrites)
  BY QueriesRead DEF SoundGroup, Cache!PasswordWrites, Cache!Write, SoundWrite, TellsMe, Cache!Observes
<1> QED
  BY <1>1, <1>2

LEMMA ProfilesSound == \A n \in DOMAIN Cache!ProfileWrites : SoundWrite(Cache!ProfileWrites[n])
  BY QueriesRead DEF Cache!ProfileWrites, Cache!Write, SoundWrite, Cache!Observes

\* So it is of every write, whichever group has it.
LEMMA WritesAreSound ==
    ASSUME NEW n \in Cache!Names
    PROVE  SoundWrite(Cache!Of(n)) /\ (n \notin DOMAIN Cache!ProfileWrites => TellsMe(Cache!Of(n)))
<1> DEFINE g == CHOOSE g \in Cache!Groups : n \in DOMAIN g
<1>1. g \in Cache!Groups /\ n \in DOMAIN g
  BY DEF Cache!Names
<1>2. Cache!Of(n) = g[n]
  BY DEF Cache!Of, Cache!Writes
<1> HIDE DEF g
<1>3. CASE g = Cache!ProfileWrites
  BY <1>1, <1>2, <1>3, ProfilesSound
<1>4. CASE g # Cache!ProfileWrites
  <2>1. SoundGroup(g)
    BY <1>1, <1>4, ResetsSound, ClimbPageSound, RoutesSound, CircuitsSound, HoldsSound, ImagesSound, WallsSound, AccountsSound
    DEF Cache!Groups
  <2> QED
    BY <1>1, <1>2, <2>1 DEF SoundGroup
<1> QED
  BY <1>3, <1>4

\* Deleting a hold has the holds fetched again.
LEMMA DeletingFetches == "deleteHold" \in Cache!Names => "holds" \in Cache!Of("deleteHold").stale /\ Cache!Of("deleteHold").removed = {}
<1> SUFFICES ASSUME "deleteHold" \in Cache!Names PROVE "holds" \in Cache!Of("deleteHold").stale /\ Cache!Of("deleteHold").removed = {}
  OBVIOUS
<1> DEFINE g == CHOOSE g \in Cache!Groups : "deleteHold" \in DOMAIN g
<1>1. g \in Cache!Groups /\ "deleteHold" \in DOMAIN g
  BY DEF Cache!Names
<1>2. Cache!Of("deleteHold") = g["deleteHold"]
  BY DEF Cache!Of, Cache!Writes
<1> HIDE DEF g
<1>3. g = Cache!HoldWrites
  <2> DEFINE groups == {Cache!ResetWrites, Cache!ClimbWrites, Cache!VideoWrites, Cache!RatingWrites, Cache!RouteWrites, Cache!CircuitWrites,
                        Cache!ImageWrites, Cache!NameWrites, Cache!WallWrites, Cache!InviteWrites, Cache!ProfileWrites, Cache!PasswordWrites}
  <2>1. "deleteHold" \notin DOMAIN Cache!ResetWrites \cup DOMAIN Cache!ClimbWrites \cup DOMAIN Cache!VideoWrites
    BY DEF Cache!ResetWrites, Cache!ClimbWrites, Cache!VideoWrites
  <2>2. "deleteHold" \notin DOMAIN Cache!RatingWrites \cup DOMAIN Cache!RouteWrites \cup DOMAIN Cache!CircuitWrites
    BY DEF Cache!RatingWrites, Cache!RouteWrites, Cache!CircuitWrites
  <2>3. "deleteHold" \notin DOMAIN Cache!ImageWrites \cup DOMAIN Cache!NameWrites \cup DOMAIN Cache!WallWrites
    BY DEF Cache!ImageWrites, Cache!NameWrites, Cache!WallWrites
  <2>4. "deleteHold" \notin DOMAIN Cache!InviteWrites \cup DOMAIN Cache!ProfileWrites \cup DOMAIN Cache!PasswordWrites
    BY DEF Cache!InviteWrites, Cache!ProfileWrites, Cache!PasswordWrites
  <2> QED
    BY <1>1, <2>1, <2>2, <2>3, <2>4 DEF Cache!Groups
<1>4. Cache!HoldWrites["deleteHold"] = Cache!Write({"climbs"}, {"holds", "remaps"}, {"holds", "routes", "wall-stats"})
  BY DEF Cache!HoldWrites
<1> QED
  BY <1>2, <1>3, <1>4 DEF Cache!Write


\* The entry that is followed.  What is on its way to it, or what a page shows of it once
\* nothing is, has the writes that it owes its page; and it lacks a hold only while that
\* hold is being deleted.
CacheTyped ==
    /\ key \in Cache!Keys /\ cachePage \in Cache!Pages
    /\ log \in Seq({"upload", "detected", "other"})
    /\ seen \in Nat /\ cacheShown \in Nat
    /\ flight \in {Cache!NoFetch, Cache!Underway} \cup Nat
    /\ mutation # None =>
        /\ mutation \in [name : Cache!Names, page : Cache!Pages, at : Nat]
        /\ mutation.page \in Cache!Of(mutation.name).on
    /\ removal => key = "holds"
    /\ key = "me" => enabled

\* The writes are counted in the order in which they are made.
WritesAreCounted ==
    /\ cacheShown <= Len(log)
    /\ mutation # None /\ mutation.at # 0 => cacheShown <= mutation.at /\ mutation.at <= Len(log)

\* What is on its way, and what is there once nothing is.
OwedIsComing ==
    /\ flight \in Nat => cacheShown <= flight
    /\ Cache!Active /\ flight = Cache!NoFetch /\ ~failed =>
        /\ cacheShown <= seen
        /\ removal => mutation # None /\ mutation.name = "deleteHold"

CacheInv == CacheTyped /\ WritesAreCounted /\ OwedIsComing

LEMMA FlightsDiffer == Cache!NoFetch \notin Nat /\ Cache!Underway \notin Nat /\ Cache!NoFetch # Cache!Underway
BY DEF Cache!NoFetch, Cache!Underway

\* The next state of an entry to which nothing was written.
LEMMA CacheKeeps ==
    ASSUME CacheInv, CacheTyped', UNCHANGED <<log, cacheShown, mutation>>,
           \/ flight' = Cache!Underway
           \/ flight' = Cache!NoFetch /\ failed'
           \/ flight' = flight /\ (Cache!Active' /\ flight = Cache!NoFetch => Cache!Active) /\ UNCHANGED <<seen, failed, removal>>
    PROVE  CacheInv'
<1>1. WritesAreCounted'
  BY DEF CacheInv, WritesAreCounted
<1>2. OwedIsComing'
  BY FlightsDiffer DEF CacheInv, OwedIsComing
<1> QED
  BY <1>1, <1>2 DEF CacheInv

LEMMA CacheFetches ==
    CacheInv /\ (Cache!Refetch \/ Cache!Poll \/ Cache!ToggleHolds \/ Cache!FetchFails) => CacheInv'
<1> SUFFICES ASSUME CacheInv, Cache!Refetch \/ Cache!Poll \/ Cache!ToggleHolds \/ Cache!FetchFails PROVE CacheInv'
  OBVIOUS
<1>1. UNCHANGED <<key, cachePage, log, seen, removal, mutation, cacheShown>>
  BY DEF Cache!Refetch, Cache!Poll, Cache!ToggleHolds, Cache!FetchFails
<1>2. CASE Cache!Refetch \/ Cache!Poll
  <2>1. flight' = Cache!Underway /\ UNCHANGED enabled
    BY <1>2 DEF Cache!Refetch, Cache!Poll
  <2>2. CacheTyped'
    BY <1>1, <2>1 DEF CacheInv, CacheTyped
  <2> QED
    BY <1>1, <2>1, <2>2, CacheKeeps
<1>3. CASE Cache!ToggleHolds
  <2>1. key = "holds" /\ enabled' = ~enabled /\ flight' = Cache!Asked(~enabled) /\ UNCHANGED failed
    BY <1>3 DEF Cache!ToggleHolds
  <2>2. CacheTyped'
    BY <1>1, <2>1 DEF CacheInv, CacheTyped, Cache!Asked
  <2>3. flight' = Cache!Underway \/ (flight' = flight /\ (flight = Cache!NoFetch => enabled))
    BY <2>1 DEF Cache!Asked
  <2>4. Cache!Active' => enabled'
    BY DEF Cache!Active
  <2> QED
    BY <1>1, <2>1, <2>2, <2>3, <2>4, CacheKeeps
<1>4. CASE Cache!FetchFails
  <2>1. flight' = Cache!NoFetch /\ failed' /\ UNCHANGED enabled
    BY <1>4 DEF Cache!FetchFails
  <2>2. CacheTyped'
    BY <1>1, <2>1 DEF CacheInv, CacheTyped
  <2> QED
    BY <1>1, <2>1, <2>2, CacheKeeps
<1> QED
  BY <1>2, <1>3, <1>4

\* A page that is opened fetches what the one before it did not show.
LEMMA CacheNavigates == ASSUME CacheInv, NEW p \in Cache!Pages, Cache!Navigate(p) PROVE CacheInv'
<1>1. /\ cachePage' = p /\ enabled' = TRUE
      /\ flight' = Cache!Asked(key \in Cache!Observes[p] /\ ~(Cache!SamePage(cachePage, p) /\ Cache!Active))
      /\ UNCHANGED <<key, log, seen, failed, removal, mutation, cacheShown>>
  BY DEF Cache!Navigate
<1>2. CacheTyped'
  BY <1>1 DEF CacheInv, CacheTyped, Cache!Asked
<1>3. flight' = Cache!Underway \/ (flight' = flight /\ (Cache!Active' /\ flight = Cache!NoFetch => Cache!Active))
  <2>1. CASE flight = Cache!NoFetch /\ flight' = flight
    <3>1. key \notin Cache!Observes[p] \/ Cache!Active
      BY <1>1, <2>1, FlightsDiffer DEF Cache!Asked
    <3>2. key = "me" => Cache!Active
      BY DEF CacheInv, CacheTyped, Cache!Active
    <3>3. Cache!Active' => key \in Cache!Observes[p] \cup {"me"}
      BY <1>1 DEF Cache!Active
    <3> QED
      BY <2>1, <3>1, <3>2, <3>3
  <2>2. CASE ~(flight = Cache!NoFetch /\ flight' = flight)
    BY <1>1, <2>2 DEF Cache!Asked
  <2> QED
    BY <2>1, <2>2
<1> QED
  BY <1>1, <1>2, <1>3, CacheKeeps

\* What the server answers has every write.
LEMMA CacheReads == CacheInv /\ Cache!ServerReads => CacheInv'
<1> SUFFICES ASSUME CacheInv, Cache!ServerReads PROVE CacheInv'
  OBVIOUS
<1>1. flight' = Len(log) /\ UNCHANGED <<key, cachePage, enabled, log, seen, failed, removal, mutation, cacheShown>>
  BY DEF Cache!ServerReads
<1>2. Len(log) \in Nat
  BY DEF CacheInv, CacheTyped
<1>3. CacheTyped'
  BY <1>1, <1>2 DEF CacheInv, CacheTyped
<1>4. WritesAreCounted'
  BY <1>1 DEF CacheInv, WritesAreCounted
<1>5. OwedIsComing'
  BY <1>1, <1>2, FlightsDiffer DEF CacheInv, WritesAreCounted, OwedIsComing
<1> QED
  BY <1>3, <1>4, <1>5 DEF CacheInv

LEMMA CacheArrives == CacheInv /\ Cache!Arrives => CacheInv'
<1> SUFFICES ASSUME CacheInv, Cache!Arrives PROVE CacheInv'
  OBVIOUS
<1>1. /\ flight \in Nat /\ seen' = flight /\ flight' = Cache!NoFetch /\ ~failed' /\ ~removal'
      /\ UNCHANGED <<key, cachePage, enabled, log, mutation, cacheShown>>
  BY DEF Cache!Arrives
<1>2. CacheTyped'
  BY <1>1 DEF CacheInv, CacheTyped
<1>3. WritesAreCounted'
  BY <1>1 DEF CacheInv, WritesAreCounted
<1>4. OwedIsComing'
  BY <1>1, FlightsDiffer DEF CacheInv, OwedIsComing
<1> QED
  BY <1>2, <1>3, <1>4 DEF CacheInv

LEMMA CacheBegins == ASSUME CacheInv, NEW n \in Cache!Names, Cache!Begin(n) PROVE CacheInv'
<1>1. /\ mutation = None /\ cachePage \in Cache!Of(n).on
      /\ mutation' = [name |-> n, page |-> cachePage, at |-> 0]
      /\ removal' = (removal \/ (n = "deleteHold" /\ key = "holds"))
      /\ UNCHANGED <<key, cachePage, enabled, log, seen, flight, failed, cacheShown>>
  BY DEF Cache!Begin
<1>2. mutation' \in [name : Cache!Names, page : Cache!Pages, at : Nat]
  BY <1>1 DEF CacheInv, CacheTyped
<1>3. mutation' # None
  BY <1>2, NoneIsNoWrite
<1>4. CacheTyped'
  BY <1>1, <1>2 DEF CacheInv, CacheTyped
<1>5. WritesAreCounted'
  BY <1>1 DEF CacheInv, WritesAreCounted
<1>6. Cache!Active' = Cache!Active
  BY <1>1 DEF Cache!Active
<1>7. OwedIsComing'
  BY <1>1, <1>3, <1>6 DEF CacheInv, OwedIsComing
<1> QED
  BY <1>4, <1>5, <1>7 DEF CacheInv

\* The server appends to the log.
LEMMA CacheGrows ==
    ASSUME CacheInv, NEW mark \in {"upload", "detected", "other"}, log' = Append(log, mark),
           UNCHANGED <<key, cachePage, enabled, seen, flight, failed, removal, cacheShown>>,
           \/ mutation' = mutation
           \/ mutation # None /\ mutation' = [mutation EXCEPT !.at = Len(log) + 1]
    PROVE  CacheInv'
<1>1. Len(log) \in Nat /\ Len(log') = Len(log) + 1 /\ log' \in Seq({"upload", "detected", "other"})
  BY DEF CacheInv, CacheTyped
<1>2. cacheShown \in Nat /\ cacheShown <= Len(log)
  BY DEF CacheInv, CacheTyped, WritesAreCounted
<1>3. /\ CacheTyped' /\ WritesAreCounted'
      /\ mutation' = None <=> mutation = None
      /\ mutation # None => mutation'.name = mutation.name
  <2>1. CASE mutation' = mutation
    <3>1. CacheTyped'
      BY <1>1, <2>1 DEF CacheInv, CacheTyped
    <3>2. WritesAreCounted'
      BY <1>1, <1>2, <2>1 DEF CacheInv, CacheTyped, WritesAreCounted
    <3> QED
      BY <2>1, <3>1, <3>2
  <2>2. CASE mutation # None /\ mutation' = [mutation EXCEPT !.at = Len(log) + 1]
    <3>1. mutation \in [name : Cache!Names, page : Cache!Pages, at : Nat]
      BY <2>2 DEF CacheInv, CacheTyped
    <3>2. /\ mutation' \in [name : Cache!Names, page : Cache!Pages, at : Nat]
          /\ mutation'.name = mutation.name /\ mutation'.page = mutation.page /\ mutation'.at = Len(log) + 1
      BY <1>1, <2>2, <3>1
    <3>3. mutation' # None
      BY <3>2, NoneIsNoWrite
    <3>4. CacheTyped'
      BY <1>1, <2>2, <3>2 DEF CacheInv, CacheTyped
    <3>5. WritesAreCounted'
      BY <1>1, <1>2, <3>2 DEF WritesAreCounted
    <3> QED
      BY <2>2, <3>2, <3>3, <3>4, <3>5
  <2> QED
    BY <2>1, <2>2
<1>4. Cache!Active' = Cache!Active
  BY DEF Cache!Active
<1>5. OwedIsComing'
  BY <1>3, <1>4 DEF CacheInv, OwedIsComing
<1> QED
  BY <1>3, <1>5 DEF CacheInv

\* A write that has failed: a hold that could not be deleted is fetched again.
LEMMA CacheWriteFails == CacheInv /\ Cache!Fail => CacheInv'
<1> SUFFICES ASSUME CacheInv, Cache!Fail PROVE CacheInv'
  OBVIOUS
<1>1. /\ mutation # None /\ mutation' = None
      /\ flight' = IF mutation.name = "deleteHold" THEN Cache!Refreshed("deleteHold") ELSE flight
      /\ UNCHANGED <<key, cachePage, enabled, log, seen, failed, removal, cacheShown>>
  BY DEF Cache!Fail
<1>2. flight' \in {flight, Cache!Underway}
  BY <1>1 DEF Cache!Refreshed
<1>3. CacheTyped'
  BY <1>1, <1>2 DEF CacheInv, CacheTyped
<1>4. WritesAreCounted'
  BY <1>1 DEF CacheInv, WritesAreCounted
<1>5. Cache!Active' = Cache!Active
  BY <1>1 DEF Cache!Active
<1>6. ASSUME Cache!Active, flight' = Cache!NoFetch, ~failed PROVE cacheShown <= seen /\ ~removal
  <2>1. flight = Cache!NoFetch
    BY <1>2, <1>6, FlightsDiffer
  <2>2. cacheShown <= seen /\ (removal => mutation.name = "deleteHold")
    BY <1>6, <2>1 DEF CacheInv, OwedIsComing
  <2>3. ASSUME removal, mutation.name = "deleteHold" PROVE FALSE
    <3>1. key = "holds" /\ "deleteHold" \in Cache!Names
      BY <1>1, <2>3 DEF CacheInv, CacheTyped
    <3>2. Cache!Refreshed("deleteHold") = Cache!Underway
      BY <1>6, <3>1, DeletingFetches DEF Cache!Refreshed, Cache!Invalidated
    <3> QED
      BY <1>1, <1>6, <2>3, <3>2, FlightsDiffer
  <2> QED
    BY <2>2, <2>3
<1>7. flight' \in Nat => cacheShown <= flight'
  BY <1>2, FlightsDiffer DEF CacheInv, OwedIsComing
<1>8. OwedIsComing'
  BY <1>1, <1>5, <1>6, <1>7 DEF OwedIsComing
<1> QED
  BY <1>3, <1>4, <1>8 DEF CacheInv


\* What a page in use is told of what it has written.
LEMMA WriteIsTold ==
    ASSUME CacheInv, NEW n \in Cache!Names, cachePage \in Cache!Of(n).on, Cache!Touches(n, key), Cache!Active,
           key = "me" => n \notin DOMAIN Cache!ProfileWrites,
           key = "me" \/ Cache!Of(n).to = {}
    PROVE  key \in Cache!Of(n).stale \cup Cache!Of(n).removed
<1>1. CASE key = "me"
  <2>1. TellsMe(Cache!Of(n))
    BY <1>1, WritesAreSound
  <2>2. Cache!Reads(key) = {"profile", "role"}
    BY <1>1, QueriesRead
  <2> QED
    BY <1>1, <2>1, <2>2 DEF TellsMe, Cache!Touches
<1>2. CASE key # "me"
  <2>1. SoundWrite(Cache!Of(n))
    BY WritesAreSound
  <2>2. key \in Cache!Observes[cachePage] \ {"me"}
    BY <1>2 DEF Cache!Active
  <2> QED
    BY <1>2, <2>1, <2>2 DEF SoundWrite, Cache!Touches
<1> QED
  BY <1>1, <1>2

LEMMA CacheSucceeds == CacheInv /\ Cache!Succeed => CacheInv'
<1> SUFFICES ASSUME CacheInv, Cache!Succeed PROVE CacheInv'
  OBVIOUS
<1> DEFINE n == mutation.name
           w == Cache!Of(n)
<1>1. /\ mutation # None /\ mutation' = None /\ mutation.at > 0
      /\ cacheShown' = Cache!Owed(n)
      /\ UNCHANGED <<key, log>>
  BY DEF Cache!Succeed
<1>2. /\ n \in Cache!Names /\ mutation.page \in w.on /\ mutation.at \in Nat /\ mutation.at # 0
      /\ cacheShown <= mutation.at /\ mutation.at <= Len(log) /\ cacheShown \in Nat /\ Len(log) \in Nat
  BY <1>1 DEF CacheInv, CacheTyped, WritesAreCounted
<1>3. cacheShown' \in {cacheShown, mutation.at}
  BY <1>1 DEF Cache!Owed
<1>4. SoundWrite(w)
  BY <1>2, WritesAreSound
<1>5. WritesAreCounted'
  BY <1>1, <1>2, <1>3 DEF CacheInv, WritesAreCounted
<1>6. CASE n \in DOMAIN Cache!ProfileWrites /\ key = "me"
  <2>1. seen' = mutation.at /\ ~removal' /\ ~failed' /\ UNCHANGED <<cachePage, enabled, flight>>
    BY <1>6 DEF Cache!Succeed
  <2>2. CacheTyped'
    BY <1>1, <1>2, <1>3, <2>1 DEF CacheInv, CacheTyped
  <2>3. flight \in Nat => cacheShown' = cacheShown
    BY <1>1, <1>6, FlightsDiffer DEF Cache!Owed
  <2>4. OwedIsComing'
    BY <1>1, <1>2, <1>3, <2>1, <2>3 DEF CacheInv, OwedIsComing
  <2> QED
    BY <1>5, <2>2, <2>4 DEF CacheInv
<1>7. CASE ~(n \in DOMAIN Cache!ProfileWrites /\ key = "me") /\ w.to = {}
  <2>1. /\ flight' = IF key \in w.removed THEN Cache!NoFetch ELSE Cache!Refreshed(n)
        /\ enabled' = (enabled /\ key \notin w.removed)
        /\ UNCHANGED <<cachePage, seen, failed, removal>>
    BY <1>7 DEF Cache!Succeed
  <2>2. flight' \in {flight, Cache!NoFetch, Cache!Underway}
    BY <2>1 DEF Cache!Refreshed
  <2>3. CacheTyped'
    <3>1. key = "me" => enabled'
      BY <1>4, <2>1 DEF SoundWrite, CacheInv, CacheTyped
    <3>2. cacheShown' \in Nat
      BY <1>2, <1>3
    <3> QED
      BY <1>1, <2>1, <2>2, <3>1, <3>2 DEF CacheInv, CacheTyped
  <2>4. ASSUME flight' \in Nat PROVE cacheShown' <= flight'
    <3>1. key \notin w.removed /\ flight' = flight /\ ~(key \in w.stale /\ Cache!Active)
      BY <2>1, <2>4, FlightsDiffer DEF Cache!Refreshed, Cache!Invalidated
    <3>2. CASE cacheShown' = cacheShown
      BY <2>4, <3>1, <3>2 DEF CacheInv, OwedIsComing
    <3>3. CASE cacheShown' # cacheShown
      <4>1. Cache!Touches(n, key) /\ mutation.page = cachePage /\ Cache!Active /\ key # "me"
        BY <1>1, <2>4, <3>1, <3>3, FlightsDiffer DEF Cache!Owed
      <4> QED
        BY <1>2, <1>7, <3>1, <4>1, WriteIsTold
    <3> QED
      BY <3>2, <3>3
  <2>5. ASSUME Cache!Active', flight' = Cache!NoFetch, ~failed' PROVE cacheShown' <= seen' /\ ~removal'
    <3>1. Cache!Active /\ key \notin w.removed
      BY <1>1, <2>1, <2>5 DEF Cache!Active
    <3>2. flight = Cache!NoFetch /\ key \notin w.stale
      BY <2>1, <2>5, <3>1, FlightsDiffer DEF Cache!Refreshed, Cache!Invalidated
    <3>3. cacheShown <= seen /\ (removal => n = "deleteHold" /\ key = "holds")
      BY <2>1, <2>5, <3>1, <3>2 DEF CacheInv, CacheTyped, OwedIsComing
    <3>4. cacheShown' = cacheShown
      <4> SUFFICES ASSUME cacheShown' # cacheShown PROVE FALSE
        OBVIOUS
      <4>1. Cache!Touches(n, key) /\ mutation.page = cachePage
        BY <1>1 DEF Cache!Owed
      <4> QED
        BY <1>2, <1>7, <3>1, <3>2, <4>1, WriteIsTold
    <3>5. ~removal
      BY <1>2, <3>2, <3>3, DeletingFetches
    <3> QED
      BY <2>1, <3>3, <3>4, <3>5
  <2>6. OwedIsComing'
    BY <2>4, <2>5 DEF OwedIsComing
  <2> QED
    BY <1>5, <2>3, <2>6 DEF CacheInv
<1>8. CASE ~(n \in DOMAIN Cache!ProfileWrites /\ key = "me") /\ w.to # {}
  <2>1. PICK p \in w.to :
          /\ cachePage' = p /\ enabled' = TRUE
          /\ flight' = IF key \in Cache!Observes[p] /\ Cache!Refreshed(n) = Cache!NoFetch THEN Cache!Underway
                       ELSE IF key \in w.removed THEN Cache!NoFetch ELSE Cache!Refreshed(n)
    BY <1>8 DEF Cache!Succeed
  <2>2. UNCHANGED <<seen, failed, removal>>
    BY <1>8 DEF Cache!Succeed
  <2>3. flight' \in {flight, Cache!NoFetch, Cache!Underway}
    BY <2>1 DEF Cache!Refreshed
  <2>4. p \in Cache!Pages /\ w.removed \cap Cache!Observes[p] = {} /\ "me" \notin w.removed
    BY <1>4 DEF SoundWrite
  <2>5. CacheTyped'
    <3>1. cacheShown' \in Nat
      BY <1>2, <1>3
    <3> QED
      BY <1>1, <2>1, <2>2, <2>3, <2>4, <3>1 DEF CacheInv, CacheTyped
  <2>6. ASSUME flight' \in Nat PROVE cacheShown' <= flight'
    <3>1. flight' = flight
      BY <2>3, <2>6, FlightsDiffer
    <3>2. cacheShown' = cacheShown
      BY <1>1, <1>8, <2>6, <3>1, FlightsDiffer DEF Cache!Owed
    <3> QED
      BY <2>6, <3>1, <3>2 DEF CacheInv, OwedIsComing
  <2>7. ASSUME Cache!Active', flight' = Cache!NoFetch, ~failed' PROVE cacheShown' <= seen' /\ ~removal'
    <3>1. key \notin Cache!Observes[p]
      BY <2>1, <2>4, <2>7, FlightsDiffer
    <3>2. key = "me" /\ Cache!Active
      BY <1>1, <2>1, <2>7, <3>1 DEF Cache!Active, CacheInv, CacheTyped
    <3>3. flight = Cache!NoFetch /\ key \notin w.stale
      BY <2>1, <2>4, <2>7, <3>1, <3>2, FlightsDiffer DEF Cache!Refreshed, Cache!Invalidated
    <3>4. cacheShown <= seen /\ ~removal
      BY <2>2, <2>7, <3>2, <3>3 DEF CacheInv, CacheTyped, OwedIsComing
    <3>5. cacheShown' = cacheShown
      <4> SUFFICES ASSUME cacheShown' # cacheShown PROVE FALSE
        OBVIOUS
      <4>1. Cache!Touches(n, key) /\ mutation.page = cachePage
        BY <1>1 DEF Cache!Owed
      <4> QED
        BY <1>2, <1>8, <2>4, <3>2, <3>3, <4>1, WriteIsTold
    <3> QED
      BY <2>2, <3>4, <3>5
  <2>8. OwedIsComing'
    BY <2>6, <2>7 DEF OwedIsComing
  <2> QED
    BY <1>5, <2>5, <2>8 DEF CacheInv
<1> QED
  BY <1>6, <1>7, <1>8

LEMMA CacheIdle == CacheInv /\ UNCHANGED cacheVars => CacheInv'
<1> SUFFICES ASSUME CacheInv, UNCHANGED cacheVars PROVE CacheInv'
  OBVIOUS
<1>1. CacheTyped' /\ WritesAreCounted'
  BY DEF CacheInv, CacheTyped, WritesAreCounted, cacheVars
<1>2. OwedIsComing'
  BY DEF CacheInv, OwedIsComing, cacheVars, Cache!Active
<1> QED
  BY <1>1, <1>2 DEF CacheInv

LEMMA CacheNext == CacheInv /\ Cache!Next => CacheInv'
<1> SUFFICES ASSUME CacheInv, Cache!Next PROVE CacheInv'
  OBVIOUS
<1>1. CASE Cache!Commit
  <2>1. PICK mark \in {"upload", "other"} : log' = Append(log, mark)
    BY <1>1 DEF Cache!Commit
  <2> QED
    BY <1>1, <2>1, CacheGrows DEF Cache!Commit
<1>2. CASE Cache!Detected
  BY <1>2, CacheGrows DEF Cache!Detected
<1> QED
  BY <1>1, <1>2, CacheNavigates, CacheBegins, CacheFetches, CacheReads, CacheArrives, CacheSucceeds, CacheWriteFails DEF Cache!Next

LEMMA CacheInit == Cache!Init => CacheInv
<1> SUFFICES ASSUME Cache!Init PROVE CacheInv
  OBVIOUS
<1>1. /\ key \in Cache!Keys /\ cachePage \in Cache!Pages /\ enabled = TRUE
      /\ log = <<>> /\ seen = 0 /\ cacheShown = 0 /\ ~removal /\ mutation = None
      /\ flight = IF key \in Cache!Observes[cachePage] \cup {"me"} THEN Cache!Underway ELSE Cache!NoFetch
  BY DEF Cache!Init
<1>2. CacheTyped
  BY <1>1 DEF CacheTyped
<1>3. WritesAreCounted
  BY <1>1 DEF WritesAreCounted
<1>4. OwedIsComing
  BY <1>1, FlightsDiffer DEF OwedIsComing, Cache!Active
<1> QED
  BY <1>2, <1>3, <1>4 DEF CacheInv

-----------------------------------------------------------------------------
(* The feed.                                                               *)

FeedEntries == [id : Nat, day : Int]

LEMMA FeedOrder ==
    /\ \A x, y \in FeedEntries : Feed!Before(x, y) \in BOOLEAN
    /\ \A x \in FeedEntries : ~Feed!Before(x, x)
    /\ \A x, y \in FeedEntries : Feed!Before(x, y) \/ Feed!Before(y, x) \/ x = y
    /\ \A x, y, z \in FeedEntries : Feed!Before(x, y) /\ Feed!Before(y, z) => Feed!Before(x, z)
<1>1. \A x, y \in FeedEntries : x.id = y.id /\ x.day = y.day => x = y
  BY DEF FeedEntries
<1>2. \A x \in FeedEntries : x.id \in Nat /\ x.day \in Int
  BY DEF FeedEntries
<1> QED
  BY <1>1, <1>2 DEF Feed!Before

\* The entries of a set are numbered by how many are listed before each.
LEMMA FeedRanks ==
    ASSUME NEW S \in SUBSET FeedEntries, IsFiniteSet(S)
    PROVE  /\ Cardinality(S) \in Nat
           /\ \A e \in S : Feed!Ahead(e, S) \in 0..Cardinality(S) - 1
           /\ \A x, y \in S : Feed!Before(x, y) <=> Feed!Ahead(x, S) < Feed!Ahead(y, S)
           /\ \A x, y \in S : Feed!Ahead(x, S) = Feed!Ahead(y, S) => x = y
           /\ \A i \in 1..Cardinality(S) : \E e \in S : Feed!Ahead(e, S) = i - 1
<1> DEFINE n == Cardinality(S)
           A(e) == {x \in S : Feed!Before(x, e)}
<1>1. n \in Nat
  BY FS_CardinalityType
<1>2. ASSUME NEW e \in S
      PROVE  /\ Feed!Ahead(e, S) = Cardinality(A(e))
             /\ IsFiniteSet(A(e)) /\ Cardinality(A(e)) \in 0..n - 1
  <2>1. A(e) \subseteq S /\ e \notin A(e)
    BY FeedOrder
  <2>2. IsFiniteSet(A(e)) /\ Cardinality(A(e)) <= n /\ (n = Cardinality(A(e)) => S = A(e))
    BY <2>1, FS_Subset
  <2>3. Cardinality(A(e)) \in Nat
    BY <2>2, FS_CardinalityType
  <2>4. Cardinality(A(e)) \in 0..n - 1
    BY <1>1, <2>1, <2>2, <2>3
  <2>5. Feed!Ahead(e, S) = Cardinality(A(e))
    BY DEF Feed!Ahead, Feed!Cardinality, Cardinality
  <2> QED
    BY <2>2, <2>4, <2>5
<1>3. ASSUME NEW x \in S, NEW y \in S, Feed!Before(x, y)
      PROVE  Feed!Ahead(x, S) < Feed!Ahead(y, S)
  <2>1. A(x) \subseteq A(y) /\ x \in A(y) /\ x \notin A(x)
    BY <1>3, FeedOrder
  <2>2. Cardinality(A(x)) <= Cardinality(A(y)) /\ (Cardinality(A(y)) = Cardinality(A(x)) => A(y) = A(x))
    BY <1>2, <2>1, FS_Subset
  <2>3. Cardinality(A(x)) \in Int /\ Cardinality(A(y)) \in Int
    BY <1>2
  <2>4. A(x) # A(y)
    BY <2>1
  <2> HIDE DEF A
  <2>5. Cardinality(A(x)) < Cardinality(A(y))
    BY <2>2, <2>3, <2>4
  <2> QED
    BY <1>2, <2>5
<1>4. \A e \in S : Feed!Ahead(e, S) \in 0..n - 1
  BY <1>2
<1>5. \A x, y \in S : Feed!Ahead(x, S) = Feed!Ahead(y, S) => x = y
  BY <1>1, <1>3, <1>4, FeedOrder
<1>6. \A x, y \in S : Feed!Ahead(x, S) < Feed!Ahead(y, S) => Feed!Before(x, y)
  BY <1>1, <1>3, <1>4, FeedOrder
<1>7. ASSUME NEW i \in 1..n PROVE \E e \in S : Feed!Ahead(e, S) = i - 1
  <2> DEFINE f == [e \in S |-> Feed!Ahead(e, S) + 1]
  <2>1. f \in [S -> 1..n]
    BY <1>1, <1>4
  <2>2. \A x, y \in S : f[x] = f[y] => x = y
    BY <1>1, <1>4, <1>5
  <2> HIDE DEF f
  <2>3. f \in Injection(S, 1..n)
    BY <2>1, <2>2 DEF Injection, IsInjective
  <2>4. IsFiniteSet(1..n) /\ Cardinality(1..n) = n
    BY <1>1, FS_Interval
  <2>5. f \in Surjection(S, 1..n)
    BY <2>3, <2>4, FS_Injection
  <2>6. PICK e \in S : f[e] = i
    BY <2>5 DEF Surjection
  <2> QED
    BY <1>1, <1>4, <2>6 DEF f
<1> QED
  BY <1>1, <1>3, <1>4, <1>5, <1>6, <1>7

FeedPages == [items : Seq(FeedEntries), next : FeedEntries \cup {None}]

\* A page that was read from a cursor, of the entries that have not changed since the first.
PageIsRead(known, pg, cursor, T) ==
    /\ pg \in FeedPages
    /\ \A i, j \in 1..Len(pg.items) : i < j => Feed!Before(pg.items[i], pg.items[j])
    /\ cursor # None => \A i \in 1..Len(pg.items) : Feed!Before(cursor, pg.items[i])
    /\ pg.next # None =>
        /\ cursor # None => Feed!Before(cursor, pg.next)
        /\ \A i \in 1..Len(pg.items) : pg.items[i] = pg.next \/ Feed!Before(pg.items[i], pg.next)
    /\ \A e \in known :
        e.id \notin T /\ (cursor # None => Feed!Before(cursor, e)) /\ (pg.next # None => ~Feed!Before(pg.next, e))
            => \E i \in 1..Len(pg.items) : pg.items[i] = e

LEMMA PageReads ==
    ASSUME entries \subseteq FeedEntries, IsFiniteSet(entries), NEW cursor \in FeedEntries \cup {None}, NEW T
    PROVE  PageIsRead(entries, Feed!ReadPage(cursor), cursor, T)
<1> DEFINE rest == {e \in entries : cursor = None \/ Feed!Before(cursor, e)}
           n == Cardinality(rest)
           l == IF n > Limit THEN Limit ELSE n
           row(i) == CHOOSE e \in rest : Feed!Ahead(e, rest) = i - 1
           pg == Feed!ReadPage(cursor)
<1>1. rest \in SUBSET FeedEntries /\ IsFiniteSet(rest)
  BY FS_Subset
<1>2. n = Feed!Cardinality(rest)
  BY DEF Feed!Cardinality, Cardinality
<1>3. pg = IF n > Limit THEN [items |-> [i \in 1..Limit |-> row(i)], next |-> row(Limit)]
                        ELSE [items |-> [i \in 1..n |-> row(i)], next |-> None]
  BY <1>2 DEF Feed!ReadPage
<1> HIDE DEF rest, n, row, pg
<1>4. n \in Nat /\ Limit \in Nat /\ Limit >= 1 /\ l \in 0..n
  BY <1>1, FeedRanks, FeedBounds DEF n
<1>5. ASSUME NEW i \in 1..n PROVE row(i) \in rest /\ row(i) \in FeedEntries /\ Feed!Ahead(row(i), rest) = i - 1
  <2>1. \E e \in rest : Feed!Ahead(e, rest) = i - 1
    BY <1>1, FeedRanks DEF n
  <2> QED
    BY <1>1, <2>1 DEF row
<1>6. \A i, j \in 1..n : i < j => Feed!Before(row(i), row(j))
  <2> SUFFICES ASSUME NEW i \in 1..n, NEW j \in 1..n, i < j PROVE Feed!Before(row(i), row(j))
    OBVIOUS
  <2>1. Feed!Ahead(row(i), rest) < Feed!Ahead(row(j), rest)
    BY <1>4, <1>5
  <2> QED
    BY <1>1, <1>5, <2>1, FeedRanks
<1>7. pg.items = [i \in 1..l |-> row(i)] /\ pg.next = IF n > Limit THEN row(Limit) ELSE None
  BY <1>3
<1>8. /\ pg.items \in Seq(FeedEntries) /\ Len(pg.items) = l
      /\ \A i \in 1..l : pg.items[i] = row(i) /\ i \in 1..n
  BY <1>4, <1>5, <1>7
<1>9. \A e \in rest : cursor # None => Feed!Before(cursor, e)
  BY DEF rest
<1>10. pg.next # None => n > Limit /\ pg.next = row(Limit) /\ Limit \in 1..n /\ l = Limit
  BY <1>4, <1>7
<1>11. n > Limit => pg.next = row(Limit) /\ Limit \in 1..n /\ pg.next # None
  <2>1. n > Limit => row(Limit) \in FeedEntries
    BY <1>4, <1>5
  <2> QED
    BY <1>4, <1>7, <2>1, NoneIsNoCursor DEF FeedEntries
<1>12. \A i \in 1..Len(pg.items) : pg.next # None => pg.items[i] = pg.next \/ Feed!Before(pg.items[i], pg.next)
  BY <1>4, <1>6, <1>8, <1>10
<1>13. ASSUME NEW e \in entries, cursor # None => Feed!Before(cursor, e), pg.next # None => ~Feed!Before(pg.next, e)
       PROVE  \E i \in 1..Len(pg.items) : pg.items[i] = e
  <2>1. e \in rest
    BY <1>13 DEF rest
  <2> DEFINE r == Feed!Ahead(e, rest) + 1
  <2>2. r \in 1..n
    BY <1>1, <1>4, <2>1, FeedRanks DEF n
  <2>3. Feed!Ahead(row(r), rest) = Feed!Ahead(e, rest) /\ row(r) \in rest
    <3>1. Feed!Ahead(e, rest) \in 0..n - 1
      BY <1>1, <2>1, FeedRanks DEF n
    <3> QED
      BY <1>4, <1>5, <2>2, <3>1
  <2>4. row(r) = e
    BY <1>1, <2>1, <2>3, FeedRanks
  <2> HIDE DEF r
  <2>5. r <= l
    <3> SUFFICES ASSUME r > l PROVE FALSE
      BY <1>4, <2>2
    <3>1. n > Limit /\ Limit < r
      BY <1>4, <2>2
    <3>2. Feed!Before(row(Limit), row(r))
      BY <1>6, <1>11, <2>2, <3>1
    <3> QED
      BY <1>11, <1>13, <2>4, <3>1, <3>2
  <2> QED
    BY <1>8, <2>2, <2>4, <2>5
<1>14. pg.next # None => pg.next \in FeedEntries /\ (cursor # None => Feed!Before(cursor, pg.next))
  BY <1>5, <1>9, <1>10
<1>15. \A i, j \in 1..Len(pg.items) : i < j => Feed!Before(pg.items[i], pg.items[j])
  BY <1>6, <1>8
<1>16. cursor # None => \A i \in 1..Len(pg.items) : Feed!Before(cursor, pg.items[i])
  BY <1>5, <1>8, <1>9
<1>17. pg \in FeedPages
  <2>1. pg = [items |-> pg.items, next |-> pg.next]
    BY <1>3
  <2> QED
    BY <1>8, <1>14, <2>1 DEF FeedPages
<1> QED
  BY <1>8, <1>12, <1>13, <1>14, <1>15, <1>16, <1>17 DEF PageIsRead, pg

\* Pages that were read one from the end of the other.
ChainIsRead(known, ps, T) ==
    /\ \A i \in 1..Len(ps) : \A k, m \in 1..Len(ps[i].items) :
        k < m => Feed!Before(ps[i].items[k], ps[i].items[m])
    /\ \A i \in 1..Len(ps) : ps[i].next # None => \A k \in 1..Len(ps[i].items) :
        ps[i].items[k] = ps[i].next \/ Feed!Before(ps[i].items[k], ps[i].next)
    /\ \A i, j \in 1..Len(ps) : i < j =>
        /\ ps[i].next # None
        /\ \A k \in 1..Len(ps[j].items) : Feed!Before(ps[i].next, ps[j].items[k])
        /\ ps[j].next # None => Feed!Before(ps[i].next, ps[j].next)
    /\ ps # <<>> => \A e \in known :
        e.id \notin T /\ (ps[Len(ps)].next # None => ~Feed!Before(ps[Len(ps)].next, e))
            => \E i \in 1..Len(ps) : \E k \in 1..Len(ps[i].items) : ps[i].items[k] = e

\* Where the page after these begins.
EndOf(ps) == IF ps = <<>> THEN None ELSE ps[Len(ps)].next

\* One more page, from the end of the last.
LEMMA PageIsAppended ==
    ASSUME NEW known \in SUBSET FeedEntries, NEW ps \in Seq(FeedPages), NEW T, NEW pg \in FeedPages,
           ChainIsRead(known, ps, T), PageIsRead(known, pg, EndOf(ps), T), ps # <<>> => EndOf(ps) # None
    PROVE  ChainIsRead(known, Append(ps, pg), T)
<1> DEFINE qs == Append(ps, pg)
           n == Len(ps)
           c == EndOf(ps)
<1>1. /\ n \in Nat /\ Len(qs) = n + 1 /\ qs # <<>>
      /\ \A i \in 1..n : qs[i] = ps[i] /\ ps[i] \in FeedPages
      /\ qs[n + 1] = pg
  OBVIOUS
<1>2. n >= 1 => c = ps[n].next /\ c # None /\ c \in FeedEntries
  BY <1>1 DEF EndOf, FeedPages
<1>3. n = 0 => c = None /\ ps = <<>>
  BY DEF EndOf
<1>4. ASSUME NEW q \in FeedPages PROVE q.items \in Seq(FeedEntries) /\ (q.next # None => q.next \in FeedEntries)
  BY DEF FeedPages
<1> HIDE DEF qs, n, c
<1>5. ASSUME NEW i \in 1..n PROVE ps[i].next # None /\ ps[i].next \in FeedEntries /\ (i < n => Feed!Before(ps[i].next, c))
  <2>1. n \in 1..n /\ n >= 1
    BY <1>1
  <2>2. CASE i = n
    BY <1>2, <2>1, <2>2
  <2>3. CASE i < n
    <3>1. ps[i].next # None /\ (ps[n].next # None => Feed!Before(ps[i].next, ps[n].next))
      BY <2>1, <2>3 DEF ChainIsRead, n
    <3> QED
      BY <1>1, <1>2, <1>4, <2>1, <2>3, <3>1
  <2> QED
    BY <1>1, <2>2, <2>3
<1>6. ASSUME NEW i \in 1..n, NEW x \in FeedEntries, Feed!Before(c, x) PROVE Feed!Before(ps[i].next, x)
  <2>1. CASE i = n
    BY <1>1, <1>2, <1>6, <2>1
  <2>2. CASE i < n
    BY <1>1, <1>2, <1>5, <1>6, <2>2, FeedOrder
  <2> QED
    BY <1>1, <2>1, <2>2
<1>7. \A i \in 1..Len(qs) : \A k, m \in 1..Len(qs[i].items) : k < m => Feed!Before(qs[i].items[k], qs[i].items[m])
  <2> SUFFICES ASSUME NEW i \in 1..Len(qs)
               PROVE  \A k, m \in 1..Len(qs[i].items) : k < m => Feed!Before(qs[i].items[k], qs[i].items[m])
    OBVIOUS
  <2>1. CASE i \in 1..n
    BY <1>1, <2>1 DEF ChainIsRead, n
  <2>2. CASE i = n + 1
    BY <1>1, <2>2 DEF PageIsRead
  <2> QED
    BY <1>1, <2>1, <2>2
<1>8. \A i \in 1..Len(qs) : qs[i].next # None => \A k \in 1..Len(qs[i].items) :
        qs[i].items[k] = qs[i].next \/ Feed!Before(qs[i].items[k], qs[i].next)
  <2> SUFFICES ASSUME NEW i \in 1..Len(qs), qs[i].next # None
               PROVE  \A k \in 1..Len(qs[i].items) : qs[i].items[k] = qs[i].next \/ Feed!Before(qs[i].items[k], qs[i].next)
    OBVIOUS
  <2>1. CASE i \in 1..n
    BY <1>1, <2>1 DEF ChainIsRead, n
  <2>2. CASE i = n + 1
    BY <1>1, <2>2 DEF PageIsRead
  <2> QED
    BY <1>1, <2>1, <2>2
<1>9. ASSUME NEW i \in 1..Len(qs), NEW j \in 1..Len(qs), i < j
      PROVE  /\ qs[i].next # None
             /\ \A k \in 1..Len(qs[j].items) : Feed!Before(qs[i].next, qs[j].items[k])
             /\ qs[j].next # None => Feed!Before(qs[i].next, qs[j].next)
  <2>1. i \in 1..n /\ qs[i] = ps[i] /\ n >= 1
    BY <1>1, <1>9
  <2>2. CASE j \in 1..n
    <3>1. qs[j] = ps[j]
      BY <1>1, <2>2
    <3> QED
      BY <1>9, <2>1, <2>2, <3>1 DEF ChainIsRead, n
  <2>3. CASE j = n + 1
    <3>1. qs[j] = pg /\ c # None
      BY <1>1, <1>2, <2>1, <2>3
    <3>2. \A k \in 1..Len(pg.items) : Feed!Before(c, pg.items[k]) /\ pg.items[k] \in FeedEntries
      BY <1>4, <3>1 DEF PageIsRead, c
    <3>3. pg.next # None => pg.next \in FeedEntries /\ Feed!Before(c, pg.next)
      BY <1>4, <3>1 DEF PageIsRead, c
    <3> QED
      BY <1>5, <1>6, <2>1, <3>1, <3>2, <3>3
  <2> QED
    BY <1>1, <2>2, <2>3
<1>10. ASSUME NEW e \in known, e.id \notin T, qs[Len(qs)].next # None => ~Feed!Before(qs[Len(qs)].next, e)
       PROVE  \E i \in 1..Len(qs) : \E k \in 1..Len(qs[i].items) : qs[i].items[k] = e
  <2>1. qs[Len(qs)] = pg /\ n + 1 \in 1..Len(qs)
    BY <1>1
  <2>2. CASE c # None => Feed!Before(c, e)
    <3>1. \E k \in 1..Len(pg.items) : pg.items[k] = e
      BY <1>10, <2>1, <2>2 DEF PageIsRead, c
    <3> QED
      BY <1>1, <2>1, <3>1
  <2>3. CASE c # None /\ ~Feed!Before(c, e)
    <3>1. n >= 1 /\ c = ps[n].next /\ ps # <<>>
      BY <1>1, <1>2, <1>3, <2>3 DEF n
    <3>2. \E i \in 1..n : \E k \in 1..Len(ps[i].items) : ps[i].items[k] = e
      BY <1>10, <2>3, <3>1 DEF ChainIsRead, n
    <3>3. PICK i \in 1..n : \E k \in 1..Len(ps[i].items) : ps[i].items[k] = e
      BY <3>2
    <3>4. qs[i] = ps[i] /\ i \in 1..Len(qs)
      BY <1>1
    <3> QED
      BY <3>3, <3>4
  <2> QED
    BY <2>2, <2>3
<1> QED
  BY <1>7, <1>8, <1>9, <1>10 DEF ChainIsRead, qs

LEMMA NothingIsRead == \A known, T : ChainIsRead(known, <<>>, T)
BY DEF ChainIsRead

\* Entries that change are no longer counted among those that must be there.
LEMMA ChangesAreTouched ==
    ASSUME NEW known, NEW T, NEW known2, NEW T2, \A e \in known2 : e.id \notin T2 => e \in known /\ e.id \notin T
    PROVE  /\ \A ps : ChainIsRead(known, ps, T) => ChainIsRead(known2, ps, T2)
           /\ \A pg, cursor : PageIsRead(known, pg, cursor, T) => PageIsRead(known2, pg, cursor, T2)
<1>1. ASSUME NEW ps, ChainIsRead(known, ps, T) PROVE ChainIsRead(known2, ps, T2)
  BY <1>1 DEF ChainIsRead
<1>2. ASSUME NEW pg, NEW cursor, PageIsRead(known, pg, cursor, T) PROVE PageIsRead(known2, pg, cursor, T2)
  BY <1>2 DEF PageIsRead
<1> QED
  BY <1>1, <1>2

LEMMA ChainIsWhole ==
    ASSUME entries \subseteq FeedEntries, feedPages \in Seq(FeedPages), feedPages # <<>>,
           ChainIsRead(entries, feedPages, touched)
    PROVE  Feed!FeedIsWhole
<1> DEFINE ps == feedPages
<1>1. Len(ps) \in Nat /\ Len(ps) >= 1 /\ DOMAIN ps = 1..Len(ps) /\ Feed!Last(ps) = ps[Len(ps)]
  BY DEF Feed!Last
<1>2. ASSUME NEW i \in 1..Len(ps)
      PROVE  /\ DOMAIN ps[i].items = 1..Len(ps[i].items)
             /\ \A k \in 1..Len(ps[i].items) : ps[i].items[k] \in FeedEntries
             /\ ps[i].next # None => ps[i].next \in FeedEntries
  <2>0. ps[i] \in FeedPages
    OBVIOUS
  <2>1. ps[i].items \in Seq(FeedEntries) /\ ps[i].next \in FeedEntries \cup {None}
    BY <2>0 DEF FeedPages
  <2> QED
    BY <2>1
<1>3. ASSUME NEW p \in Feed!Places
      PROVE  /\ p = <<p[1], p[2]>> /\ p[1] \in 1..Len(ps) /\ p[2] \in 1..Len(ps[p[1]].items)
             /\ Feed!Item(p) = ps[p[1]].items[p[2]] /\ Feed!Item(p) \in FeedEntries
  <2>1. \E i \in 1..Len(ps) : \E k \in 1..Len(ps[i].items) : p = <<i, k>>
    BY <1>1, <1>2 DEF Feed!Places
  <2>2. PICK i, k : i \in 1..Len(ps) /\ k \in 1..Len(ps[i].items) /\ p = <<i, k>>
    BY <2>1
  <2> QED
    BY <1>2, <2>2 DEF Feed!Item
<1>4. ASSUME NEW p \in Feed!Places, NEW q \in Feed!Places, Feed!Above(p, q)
      PROVE  Feed!Before(Feed!Item(p), Feed!Item(q))
  <2>1. PICK i, j, x, y : i = p[1] /\ j = q[1] /\ x = Feed!Item(p) /\ y = Feed!Item(q)
    OBVIOUS
  <2>2. i \in 1..Len(ps) /\ j \in 1..Len(ps) /\ x \in FeedEntries /\ y \in FeedEntries
    BY <1>3, <2>1
  <2>0. p[2] \in 1..Len(ps[i].items) /\ q[2] \in 1..Len(ps[j].items) /\ x = ps[i].items[p[2]] /\ y = ps[j].items[q[2]]
    BY <1>3, <2>1
  <2>3. i < j \/ (i = j /\ p[2] < q[2])
    BY <1>4, <2>1 DEF Feed!Above
  <2>4. CASE i < j
    <3>1. ps[i].next # None /\ Feed!Before(ps[i].next, y)
      BY <2>2, <2>0, <2>4 DEF ChainIsRead
    <3>2. x = ps[i].next \/ Feed!Before(x, ps[i].next)
      BY <2>2, <2>0, <3>1 DEF ChainIsRead
    <3>3. Feed!Before(x, y)
      BY <1>2, <2>2, <3>1, <3>2, FeedOrder
    <3> QED
      BY <2>1, <3>3
  <2>5. CASE i = j /\ p[2] < q[2]
    <3>1. Feed!Before(x, y)
      BY <2>2, <2>0, <2>5 DEF ChainIsRead
    <3> QED
      BY <2>1, <3>1
  <2> QED
    BY <2>3, <2>4, <2>5
<1>5. ASSUME NEW p \in Feed!Places, NEW q \in Feed!Places, Feed!Item(p) = Feed!Item(q) PROVE p = q
  <2>1. ~Feed!Above(p, q) /\ ~Feed!Above(q, p)
    BY <1>3, <1>4, <1>5, FeedOrder
  <2>2. p[1] \in Int /\ p[2] \in Int /\ q[1] \in Int /\ q[2] \in Int /\ p = <<p[1], p[2]>> /\ q = <<q[1], q[2]>>
    BY <1>3
  <2>3. p[1] = q[1] /\ p[2] = q[2]
    BY <2>1, <2>2 DEF Feed!Above
  <2> QED
    BY <2>2, <2>3
<1>6. ASSUME NEW e \in entries, e.id \notin touched, Feed!HasNextPage => ~Feed!Before(Feed!Last(ps).next, e), ps # None
      PROVE  Feed!Cardinality({p \in Feed!Places : Feed!Item(p) = e}) = 1
  <2>1. ps[Len(ps)].next # None => ~Feed!Before(ps[Len(ps)].next, e)
    BY <1>1, <1>6 DEF Feed!HasNextPage
  <2>2. \E i \in 1..Len(ps) : \E k \in 1..Len(ps[i].items) : ps[i].items[k] = e
    BY <1>6, <2>1 DEF ChainIsRead
  <2>3. PICK i, k : i \in 1..Len(ps) /\ k \in 1..Len(ps[i].items) /\ ps[i].items[k] = e
    BY <2>2
  <2>4. <<i, k>> \in Feed!Places /\ Feed!Item(<<i, k>>) = e
    BY <1>1, <1>2, <2>3 DEF Feed!Places, Feed!Item
  <2>5. {p \in Feed!Places : Feed!Item(p) = e} = {<<i, k>>}
    BY <1>5, <2>4
  <2>6. Cardinality({<<i, k>>}) = 1
    BY FS_Singleton
  <2> QED
    BY <2>5, <2>6 DEF Feed!Cardinality, Cardinality
<1> QED
  BY <1>4, <1>6 DEF Feed!FeedIsWhole

FeedFetches == [kind : {"all", "more"}, wanted : Nat, got : Seq(FeedPages), from : FeedEntries \cup {None},
                answer : FeedPages \cup {None}, touched : SUBSET Nat]

ShownIsRead ==
    feedPages # None =>
        feedPages \in Seq(FeedPages) /\ feedPages # <<>> /\ ChainIsRead(entries, feedPages, touched)

\* What a fetch of all has read, from the first page.
AllIsRead ==
    feedFetch # None /\ feedFetch.kind = "all" =>
        /\ ChainIsRead(entries, feedFetch.got, feedFetch.touched)
        /\ feedFetch.from = EndOf(feedFetch.got)
        /\ feedFetch.got # <<>> => feedFetch.from # None
        /\ feedFetch.answer # None => PageIsRead(entries, feedFetch.answer, feedFetch.from, feedFetch.touched)

\* What a fetch of more has read, from the last page that is shown.
MoreIsRead ==
    feedFetch # None /\ feedFetch.kind = "more" =>
        /\ feedPages # None /\ feedFetch.got = <<>> /\ feedFetch.wanted = 1
        /\ feedFetch.from = EndOf(feedPages) /\ feedFetch.from # None
        /\ feedFetch.answer # None => PageIsRead(entries, feedFetch.answer, feedFetch.from, touched)

FeedTyped ==
    /\ entries \subseteq FeedEntries /\ IsFiniteSet(entries)
    /\ feedFetch # None => feedFetch \in FeedFetches

FeedInv == FeedTyped /\ ShownIsRead /\ AllIsRead /\ MoreIsRead

LEMMA FeedInit == Feed!Init => FeedInv
<1> SUFFICES ASSUME Feed!Init PROVE FeedInv
  OBVIOUS
<1>1. PICK days \in [1..Limit + 1 -> Dates] : entries = {[id |-> i, day |-> days[i]] : i \in 1..Limit + 1}
  BY DEF Feed!Init
<1>2. entries \subseteq FeedEntries
  <2> SUFFICES ASSUME NEW i \in 1..Limit + 1 PROVE [id |-> i, day |-> days[i]] \in FeedEntries
    BY <1>1
  <2>1. days[i] \in Dates
    BY <1>1
  <2>2. days[i] \in Int
    BY <2>1, FeedBounds
  <2>3. i \in Nat
    BY FeedBounds
  <2> QED
    BY <2>2, <2>3 DEF FeedEntries
<1>3. IsFiniteSet(entries)
  <2>1. IsFiniteSet(1..Limit + 1)
    BY FeedBounds, FS_Interval
  <2> DEFINE f == [i \in 1..Limit + 1 |-> [id |-> i, day |-> days[i]]]
  <2>2. IsFiniteSet({f[i] : i \in 1..Limit + 1})
    <3>1. f \in Surjection(1..Limit + 1, {f[i] : i \in 1..Limit + 1})
      <4>1. f \in [1..Limit + 1 -> {f[i] : i \in 1..Limit + 1}]
        OBVIOUS
      <4> HIDE DEF f
      <4> QED
        BY <4>1 DEF Surjection
    <3> HIDE DEF f
    <3> QED
      BY <2>1, <3>1, FS_Surjection
  <2>3. entries = {f[i] : i \in 1..Limit + 1}
    BY <1>1
  <2> QED
    BY <2>2, <2>3
<1> QED
  BY <1>2, <1>3 DEF Feed!Init, FeedInv, FeedTyped, ShownIsRead, AllIsRead, MoreIsRead

LEMMA FeedChanges == FeedInv /\ Feed!Change => FeedInv'
<1> SUFFICES ASSUME FeedInv, Feed!Change PROVE FeedInv'
  OBVIOUS
<1>1. PICK id \in 1..MaxFeed :
        LET kept == {e \in entries : e.id # id}
        IN  /\ entries' \in {kept} \cup {kept \cup {[id |-> id, day |-> d]} : d \in Dates}
            /\ touched' = touched \cup {id}
            /\ feedFetch' = IF feedFetch = None THEN None ELSE [feedFetch EXCEPT !.touched = @ \cup {id}]
  BY DEF Feed!Change
<1>2. id \in Nat
  OBVIOUS
<1> DEFINE kept == {e \in entries : e.id # id}
<1>3. feedPages' = feedPages
  BY DEF Feed!Change
<1>4. entries' = kept \/ \E d \in Dates : entries' = kept \cup {[id |-> id, day |-> d]}
  BY <1>1
<1>5. kept \in SUBSET FeedEntries /\ IsFiniteSet(kept)
  BY FS_Subset DEF FeedInv, FeedTyped
<1>6. entries' \subseteq FeedEntries /\ IsFiniteSet(entries')
  <2>1. CASE entries' = kept
    BY <1>5, <2>1
  <2>2. CASE \E d \in Dates : entries' = kept \cup {[id |-> id, day |-> d]}
    <3>1. PICK d \in Dates : entries' = kept \cup {[id |-> id, day |-> d]}
      BY <2>2
    <3>2. [id |-> id, day |-> d] \in FeedEntries
      BY <1>2, FeedBounds DEF FeedEntries
    <3> HIDE DEF kept
    <3> QED
      BY <1>5, <3>1, <3>2, FS_AddElement
  <2> QED
    BY <1>4, <2>1, <2>2
<1>7. ASSUME NEW T PROVE \A e \in entries' : e.id \notin T \cup {id} => e \in entries /\ e.id \notin T
  BY <1>4
<1>8. ASSUME NEW T
      PROVE  /\ \A ps : ChainIsRead(entries, ps, T) => ChainIsRead(entries', ps, T \cup {id})
             /\ \A pg, c : PageIsRead(entries, pg, c, T) => PageIsRead(entries', pg, c, T \cup {id})
  BY <1>7, ChangesAreTouched
<1>9. touched' = touched \cup {id} /\ feedFetch' = IF feedFetch = None THEN None ELSE [feedFetch EXCEPT !.touched = @ \cup {id}]
  BY <1>1
<1>10. ASSUME feedFetch # None
       PROVE  /\ feedFetch \in FeedFetches /\ feedFetch' \in FeedFetches
              /\ feedFetch'.kind = feedFetch.kind /\ feedFetch'.got = feedFetch.got /\ feedFetch'.from = feedFetch.from
              /\ feedFetch'.answer = feedFetch.answer /\ feedFetch'.wanted = feedFetch.wanted
              /\ feedFetch'.touched = feedFetch.touched \cup {id}
  BY <1>2, <1>9, <1>10 DEF FeedInv, FeedTyped, FeedFetches
<1>11. feedFetch' # None => feedFetch # None
  BY <1>9
<1> HIDE DEF kept
<1>12. FeedTyped'
  BY <1>6, <1>10, <1>11 DEF FeedTyped
<1>13. ShownIsRead'
  BY <1>3, <1>8, <1>9 DEF FeedInv, ShownIsRead
<1>14. AllIsRead'
  BY <1>8, <1>10, <1>11 DEF FeedInv, AllIsRead
<1>15. MoreIsRead'
  BY <1>3, <1>8, <1>9, <1>10, <1>11 DEF FeedInv, MoreIsRead
<1> QED
  BY <1>12, <1>13, <1>14, <1>15 DEF FeedInv

LEMMA FeedFetched ==
    ASSUME FeedInv, NEW kind \in {"all", "more"}, NEW wanted \in Nat, NEW first \in FeedEntries \cup {None},
           Feed!StartFetch(kind, wanted, first), kind = "all" => first = None,
           kind = "more" => feedPages # None /\ wanted = 1 /\ first # None /\ first = EndOf(feedPages)
    PROVE  FeedInv'
<1>1. feedFetch' = [kind |-> kind, wanted |-> wanted, got |-> <<>>, from |-> first, answer |-> None, touched |-> {}]
  BY DEF Feed!StartFetch
<1>2. UNCHANGED <<entries, feedPages, touched>>
  BY DEF Feed!StartFetch
<1>3. feedFetch' \in FeedFetches
  BY <1>1 DEF FeedFetches
<1>4. /\ feedFetch'.kind = kind /\ feedFetch'.wanted = wanted /\ feedFetch'.got = <<>> /\ feedFetch'.from = first
      /\ feedFetch'.answer = None
  BY <1>1
<1>5. FeedTyped' /\ ShownIsRead'
  BY <1>2, <1>3 DEF FeedInv, FeedTyped, ShownIsRead
<1>6. AllIsRead'
  BY <1>4, NothingIsRead DEF AllIsRead, EndOf
<1>7. MoreIsRead'
  BY <1>2, <1>4 DEF MoreIsRead
<1> QED
  BY <1>5, <1>6, <1>7 DEF FeedInv

LEMMA FeedStarts == FeedInv /\ (Feed!FetchAll \/ Feed!LoadMore) => FeedInv'
<1>1. ASSUME FeedInv, Feed!FetchAll PROVE FeedInv'
  <2> DEFINE w == IF feedPages = None THEN 1 ELSE Len(feedPages)
  <2>1. w \in Nat
    BY <1>1 DEF FeedInv, ShownIsRead
  <2>2. Feed!StartFetch("all", w, None)
    BY <1>1 DEF Feed!FetchAll
  <2> QED
    BY <1>1, <2>1, <2>2, FeedFetched
<1>2. ASSUME FeedInv, Feed!LoadMore PROVE FeedInv'
  <2>1. feedPages # None /\ Feed!Last(feedPages).next # None /\ Feed!StartFetch("more", 1, Feed!Last(feedPages).next)
    BY <1>2 DEF Feed!LoadMore, Feed!HasNextPage
  <2>2. feedPages \in Seq(FeedPages) /\ feedPages # <<>>
    BY <1>2, <2>1 DEF FeedInv, ShownIsRead
  <2>3. Feed!Last(feedPages) = feedPages[Len(feedPages)] /\ Feed!Last(feedPages) \in FeedPages
    BY <2>2 DEF Feed!Last
  <2>4. Feed!Last(feedPages).next = EndOf(feedPages) /\ Feed!Last(feedPages).next \in FeedEntries \cup {None}
    BY <2>2, <2>3 DEF EndOf, FeedPages
  <2> QED
    BY <1>2, <2>1, <2>4, FeedFetched
<1> QED
  BY <1>1, <1>2

LEMMA FeedReads == FeedInv /\ Feed!ServerReads => FeedInv'
<1> SUFFICES ASSUME FeedInv, Feed!ServerReads PROVE FeedInv'
  OBVIOUS
<1> DEFINE pg == Feed!ReadPage(feedFetch.from)
           T == IF feedFetch.kind = "all" /\ feedFetch.got = <<>> THEN {} ELSE feedFetch.touched
<1>1. /\ feedFetch # None /\ feedFetch \in FeedFetches
      /\ feedFetch' = [feedFetch EXCEPT !.answer = pg, !.touched = T]
      /\ UNCHANGED <<entries, feedPages, touched>>
  BY DEF Feed!ServerReads, FeedInv, FeedTyped
<1>2. entries \subseteq FeedEntries /\ IsFiniteSet(entries) /\ feedFetch.from \in FeedEntries \cup {None}
  BY <1>1 DEF FeedInv, FeedTyped, FeedFetches
<1>3. \A S : PageIsRead(entries, pg, feedFetch.from, S)
  BY <1>2, PageReads
<1>4. pg \in FeedPages
  BY <1>3 DEF PageIsRead
<1>5. T \in SUBSET Nat
  BY <1>1 DEF FeedFetches
<1> HIDE DEF pg, T
<1>6. /\ feedFetch' \in FeedFetches
      /\ feedFetch'.kind = feedFetch.kind /\ feedFetch'.got = feedFetch.got /\ feedFetch'.from = feedFetch.from
      /\ feedFetch'.answer = pg /\ feedFetch'.wanted = feedFetch.wanted /\ feedFetch'.touched = T
  BY <1>1, <1>4, <1>5 DEF FeedFetches
<1>7. FeedTyped' /\ ShownIsRead'
  BY <1>1, <1>6 DEF FeedInv, FeedTyped, ShownIsRead
<1>8. AllIsRead'
  <2> SUFFICES ASSUME feedFetch'.kind = "all" PROVE AllIsRead'
    BY DEF AllIsRead
  <2>1. ChainIsRead(entries, feedFetch.got, T)
    <3>1. CASE feedFetch.got = <<>>
      BY <3>1, NothingIsRead
    <3>2. CASE feedFetch.got # <<>>
      BY <1>1, <1>6, <3>2 DEF FeedInv, AllIsRead, T
    <3> QED
      BY <3>1, <3>2
  <2>2. feedFetch.from = EndOf(feedFetch.got) /\ (feedFetch.got # <<>> => feedFetch.from # None)
    BY <1>1, <1>6 DEF FeedInv, AllIsRead
  <2> QED
    BY <1>1, <1>3, <1>6, <2>1, <2>2 DEF AllIsRead
<1>9. MoreIsRead'
  BY <1>1, <1>3, <1>6 DEF FeedInv, MoreIsRead
<1> QED
  BY <1>7, <1>8, <1>9 DEF FeedInv

LEMMA FeedArrives == FeedInv /\ Feed!Arrives => FeedInv'
<1> SUFFICES ASSUME FeedInv, Feed!Arrives PROVE FeedInv'
  OBVIOUS
<1> DEFINE got == Append(feedFetch.got, feedFetch.answer)
           next == feedFetch.answer.next
<1>1. /\ feedFetch # None /\ feedFetch.answer # None /\ entries' = entries
      /\ \/ /\ Len(got) < feedFetch.wanted /\ next # None
            /\ feedFetch' = [feedFetch EXCEPT !.got = got, !.from = next, !.answer = None]
            /\ UNCHANGED <<feedPages, touched>>
         \/ /\ feedPages' = IF feedFetch.kind = "all" THEN got ELSE feedPages \o got
            /\ touched' = IF feedFetch.kind = "all" THEN feedFetch.touched ELSE touched
            /\ feedFetch' = None
  BY DEF Feed!Arrives
<1>2. /\ feedFetch \in FeedFetches /\ feedFetch.got \in Seq(FeedPages) /\ feedFetch.answer \in FeedPages
      /\ feedFetch.kind \in {"all", "more"} /\ next \in FeedEntries \cup {None}
      /\ entries \in SUBSET FeedEntries
  <2>1. feedFetch \in FeedFetches /\ entries \in SUBSET FeedEntries
    BY <1>1 DEF FeedInv, FeedTyped
  <2>2. feedFetch.got \in Seq(FeedPages) /\ feedFetch.answer \in FeedPages /\ feedFetch.kind \in {"all", "more"}
    BY <1>1, <2>1 DEF FeedFetches
  <2> QED
    BY <2>1, <2>2 DEF FeedPages
<1>3. got \in Seq(FeedPages) /\ got # <<>> /\ EndOf(got) = next
  <2>1. Len(got) = Len(feedFetch.got) + 1 /\ got[Len(feedFetch.got) + 1] = feedFetch.answer /\ Len(feedFetch.got) \in Nat
    BY <1>2
  <2>2. got \in Seq(FeedPages) /\ got # <<>>
    BY <1>2
  <2> QED
    BY <2>1, <2>2 DEF EndOf
<1>4. ASSUME feedFetch.kind = "all" PROVE ChainIsRead(entries, got, feedFetch.touched)
  <2>1. /\ ChainIsRead(entries, feedFetch.got, feedFetch.touched)
        /\ PageIsRead(entries, feedFetch.answer, EndOf(feedFetch.got), feedFetch.touched)
        /\ feedFetch.got # <<>> => EndOf(feedFetch.got) # None
    BY <1>1, <1>4 DEF FeedInv, AllIsRead
  <2> QED
    BY <1>2, <2>1, PageIsAppended
<1>5. ASSUME feedFetch.kind = "more"
      PROVE  /\ feedPages # None /\ got = <<feedFetch.answer>> /\ feedFetch.wanted = 1
             /\ feedPages \in Seq(FeedPages) /\ feedPages \o got \in Seq(FeedPages) /\ feedPages \o got # <<>>
             /\ ChainIsRead(entries, feedPages \o got, touched)
  <2>1. /\ feedPages # None /\ feedFetch.got = <<>> /\ feedFetch.wanted = 1 /\ EndOf(feedPages) # None
        /\ PageIsRead(entries, feedFetch.answer, EndOf(feedPages), touched)
    BY <1>1, <1>5 DEF FeedInv, MoreIsRead
  <2>2. feedPages \in Seq(FeedPages) /\ feedPages # <<>> /\ ChainIsRead(entries, feedPages, touched)
    BY <2>1 DEF FeedInv, ShownIsRead
  <2>3. got = <<feedFetch.answer>>
    BY <2>1
  <2>4. feedPages \o got = Append(feedPages, feedFetch.answer)
    BY <1>2, <2>2, <2>3
  <2>5. ChainIsRead(entries, Append(feedPages, feedFetch.answer), touched)
    BY <1>2, <2>1, <2>2, PageIsAppended
  <2>6. Append(feedPages, feedFetch.answer) \in Seq(FeedPages) /\ Append(feedPages, feedFetch.answer) # <<>>
    BY <1>2, <2>2
  <2> QED
    BY <2>1, <2>2, <2>3, <2>4, <2>5, <2>6
<1> HIDE DEF got, next
<1>6. CASE /\ Len(got) < feedFetch.wanted /\ next # None
           /\ feedFetch' = [feedFetch EXCEPT !.got = got, !.from = next, !.answer = None]
           /\ UNCHANGED <<feedPages, touched>>
  <2>1. feedFetch.kind = "all"
    <3> SUFFICES ASSUME feedFetch.kind = "more" PROVE FALSE
      BY <1>2
    <3>1. got = <<feedFetch.answer>> /\ feedFetch.wanted = 1
      BY <1>5
    <3> QED
      BY <1>6, <3>1
  <2>2. /\ feedFetch' \in FeedFetches /\ feedFetch'.kind = "all" /\ feedFetch'.got = got /\ feedFetch'.from = next
        /\ feedFetch'.answer = None /\ feedFetch'.touched = feedFetch.touched
    BY <1>2, <1>3, <1>6, <2>1 DEF FeedFetches
  <2>3. FeedTyped' /\ ShownIsRead'
    BY <1>1, <1>6, <2>2 DEF FeedInv, FeedTyped, ShownIsRead
  <2>4. AllIsRead' /\ MoreIsRead'
    BY <1>1, <1>3, <1>4, <1>6, <2>1, <2>2 DEF AllIsRead, MoreIsRead
  <2> QED
    BY <2>3, <2>4 DEF FeedInv
<1>7. CASE /\ feedPages' = IF feedFetch.kind = "all" THEN got ELSE feedPages \o got
           /\ touched' = IF feedFetch.kind = "all" THEN feedFetch.touched ELSE touched
           /\ feedFetch' = None
  <2>1. ShownIsRead'
    <3>1. CASE feedFetch.kind = "all"
      BY <1>1, <1>3, <1>4, <1>7, <3>1 DEF ShownIsRead
    <3>2. CASE feedFetch.kind = "more"
      <4>1. feedPages' = feedPages \o got /\ touched' = touched /\ entries' = entries
        BY <1>1, <1>7, <3>2
      <4> QED
        BY <1>5, <3>2, <4>1 DEF ShownIsRead
    <3> QED
      BY <1>2, <3>1, <3>2
  <2>2. FeedTyped' /\ AllIsRead' /\ MoreIsRead'
    BY <1>1, <1>7 DEF FeedInv, FeedTyped, AllIsRead, MoreIsRead
  <2> QED
    BY <2>1, <2>2 DEF FeedInv
<1> QED
  BY <1>1, <1>6, <1>7

LEMMA FeedIdle == FeedInv /\ UNCHANGED feedVars => FeedInv'
<1> SUFFICES ASSUME FeedInv, UNCHANGED feedVars PROVE FeedInv'
  OBVIOUS
<1>1. UNCHANGED <<entries, feedPages, touched, feedFetch>>
  BY DEF feedVars
<1> QED
  BY <1>1 DEF FeedInv, FeedTyped, ShownIsRead, AllIsRead, MoreIsRead

LEMMA FeedNext == FeedInv /\ Feed!Next => FeedInv'
<1> SUFFICES ASSUME FeedInv, Feed!Next PROVE FeedInv'
  OBVIOUS
<1>1. CASE Feed!Fails
  BY <1>1 DEF Feed!Fails, FeedInv, FeedTyped, ShownIsRead, AllIsRead, MoreIsRead
<1> QED
  BY <1>1, FeedChanges, FeedStarts, FeedReads, FeedArrives DEF Feed!Next

LEMMA FeedStaysWhole == FeedInv => Feed!FeedIsWhole
<1> SUFFICES ASSUME FeedInv PROVE Feed!FeedIsWhole
  OBVIOUS
<1>1. CASE feedPages = None
  BY <1>1 DEF Feed!FeedIsWhole
<1>2. CASE feedPages # None
  BY <1>2, ChainIsWhole DEF FeedInv, FeedTyped, ShownIsRead
<1> QED
  BY <1>1, <1>2

\* A page shows what was written from it once nothing is on its way, whatever fetches were
\* under way, failed or were answered before; a hold that could not be deleted comes back
\* (the invalidations of mutations.ts and the pages, deleteHold in WallDetail); and the feed
\* shows each unchanged entry above its end once, in order, whatever is logged and deleted
\* between its pages (ActivityFeed.tsx, activity.go).
THEOREM CacheStaysTruthful == PagesSpec => []CacheIsTruthful
<1>1. PagesInit => CacheInv /\ FeedInv
  BY CacheInit, FeedInit DEF PagesInit
<1>2. CacheInv /\ FeedInv /\ [PagesNext]_pages => (CacheInv /\ FeedInv)'
  BY PageSteps, CacheNext, CacheIdle, FeedNext, FeedIdle
<1>3. CacheInv /\ FeedInv => CacheIsTruthful
  <2> SUFFICES ASSUME CacheInv, FeedInv PROVE Cache!OwnWritesShow /\ Cache!RemovalIsUndone
    BY FeedStaysWhole DEF CacheIsTruthful
  <2>1. seen \in Nat /\ cacheShown \in Nat
    BY DEF CacheInv, CacheTyped
  <2> QED
    BY <2>1 DEF CacheInv, OwedIsComing, Cache!OwnWritesShow, Cache!RemovalIsUndone
<1> QED
  BY <1>1, <1>2, <1>3, PTL DEF PagesSpec

-----------------------------------------------------------------------------
(* Their types.                                                            *)

\* The list of climbs.
LEMMA ListStepsNext ==
    ASSUME steps \in 0..MaxSteps, [List!Next]_listVars
    PROVE  steps' \in 0..MaxSteps
<1> USE ListBounds
<1>1. CASE List!Bounded
  BY <1>1 DEF List!Bounded
<1>2. CASE UNCHANGED steps
  BY <1>2
<1>3. List!Bounded \/ UNCHANGED steps
  BY DEF List!Next, List!Render, List!Leave, List!Visit, List!HoldsArrive, List!CircuitsArrive, List!ToggleHold,
     List!UpdateCircuit, List!SelectGrade, List!ClearHolds, List!AnyGrade, List!ToggleOther, List!ClearFilters,
     List!Tap, listVars
<1> QED
  BY <1>1, <1>2, <1>3

LEMMA ListTypes == ListInv /\ steps \in 0..MaxSteps => List!TypeOK
BY DEF ListInv, ListTyped, Links, List!TypeOK, List!Addresses

\* What a request may ask for.
Asks(c) ==
    /\ c.entry \in 0..MaxRequests \cup {None} /\ c.outcome \in Logs!Outcomes /\ c.date \in Dates /\ c.many \in BOOLEAN
    /\ c.op = "update" => c.entry # None
    /\ c.op = "create" => c.many \in BOOLEAN

\* An entry has the id of the request that has made it, and that makes no other.
EntriesAreNumbered ==
    /\ logsMade <= MaxRequests
    /\ rows \subseteq Logs!Entries /\ logsShown \subseteq Logs!Entries
    /\ \A e \in rows : e.id <= logsMade
    /\ \A e, f \in rows : e.id = f.id => e = f
    /\ \A c \in requests : Asks(c)
    /\ \A c \in requests : c.op = "create" /\ c.step \in {"begun", "locked", "written"} => \A e \in rows : e.id # c.id
    /\ lock \in 1..MaxRequests \cup {None}

\* The drawer and its forms.
FormTyped ==
    /\ adding \in BOOLEAN /\ logEdited \in 0..MaxRequests \cup {None} /\ choice \in Logs!Outcomes
    /\ dialog \in {"closed", "open", "closing"} /\ open \in BOOLEAN /\ event \in BOOLEAN

LEMMA LogsTypes == LogsInv /\ EntriesAreNumbered /\ FormTyped => Logs!TypeOK
BY DEF LogsInv, Logs!FlashIsFirst, Logs!ValidFlash, EntriesAreNumbered, FormTyped, Logs!TypeOK

LEMMA LogsTypesInit == Logs!Init => EntriesAreNumbered /\ FormTyped
<1> SUFFICES ASSUME Logs!Init PROVE EntriesAreNumbered /\ FormTyped
  OBVIOUS
<1>1. MaxRequests \in Nat /\ 1 \in Dates
  BY BoundsAreNumbers, FeedBounds
<1> DEFINE e == [id |-> 0, date |-> 1, logged |-> 0, outcome |-> "send", many |-> TRUE]
<1>2. e \in Logs!Entries /\ e.id = 0
  BY <1>1 DEF Logs!Entries, Logs!Outcomes
<1> HIDE DEF e
<1>3. rows \subseteq {e} /\ logsShown = rows /\ logsMade = 0 /\ requests = {} /\ lock = None
  BY DEF Logs!Init, e
<1>4. EntriesAreNumbered
  BY <1>1, <1>2, <1>3 DEF EntriesAreNumbered
<1>5. FormTyped
  BY DEF Logs!Init, FormTyped, Logs!Outcomes
<1> QED
  BY <1>4, <1>5

LEMMA FormTypesNext ==
    ASSUME EntriesAreNumbered, FormTyped, [Logs!Next]_logsVars
    PROVE  FormTyped'
<1> USE DEF FormTyped, Logs!Outcomes
<1>1. CASE UNCHANGED <<adding, logEdited, choice, dialog, open, event>>
  BY <1>1
<1>2. CASE \/ Logs!Serve \/ Logs!Elsewhere \/ Logs!SubmitLog \/ Logs!RemoveLog \/ Logs!Fail \/ Logs!Refetch
  BY <1>1, <1>2 DEF Logs!Serve, Logs!Elsewhere, Logs!SubmitLog, Logs!RemoveLog, Logs!Fail, Logs!Refetch,
     Logs!formVars, Logs!drawerVars
<1>3. CASE Logs!RequestClose \/ Logs!FinishClose
  BY <1>3 DEF Logs!RequestClose, Logs!FinishClose, Logs!formVars
<1>4. ASSUME NEW value \in BOOLEAN, Logs!SetOpen(value)
      PROVE  open' \in BOOLEAN /\ dialog' \in {"closed", "open", "closing"}
  BY <1>4 DEF Logs!SetOpen
<1>5. CASE Logs!Close
  BY <1>4, <1>5 DEF Logs!Close, Logs!formVars
<1>6. CASE Logs!LogClimb
  BY <1>4, <1>6 DEF Logs!LogClimb
<1>7. CASE Logs!Edit
  <2>1. PICK e \in logsShown : logEdited' = e.id /\ choice' = e.outcome
    BY <1>7 DEF Logs!Edit
  <2>2. e.id \in 0..MaxRequests /\ e.outcome \in Logs!Outcomes
    BY DEF EntriesAreNumbered, Logs!Entries
  <2> QED
    BY <1>7, <2>1, <2>2 DEF Logs!Edit, Logs!drawerVars
<1>8. CASE Logs!Choose
  BY <1>8 DEF Logs!Choose, Logs!drawerVars
<1>9. CASE Logs!Cancel
  BY <1>4, <1>9 DEF Logs!Cancel
<1>10. CASE Logs!Succeed
  BY <1>4, <1>10 DEF Logs!Succeed
<1>11. CASE UNCHANGED logsVars
  BY <1>1, <1>11 DEF logsVars
<1> QED
  BY <1>2, <1>3, <1>5, <1>6, <1>7, <1>8, <1>9, <1>10, <1>11 DEF Logs!Next

\* Requests that are answered, refused, or followed no more ask for what they asked for.
LEMMA EntriesStay ==
    ASSUME LogsInv, EntriesAreNumbered, UNCHANGED <<rows, logsMade>>, logsShown' \subseteq Logs!Entries,
           lock' \in 1..MaxRequests \cup {None},
           \A d \in requests' : \E c \in requests :
               SameRequest(d, c) /\ (d.step \in {"begun", "locked", "written"} => c.step \in {"begun", "locked", "written"})
    PROVE  EntriesAreNumbered'
<1>1. ASSUME NEW d \in requests' PROVE Asks(d)'
  <2>1. PICK c \in requests : SameRequest(d, c)
    OBVIOUS
  <2> QED
    BY <2>1 DEF EntriesAreNumbered, Asks, SameRequest
<1>2. ASSUME NEW d \in requests', d.op = "create", d.step \in {"begun", "locked", "written"}
      PROVE  \A e \in rows : e.id # d.id
  <2>1. PICK c \in requests : SameRequest(d, c) /\ c.step \in {"begun", "locked", "written"}
    BY <1>2
  <2> QED
    BY <1>2, <2>1 DEF EntriesAreNumbered, SameRequest
<1> QED
  BY <1>1, <1>2 DEF EntriesAreNumbered

LEMMA EntriesRequested ==
    ASSUME LogsInv, EntriesAreNumbered, UNCHANGED <<rows, lock, logsShown>>,
           NEW by, NEW op \in {"create", "update", "delete"}, NEW entry \in 0..MaxRequests \cup {None},
           NEW outcome \in Logs!Outcomes, NEW date \in Dates, NEW many \in BOOLEAN, op = "update" => entry # None,
           Logs!Request(by, op, entry, outcome, date, many)
    PROVE  EntriesAreNumbered'
<1> DEFINE new == [id |-> logsMade', by |-> by, op |-> op, entry |-> entry, outcome |-> outcome, date |-> date,
                   many |-> many, step |-> IF op = "create" /\ reset THEN "refused" ELSE "begun"]
<1>1. logsMade < MaxRequests /\ logsMade' = logsMade + 1 /\ requests' = requests \cup {new}
  BY DEF Logs!Request
<1>2. logsMade \in Nat /\ logsMade' <= MaxRequests
  BY <1>1, BoundsAreNumbers DEF LogsInv, Numbered
<1>3. Asks(new) /\ new.id = logsMade'
  BY DEF Asks
<1> HIDE DEF new
<1>4. \A e \in rows : e.id <= logsMade' /\ e.id # logsMade'
  <2>1. \A e \in rows : e.id \in Nat /\ e.id <= logsMade
    BY DEF EntriesAreNumbered, Logs!Entries
  <2> QED
    BY <1>1, <1>2, <2>1
<1>5. \A c \in requests' : Asks(c)
  BY <1>1, <1>3 DEF EntriesAreNumbered
<1>6. \A c \in requests' : c.op = "create" /\ c.step \in {"begun", "locked", "written"} => \A e \in rows : e.id # c.id
  BY <1>1, <1>3, <1>4 DEF EntriesAreNumbered
<1> QED
  BY <1>2, <1>4, <1>5, <1>6 DEF EntriesAreNumbered, Asks

\* The rows after a write.
LEMMA EntriesWritten ==
    ASSUME LogsInv, EntriesAreNumbered, NEW c \in requests, c.step = "written"
    PROVE  /\ Logs!After(c) \subseteq Logs!Entries
           /\ \A e \in Logs!After(c) : e.id <= logsMade
           /\ \A e, f \in Logs!After(c) : e.id = f.id => e = f
           /\ \A e \in Logs!After(c) : (c.op = "create" /\ e.id = c.id) \/ (\E r \in rows : r.id = e.id)
<1>1. /\ Asks(c) /\ c.id \in 1..logsMade /\ c.op \in {"create", "update", "delete"}
      /\ logsMade \in Nat /\ logsMade <= MaxRequests /\ MaxRequests \in Nat
  BY BoundsAreNumbers DEF EntriesAreNumbered, LogsInv, Numbered
<1>2. \A e \in rows : e \in Logs!Entries /\ e.id <= logsMade
  BY DEF EntriesAreNumbered
<1>3. CASE c.op = "create"
  <2>1. Logs!After(c) = rows \cup {Logs!Entry(c)}
    BY <1>3 DEF Logs!After
  <2>2. Logs!Entry(c) \in Logs!Entries /\ Logs!Entry(c).id = c.id
    <3>1. c.id \in 0..MaxRequests
      BY <1>1
    <3> QED
      BY <1>1, <3>1 DEF Logs!Entry, Logs!Entries, Asks
  <2>3. \A e \in rows : e.id # c.id
    BY <1>3 DEF EntriesAreNumbered
  <2>4. c.id <= logsMade
    BY <1>1
  <2> QED
    BY <1>2, <1>3, <2>1, <2>2, <2>3, <2>4 DEF EntriesAreNumbered
<1>4. CASE c.op = "update"
  <2> DEFINE edited(e) == IF e.id = c.entry THEN [e EXCEPT !.outcome = c.outcome, !.date = c.date] ELSE e
  <2>1. Logs!After(c) = {edited(e) : e \in rows}
    BY <1>4 DEF Logs!After
  <2>2. \A e \in rows : edited(e) \in Logs!Entries /\ edited(e).id = e.id
    BY <1>1, <1>2 DEF Logs!Entries, Asks
  <2> HIDE DEF edited
  <2> QED
    BY <1>2, <2>1, <2>2 DEF EntriesAreNumbered
<1>5. CASE c.op = "delete"
  <2>1. Logs!After(c) \subseteq rows
    BY <1>5 DEF Logs!After
  <2> QED
    BY <1>2, <2>1 DEF EntriesAreNumbered
<1> QED
  BY <1>1, <1>3, <1>4, <1>5

LEMMA EntriesServed == ASSUME LogsInv, EntriesAreNumbered, Logs!Serve PROVE EntriesAreNumbered'
<1>1. PICK c \in requests : Logs!LockUser(c) \/ Logs!Write(c) \/ Logs!Commit(c) \/ Logs!RollBack(c)
  BY DEF Logs!Serve
<1>2. UNCHANGED <<logsMade, logsShown>> /\ logsShown' \subseteq Logs!Entries
  BY DEF Logs!Serve, EntriesAreNumbered
<1>3. c.id \in 1..MaxRequests
  BY BoundsAreNumbers DEF LogsInv, Numbered, EntriesAreNumbered
<1>4. \A d, s : BecomesAt(c, d, s) => \A e \in requests' \ {d} : e \in requests /\ SameRequest(e, e)
  BY DEF BecomesAt, SameRequest
<1>5. CASE Logs!LockUser(c) \/ Logs!Write(c)
  <2>1. PICK d, s : BecomesAt(c, d, s) /\ c.step \in {"begun", "locked"}
    BY <1>2, <1>5, LogStep DEF Logs!LockUser, Logs!Write, LogsInv
  <2>2. rows' = rows /\ lock' \in 1..MaxRequests \cup {None}
    BY <1>3, <1>5 DEF Logs!LockUser, Logs!Write, Logs!serverVars, EntriesAreNumbered
  <2> QED
    BY <1>2, <1>4, <2>1, <2>2, EntriesStay DEF BecomesAt
<1>6. CASE Logs!RollBack(c)
  <2>1. requests' = requests \ {c} \/ \E d : BecomesAt(c, d, "refused")
    BY <1>2, <1>6, LogEnd DEF Logs!RollBack, LogsInv
  <2>2. rows' = rows /\ lock' \in 1..MaxRequests \cup {None}
    BY <1>6 DEF Logs!RollBack, EntriesAreNumbered
  <2>3. \A e \in requests' : e.step \in {"begun", "locked", "written"} => e \in requests
    BY <2>1 DEF BecomesAt
  <2>4. \A e \in requests' : \E b \in requests : SameRequest(e, b)
    BY <2>1 DEF BecomesAt, SameRequest
  <2> QED
    BY <1>2, <2>2, <2>3, <2>4, EntriesStay DEF SameRequest
<1>7. CASE Logs!Commit(c)
  <2>1. c.step = "written" /\ rows' = Logs!After(c) /\ lock' = None
    BY <1>7 DEF Logs!Commit
  <2>2. requests' = requests \ {c} \/ \E d : BecomesAt(c, d, "done")
    BY <1>2, <1>7, LogEnd DEF Logs!Commit, LogsInv
  <2>3. \A e \in requests' : e.step \in {"begun", "locked", "written"} => e \in requests /\ e # c
    BY <2>2 DEF BecomesAt
  <2>4. \A e \in requests' : Asks(e)'
    <3>1. \A e \in requests' : \E b \in requests : SameRequest(e, b)
      BY <2>2 DEF BecomesAt, SameRequest
    <3> QED
      BY <3>1 DEF EntriesAreNumbered, Asks, SameRequest
  <2>5. ASSUME NEW e \in requests', e.op = "create", e.step \in {"begun", "locked", "written"}
        PROVE  \A f \in rows' : f.id # e.id
    <3>1. e \in requests /\ e.id # c.id /\ \A r \in rows : r.id # e.id
      BY <2>3, <2>5 DEF LogsInv, Numbered, EntriesAreNumbered
    <3> QED
      BY <2>1, <3>1, EntriesWritten
  <2> QED
    BY <1>2, <2>1, <2>4, <2>5, EntriesWritten DEF EntriesAreNumbered
<1> QED
  BY <1>1, <1>5, <1>6, <1>7

LEMMA EntriesNext ==
    ASSUME LogsInv, EntriesAreNumbered, FormTyped, [Logs!Next]_logsVars
    PROVE  EntriesAreNumbered'
<1>1. 1 \in Dates /\ "attempt" \in Logs!Outcomes
  BY FeedBounds DEF Logs!Outcomes
<1>2. \A e \in rows \cup logsShown : e.id \in 0..MaxRequests /\ e.id # None
  BY NoneIsNoNumber DEF EntriesAreNumbered, Logs!Entries
<1>3. UNCHANGED <<rows, lock, logsMade, requests>> /\ logsShown' \subseteq Logs!Entries => EntriesAreNumbered'
  BY DEF EntriesAreNumbered, Asks
<1>4. CASE Logs!Elsewhere
  <2>1. UNCHANGED <<rows, lock, logsShown>>
    BY <1>4 DEF Logs!Elsewhere, Logs!serverVars
  <2>2. \/ \E o \in Logs!Outcomes, d \in Dates, many \in BOOLEAN : Logs!Request("other", "create", None, o, d, many)
        \/ \E i \in 0..MaxRequests, o \in Logs!Outcomes, d \in Dates :
               i # None /\ Logs!Request("other", "update", i, o, d, FALSE)
        \/ \E i \in 0..MaxRequests : Logs!Request("other", "delete", i, "attempt", 1, FALSE)
    BY <1>2, <1>4 DEF Logs!Elsewhere, Logs!Ids
  <2> QED
    BY <1>1, <2>1, <2>2, EntriesRequested
<1>5. CASE Logs!SubmitLog
  <2>1. UNCHANGED <<rows, lock, logsShown>>
    BY <1>5 DEF Logs!SubmitLog, Logs!serverVars
  <2>2. PICK d \in Dates : IF logEdited # None THEN Logs!Request("page", "update", logEdited, choice, d, FALSE)
                                               ELSE Logs!Request("page", "create", None, choice, d, FALSE)
    BY <1>5 DEF Logs!SubmitLog
  <2> QED
    BY <2>1, <2>2, EntriesRequested DEF FormTyped
<1>6. CASE Logs!RemoveLog
  <2>1. UNCHANGED <<rows, lock, logsShown>>
    BY <1>6 DEF Logs!RemoveLog, Logs!serverVars
  <2>2. PICK e \in logsShown : Logs!Request("page", "delete", e.id, "attempt", 1, FALSE)
    BY <1>6 DEF Logs!RemoveLog
  <2> QED
    BY <1>1, <1>2, <2>1, <2>2, EntriesRequested
<1>7. CASE Logs!Succeed \/ Logs!Fail
  <2>1. UNCHANGED <<rows, lock, logsMade, logsShown>>
    BY <1>7 DEF Logs!Succeed, Logs!Fail, Logs!serverVars
  <2>2. PICK c \in requests : \/ requests' = requests \ {c}
                              \/ requests' = (requests \ {c}) \cup {[c EXCEPT !.by = "other"]}
    BY <1>7 DEF Logs!Succeed, Logs!Fail
  <2> DEFINE d == [c EXCEPT !.by = "other"]
  <2>3. SameRequest(d, c) /\ d.step = c.step
    BY DEF LogsInv, Numbered, RequestFields, SameRequest
  <2> HIDE DEF d
  <2>4. \A e \in requests' : \E b \in requests : SameRequest(e, b) /\ e.step = b.step
    BY <2>2, <2>3 DEF d, SameRequest
  <2>5. logsShown' \subseteq Logs!Entries /\ lock' \in 1..MaxRequests \cup {None}
    BY <2>1 DEF EntriesAreNumbered
  <2> QED
    BY <2>1, <2>4, <2>5, EntriesStay
<1>8. CASE Logs!RequestClose \/ Logs!FinishClose \/ Logs!Close \/ Logs!LogClimb \/ Logs!Edit \/ Logs!Choose
           \/ Logs!Cancel \/ Logs!Refetch \/ UNCHANGED logsVars
  <2>1. UNCHANGED <<rows, lock, logsMade, requests>> /\ logsShown' \in {logsShown, rows}
    BY <1>8 DEF Logs!RequestClose, Logs!FinishClose, Logs!Close, Logs!LogClimb, Logs!Edit, Logs!Choose,
       Logs!Cancel, Logs!Refetch, Logs!serverVars, logsVars
  <2> QED
    BY <1>3, <2>1 DEF EntriesAreNumbered
<1> QED
  BY <1>4, <1>5, <1>6, <1>7, <1>8, EntriesServed DEF Logs!Next

\* The query cache: nobody has seen more writes than there are, and the worker finishes at
\* most one detection between a write and the next.
CacheBounded ==
    /\ enabled \in BOOLEAN /\ failed \in BOOLEAN /\ removal \in BOOLEAN
    /\ Len(log) <= MaxWrites + 1
    /\ seen <= Len(log)
    /\ flight \in Nat => flight <= Len(log)
    /\ mutation # None /\ mutation.at = 0 =>
        Len(log) < MaxWrites \/ (Len(log) = MaxWrites /\ ~Cache!Detecting(Len(log)))
    /\ cacheFailures \in 0..MaxFailures

LEMMA CacheTypes == CacheInv /\ CacheBounded => Cache!TypeOK
<1> SUFFICES ASSUME CacheInv, CacheBounded PROVE Cache!TypeOK
  OBVIOUS
<1>1. Len(log) \in Nat
  BY DEF CacheInv, CacheTyped
<1>2. seen \in 0..Len(log) /\ cacheShown \in 0..Len(log) /\ flight \in -2..Len(log)
  BY <1>1 DEF CacheInv, CacheTyped, WritesAreCounted, CacheBounded, Cache!NoFetch, Cache!Underway
<1>3. mutation = None \/ (mutation.name \in Cache!Names /\ mutation.at \in 0..Len(log))
  BY <1>1 DEF CacheInv, CacheTyped, WritesAreCounted
<1> QED
  BY <1>2, <1>3 DEF CacheInv, CacheTyped, CacheBounded, Cache!TypeOK

LEMMA CacheTypesInit == Cache!Init => CacheBounded
<1> SUFFICES ASSUME Cache!Init PROVE CacheBounded
  OBVIOUS
<1>1. MaxWrites \in Nat /\ MaxFailures \in Nat
  BY BoundsAreNumbers
<1>2. log = <<>> /\ seen = 0 /\ mutation = None /\ cacheFailures = 0 /\ flight \notin Nat
  BY FlightsDiffer DEF Cache!Init
<1>3. enabled \in BOOLEAN /\ failed \in BOOLEAN /\ removal \in BOOLEAN
  BY DEF Cache!Init
<1> QED
  BY <1>1, <1>2, <1>3 DEF CacheBounded

\* A step that writes nothing.
LEMMA CacheStill ==
    ASSUME CacheInv, CacheBounded, log' = log, cacheFailures' = cacheFailures,
           enabled' \in BOOLEAN, failed' \in BOOLEAN, removal' \in BOOLEAN,
           seen' = seen \/ (seen' \in Nat /\ seen' <= Len(log)),
           flight' = flight \/ flight' \notin Nat \/ (flight' \in Nat /\ flight' <= Len(log)),
           mutation' = None \/ mutation' = mutation \/ Len(log) < MaxWrites
    PROVE  CacheBounded'
<1>1. Len(log') = Len(log) /\ Cache!Detecting(Len(log))' = Cache!Detecting(Len(log))
  BY DEF Cache!Detecting
<1>2. mutation' # None /\ mutation'.at = 0 =>
        Len(log') < MaxWrites \/ (Len(log') = MaxWrites /\ ~Cache!Detecting(Len(log))')
  BY <1>1 DEF CacheBounded
<1> QED
  BY <1>1, <1>2 DEF CacheBounded

\* A write is made, or a detection is finished.
LEMMA CacheLonger ==
    ASSUME CacheInv, CacheBounded, NEW mark \in {"upload", "detected", "other"}, log' = Append(log, mark),
           UNCHANGED <<enabled, failed, removal, seen, flight, cacheFailures>>,
           \/ mutation # None /\ mutation.at = 0 /\ mutation' = [mutation EXCEPT !.at = Len(log) + 1]
           \/ mark = "detected" /\ mutation' = mutation /\ Cache!Detecting(Len(log)) /\ Len(log) <= MaxWrites
    PROVE  CacheBounded'
<1>1. log \in Seq({"upload", "detected", "other"}) /\ Len(log) \in Nat /\ MaxWrites \in Nat /\ seen \in Nat
  BY BoundsAreNumbers DEF CacheInv, CacheTyped
<1>2. Len(log') = Len(log) + 1 /\ log'[Len(log) + 1] = mark
  BY <1>1
<1>3. Len(log') <= MaxWrites + 1 /\ seen <= Len(log') /\ (flight \in Nat => flight <= Len(log'))
  BY <1>1, <1>2 DEF CacheBounded
<1>4. ASSUME mutation' # None, mutation'.at = 0
      PROVE  Len(log') < MaxWrites \/ (Len(log') = MaxWrites /\ ~Cache!Detecting(Len(log))')
  <2>1. mark = "detected" /\ mutation' = mutation /\ Cache!Detecting(Len(log))
    <3> SUFFICES ASSUME mutation # None, mutation' = [mutation EXCEPT !.at = Len(log) + 1] PROVE FALSE
      OBVIOUS
    <3>1. mutation'.at = Len(log) + 1
      BY DEF CacheInv, CacheTyped
    <3> QED
      BY <1>1, <1>4, <3>1
  <2>2. Len(log) < MaxWrites
    BY <1>4, <2>1 DEF CacheBounded
  <2>3. ~Cache!Detecting(Len(log))'
    <3> DEFINE n == Len(log')
               marks == {i \in 1..n : log'[i] # "other"}
               last == CHOOSE i \in marks : \A j \in marks : j <= i
    <3>1. n \in marks /\ \A j \in marks : j \in 1..n
      BY <1>1, <1>2, <2>1
    <3>2. last \in marks /\ \A j \in marks : j <= last
      <4>1. \E i \in marks : \A j \in marks : j <= i
        BY <1>1, <1>2, <3>1
      <4> HIDE DEF marks
      <4> QED
        BY <4>1
    <3>3. last = n
      <4> HIDE DEF marks, last
      <4> QED
        BY <1>1, <1>2, <3>1, <3>2
    <3>4. log'[last] = "detected"
      BY <1>2, <2>1, <3>3
    <3> QED
      BY <3>4 DEF Cache!Detecting
  <2> QED
    BY <1>1, <1>2, <2>2, <2>3
<1> QED
  BY <1>3, <1>4 DEF CacheBounded

LEMMA CacheTypesNext ==
    ASSUME CacheInv, CacheBounded, [Cache!Next]_cacheVars
    PROVE  CacheBounded'
<1>1. /\ Len(log) \in Nat /\ enabled \in BOOLEAN /\ failed \in BOOLEAN /\ removal \in BOOLEAN
      /\ Cache!Underway \notin Nat /\ Cache!NoFetch \notin Nat
  BY FlightsDiffer DEF CacheInv, CacheTyped, CacheBounded
<1>2. CASE Cache!Refetch \/ Cache!Poll \/ Cache!ToggleHolds \/ \E p \in Cache!Pages : Cache!Navigate(p)
  <2>1. flight' \in {flight, Cache!Underway} /\ enabled' \in BOOLEAN
    BY <1>1, <1>2 DEF Cache!Refetch, Cache!Poll, Cache!ToggleHolds, Cache!Navigate, Cache!Asked
  <2>2. UNCHANGED <<log, seen, failed, removal, mutation, cacheFailures>>
    BY <1>2 DEF Cache!Refetch, Cache!Poll, Cache!ToggleHolds, Cache!Navigate
  <2> QED
    BY <1>1, <2>1, <2>2, CacheStill
<1>3. CASE Cache!ServerReads
  BY <1>1, <1>3, CacheStill DEF Cache!ServerReads
<1>4. CASE Cache!Arrives
  <2>1. seen' = flight /\ flight \in Nat /\ flight' = Cache!NoFetch /\ failed' \in BOOLEAN /\ removal' \in BOOLEAN
    BY <1>4 DEF Cache!Arrives
  <2> QED
    BY <1>1, <1>4, <2>1, CacheStill DEF Cache!Arrives, CacheBounded
<1>5. CASE Cache!FetchFails
  <2>1. failed' \in BOOLEAN /\ flight' \notin Nat /\ UNCHANGED <<log, seen, enabled, removal, mutation>>
    BY <1>1, <1>5 DEF Cache!FetchFails
  <2>2. cacheFailures' \in 0..MaxFailures
    BY <1>5, BoundsAreNumbers DEF Cache!FetchFails, CacheBounded
  <2>3. Cache!Detecting(Len(log))' = Cache!Detecting(Len(log))
    BY <2>1 DEF Cache!Detecting
  <2> QED
    BY <2>1, <2>2, <2>3 DEF CacheBounded
<1>6. ASSUME NEW n \in Cache!Names, Cache!Begin(n) PROVE CacheBounded'
  <2>1. removal' \in BOOLEAN
    BY <1>6 DEF Cache!Begin
  <2> QED
    BY <1>1, <1>6, <2>1, CacheStill DEF Cache!Begin
<1>7. CASE Cache!Commit
  <2>1. PICK mark \in {"upload", "other"} : log' = Append(log, mark)
    BY <1>7 DEF Cache!Commit
  <2> QED
    BY <1>7, <2>1, CacheLonger DEF Cache!Commit
<1>8. CASE Cache!Detected
  BY <1>8, CacheLonger DEF Cache!Detected
<1>9. CASE Cache!Succeed
  <2>1. mutation # None /\ mutation' = None /\ mutation.at \in Nat /\ mutation.at <= Len(log) /\ UNCHANGED <<log, cacheFailures>>
    BY <1>9 DEF Cache!Succeed, CacheInv, CacheTyped, WritesAreCounted
  <2>2. seen' \in {seen, mutation.at} /\ failed' \in BOOLEAN /\ removal' \in BOOLEAN
    BY <1>1, <1>9 DEF Cache!Succeed
  <2>3. enabled' \in BOOLEAN
    BY <1>1, <1>9 DEF Cache!Succeed
  <2>4. flight' \in {flight, Cache!Underway, Cache!NoFetch}
    BY <1>9 DEF Cache!Succeed, Cache!Refreshed
  <2> QED
    BY <1>1, <2>1, <2>2, <2>3, <2>4, CacheStill
<1>10. CASE Cache!Fail
  <2>1. flight' \in {flight, Cache!Underway}
    BY <1>10 DEF Cache!Fail, Cache!Refreshed
  <2> QED
    BY <1>1, <1>10, <2>1, CacheStill DEF Cache!Fail
<1>11. CASE UNCHANGED cacheVars
  BY <1>1, <1>11, CacheStill DEF cacheVars
<1> QED
  BY <1>2, <1>3, <1>4, <1>5, <1>6, <1>7, <1>8, <1>9, <1>10, <1>11 DEF Cache!Next

\* The feed: no page is longer than the server's.
ShortPages(ps) == \A i \in 1..Len(ps) : Len(ps[i].items) <= Limit

FeedBounded ==
    /\ entries \subseteq [id : 1..MaxFeed, day : Dates]
    /\ touched \subseteq 1..MaxFeed
    /\ feedPages # None => ShortPages(feedPages)
    /\ feedFetch # None =>
        /\ feedFetch.touched \subseteq 1..MaxFeed
        /\ ShortPages(feedFetch.got)
        /\ feedFetch.answer # None => Len(feedFetch.answer.items) <= Limit

LEMMA FeedTypes == FeedBounded => Feed!TypeOK
BY DEF FeedBounded, ShortPages, Feed!TypeOK

LEMMA FeedTypesInit == Feed!Init => FeedBounded
<1> SUFFICES ASSUME Feed!Init PROVE FeedBounded
  OBVIOUS
<1>1. PICK days \in [1..Limit + 1 -> Dates] : entries = {[id |-> i, day |-> days[i]] : i \in 1..Limit + 1}
  BY DEF Feed!Init
<1>2. \A i \in 1..Limit + 1 : i \in 1..MaxFeed /\ days[i] \in Dates
  BY <1>1, FeedBounds
<1>3. touched = {} /\ feedPages = None /\ feedFetch = None
  BY DEF Feed!Init
<1> QED
  BY <1>1, <1>2, <1>3 DEF FeedBounded

LEMMA ShortReads ==
    ASSUME entries \subseteq FeedEntries, IsFiniteSet(entries), NEW cursor
    PROVE  Len(Feed!ReadPage(cursor).items) <= Limit
<1> DEFINE rest == {e \in entries : cursor = None \/ Feed!Before(cursor, e)}
           n == Cardinality(rest)
           row(i) == CHOOSE e \in rest : Feed!Ahead(e, rest) = i - 1
<1>1. n \in Nat /\ Limit \in Nat
  <2>1. IsFiniteSet(rest)
    BY FS_Subset
  <2> QED
    BY <2>1, FS_CardinalityType, FeedBounds
<1>2. n = Feed!Cardinality(rest)
  BY DEF Feed!Cardinality, Cardinality
<1>3. Feed!ReadPage(cursor) =
          IF n > Limit THEN [items |-> [i \in 1..Limit |-> row(i)], next |-> row(Limit)]
                       ELSE [items |-> [i \in 1..n |-> row(i)], next |-> None]
  BY <1>2 DEF Feed!ReadPage
<1> HIDE DEF row, n
<1> QED
  BY <1>1, <1>3

LEMMA FeedTypesNext ==
    ASSUME FeedInv, FeedBounded, [Feed!Next]_feedVars
    PROVE  FeedBounded'
<1>1. CASE Feed!Change
  <2>1. PICK id \in 1..MaxFeed :
            /\ entries' \in {{e \in entries : e.id # id}} \cup
                            {{e \in entries : e.id # id} \cup {[id |-> id, day |-> d]} : d \in Dates}
            /\ touched' = touched \cup {id}
            /\ feedFetch' = IF feedFetch = None THEN None ELSE [feedFetch EXCEPT !.touched = @ \cup {id}]
    BY <1>1 DEF Feed!Change
  <2>2. entries' \subseteq [id : 1..MaxFeed, day : Dates]
    BY <2>1 DEF FeedBounded
  <2>3. feedFetch' # None =>
            /\ feedFetch # None /\ feedFetch'.touched = feedFetch.touched \cup {id}
            /\ feedFetch'.got = feedFetch.got /\ feedFetch'.answer = feedFetch.answer
    BY <2>1 DEF FeedInv, FeedTyped, FeedFetches
  <2>4. UNCHANGED feedPages
    BY <1>1 DEF Feed!Change
  <2> QED
    BY <2>1, <2>2, <2>3, <2>4 DEF FeedBounded, ShortPages
<1>2. CASE Feed!FetchAll \/ Feed!LoadMore
  <2>1. PICK kind, wanted, first : Feed!StartFetch(kind, wanted, first)
    BY <1>2 DEF Feed!FetchAll, Feed!LoadMore
  <2> QED
    BY <2>1 DEF Feed!StartFetch, FeedBounded, ShortPages
<1>3. CASE Feed!ServerReads
  <2>1. Len(Feed!ReadPage(feedFetch.from).items) <= Limit
    BY ShortReads DEF FeedInv, FeedTyped
  <2>2. /\ feedFetch # None
        /\ feedFetch' = [feedFetch EXCEPT !.answer = Feed!ReadPage(feedFetch.from),
              !.touched = IF feedFetch.kind = "all" /\ feedFetch.got = <<>> THEN {} ELSE @]
        /\ UNCHANGED <<entries, feedPages, touched>>
    BY <1>3 DEF Feed!ServerReads
  <2>3. /\ feedFetch'.answer = Feed!ReadPage(feedFetch.from) /\ feedFetch'.got = feedFetch.got
        /\ feedFetch'.touched \in {{}, feedFetch.touched}
    BY <2>2 DEF FeedInv, FeedTyped, FeedFetches
  <2> QED
    BY <2>1, <2>2, <2>3 DEF FeedBounded, ShortPages
<1>4. CASE Feed!Arrives
  <2> DEFINE got == Append(feedFetch.got, feedFetch.answer)
  <2>1. /\ feedFetch # None /\ feedFetch \in FeedFetches /\ feedFetch.answer \in FeedPages /\ UNCHANGED entries
        /\ \/ /\ feedFetch' = [feedFetch EXCEPT !.got = got, !.from = feedFetch.answer.next, !.answer = None]
              /\ UNCHANGED <<feedPages, touched>>
           \/ /\ feedPages' = IF feedFetch.kind = "all" THEN got ELSE feedPages \o got
              /\ touched' = IF feedFetch.kind = "all" THEN feedFetch.touched ELSE touched
              /\ feedFetch' = None
    BY <1>4 DEF Feed!Arrives, FeedInv, FeedTyped, FeedFetches
  <2>2. got \in Seq(FeedPages) /\ ShortPages(got)
    <3>1. feedFetch.got \in Seq(FeedPages) /\ ShortPages(feedFetch.got) /\ Len(feedFetch.answer.items) <= Limit
      <4>1. feedFetch.answer # None
        BY <1>4 DEF Feed!Arrives
      <4> QED
        BY <2>1, <4>1 DEF FeedBounded, FeedFetches
    <3>2. \A i \in 1..Len(got) : got[i] = feedFetch.answer \/ (i \in 1..Len(feedFetch.got) /\ got[i] = feedFetch.got[i])
      BY <2>1, <3>1
    <3>3. got \in Seq(FeedPages)
      BY <2>1, <3>1
    <3> HIDE DEF got
    <3> QED
      BY <3>1, <3>2, <3>3 DEF ShortPages
  <2>3. feedFetch.kind # "all" => feedPages \in Seq(FeedPages) /\ ShortPages(feedPages)
    BY <2>1 DEF FeedInv, MoreIsRead, ShownIsRead, FeedBounded, FeedFetches
  <2> HIDE DEF got
  <2>4. feedFetch.kind # "all" => ShortPages(feedPages \o got)
    BY <2>2, <2>3 DEF ShortPages
  <2>5. CASE feedFetch' = [feedFetch EXCEPT !.got = got, !.from = feedFetch.answer.next, !.answer = None]
             /\ UNCHANGED <<feedPages, touched>>
    <3>1. feedFetch'.touched = feedFetch.touched /\ feedFetch'.got = got /\ feedFetch'.answer = None
      BY <2>1, <2>5 DEF FeedFetches
    <3> QED
      BY <2>1, <2>2, <2>5, <3>1 DEF FeedBounded, ShortPages
  <2>6. CASE /\ feedPages' = IF feedFetch.kind = "all" THEN got ELSE feedPages \o got
             /\ touched' = IF feedFetch.kind = "all" THEN feedFetch.touched ELSE touched
             /\ feedFetch' = None
    BY <2>1, <2>2, <2>4, <2>6 DEF FeedBounded, ShortPages
  <2> QED
    BY <2>1, <2>5, <2>6
<1>5. CASE Feed!Fails
  BY <1>5 DEF Feed!Fails, FeedBounded, ShortPages
<1>6. CASE UNCHANGED feedVars
  BY <1>6 DEF feedVars, FeedBounded, ShortPages
<1> QED
  BY <1>1, <1>2, <1>3, <1>4, <1>5, <1>6 DEF Feed!Next

\* The circuits of the wall.  Lists that have no route twice are short; and a circuit is
\* written once for each write that is not on its way.
LEMMA WholeIsShort == Whole \subseteq Circuits!Lists
<1> DEFINE n == Cardinality(WallRoutes)
<1>1. IsFiniteSet(WallRoutes) /\ n \in Nat
  BY WallRoutesAreFinite, FS_CardinalityType
<1>2. Len(Circuits!SetToSeq(WallRoutes)) = n
  <2>1. PICK f : f \in Bijection(1..n, WallRoutes)
    BY <1>1, FS_CardinalityType DEF ExistsBijection
  <2>2. f \in [1..n -> WallRoutes] /\ DOMAIN f = 1..n /\ \A a, b \in 1..n : f[a] = f[b] => a = b
    BY <2>1 DEF Bijection, Injection, IsInjective
  <2>3. \E g \in [1..n -> WallRoutes] : Circuits!IsInjective(g)
    BY <2>2 DEF Circuits!IsInjective
  <2>4. Circuits!SetToSeq(WallRoutes) \in [1..n -> WallRoutes]
    BY <2>3 DEF Circuits!SetToSeq, Circuits!Cardinality, Cardinality
  <2> HIDE DEF n
  <2> QED
    BY <1>1, <2>4
<1>3. ASSUME NEW s \in Whole PROVE Len(s) \in 0..n
  <2>1. s \in [1..Len(s) -> WallRoutes] /\ Len(s) \in Nat /\ \A a, b \in 1..Len(s) : s[a] = s[b] => a = b
    BY DEF Whole, Circuits!IsInjective
  <2>2. s \in Injection(1..Len(s), WallRoutes)
    BY <2>1 DEF Injection, IsInjective
  <2>3. Cardinality(1..Len(s)) <= n
    BY <1>1, <2>2, FS_Injection
  <2>4. Cardinality(1..Len(s)) = Len(s)
    <3> DEFINE l == Len(s)
    <3>1. l \in Int /\ (1 > l => l = 0)
      BY <2>1
    <3> HIDE DEF l
    <3>2. Cardinality(1..l) = IF 1 > l THEN 0 ELSE l - 1 + 1
      BY <3>1, FS_Interval
    <3>3. Cardinality(1..l) = l
      BY <3>1, <3>2
    <3> QED
      BY <3>3 DEF l
  <2> HIDE DEF n
  <2> QED
    BY <1>1, <2>1, <2>3, <2>4
<1> HIDE DEF n
<1>4. \A s \in Whole : \E m \in 0..n : s \in [1..m -> WallRoutes]
  <2>1. \A s \in Whole : s \in [1..Len(s) -> WallRoutes]
    BY DEF Whole
  <2> QED
    BY <1>3, <2>1
<1> QED
  BY <1>2, <1>4 DEF Circuits!Lists, Circuits!SeqOf

SentSaves == {c \in circuitCalls : c.step = "sent"}

CircuitsBounded ==
    /\ IsFiniteSet(circuitCalls)
    /\ circuitMade <= MaxOwn /\ others \in Nat /\ others + circuitFailures <= MaxMishaps
    /\ circuit.version + Cardinality(SentSaves) <= circuitMade + others
    /\ circuitShown.version <= circuit.version
    /\ fetch \in [answer : Versions \cup {None}] \cup {None}
    /\ fetch \notin {None, Circuits!Asked} => fetch.answer.version <= circuit.version
    /\ circuitPlace \in {"circuits", "climb"}

LEMMA CircuitsTypes == CircuitsInv /\ CircuitsBounded => Circuits!TypeOK
<1> SUFFICES ASSUME CircuitsInv, CircuitsBounded PROVE Circuits!TypeOK
  OBVIOUS
<1>1. /\ circuit \in Versions /\ circuitShown \in Versions /\ circuitMade \in Nat /\ circuitFailures \in Nat
      /\ MaxOwn \in Nat /\ MaxMishaps \in Nat /\ others \in Nat
  BY BoundsAreNumbers DEF CircuitsInv, ListsAreWhole, CircuitsBounded
<1>2. circuit.version \in Nat /\ circuitShown.version \in Nat /\ Cardinality(SentSaves) \in Nat
  BY <1>1, FS_Subset, FS_CardinalityType DEF Versions, CircuitsBounded, SentSaves
<1>3. circuit.version \in 0..MaxOwn + MaxMishaps /\ circuitShown.version \in 0..MaxOwn + MaxMishaps
  BY <1>1, <1>2 DEF CircuitsBounded
<1>4. \A v \in Versions : v.version <= circuit.version => v \in Circuits!Circuits
  BY <1>1, <1>2, <1>3, WholeIsShort DEF Versions, Circuits!Circuits
<1>5. circuit \in Circuits!Circuits /\ circuitShown \in Circuits!Circuits
  BY <1>1, <1>2, <1>4 DEF CircuitsBounded
<1>6. fetch \in [answer : Circuits!Circuits \cup {None}] \cup {None}
  <2>1. CASE fetch \in {None, Circuits!Asked}
    BY <2>1 DEF Circuits!Asked
  <2>2. CASE fetch \notin {None, Circuits!Asked}
    <3>1. fetch.answer \in Circuits!Circuits /\ fetch \in [answer : Versions \cup {None}]
      BY <1>4, <2>2 DEF CircuitsBounded, CircuitsInv, ListsAreWhole
    <3>2. fetch = [answer |-> fetch.answer]
      BY <3>1
    <3> QED
      BY <3>1, <3>2
  <2> QED
    BY <2>1, <2>2
<1>7. pending \in Circuits!Lists \cup {None}
  BY WholeIsShort DEF CircuitsInv, ListsAreWhole
<1> QED
  BY <1>5, <1>6, <1>7 DEF Circuits!TypeOK, CircuitsBounded

LEMMA CircuitsTypesInit == Circuits!Init => CircuitsBounded
<1> SUFFICES ASSUME Circuits!Init PROVE CircuitsBounded
  OBVIOUS
<1>1. circuitCalls = {} /\ SentSaves = {} /\ IsFiniteSet({}) /\ Cardinality({}) = 0
  BY FS_EmptySet DEF Circuits!Init, SentSaves
<1>2. circuit.version = 0 /\ circuitShown = circuit /\ fetch = Circuits!Asked /\ circuitMade = 0 /\ others = 0
      /\ circuitFailures = 0 /\ circuitPlace = "circuits"
  BY DEF Circuits!Init
<1>3. fetch \in [answer : Versions \cup {None}]
  BY <1>2 DEF Circuits!Asked
<1> QED
  BY <1>1, <1>2, <1>3, BoundsAreNumbers DEF CircuitsBounded

\* Each of a set is changed: there are no more of them.
LEMMA ChangedAreFew ==
    ASSUME NEW S, IsFiniteSet(S), NEW f, DOMAIN f = S
    PROVE  IsFiniteSet({f[x] : x \in S}) /\ Cardinality({f[x] : x \in S}) <= Cardinality(S)
<1> DEFINE T == {f[x] : x \in S}
           g == [x \in S |-> f[x]]
<1>1. g \in [S -> T] /\ \A t \in T : \E x \in S : g[x] = t
  OBVIOUS
<1> HIDE DEF T, g
<1>2. g \in Surjection(S, T)
  BY <1>1 DEF Surjection
<1> QED
  BY <1>2, FS_Surjection DEF T

\* Writes that are let go, or that their page has left.
LEMMA SavesAreKept ==
    ASSUME CircuitsInv, CircuitsBounded
    PROVE  /\ IsFiniteSet(Circuits!Released)
           /\ {c \in Circuits!Released : c.step = "sent"} = SentSaves
<1> DEFINE f == [c \in circuitCalls |-> IF c.step = "settling" THEN [c EXCEPT !.step = "settled"] ELSE c]
<1>1. Circuits!Released = {f[c] : c \in circuitCalls}
  BY DEF Circuits!Released
<1>2. \A c \in circuitCalls : f[c].step = "sent" <=> c.step = "sent"
  BY DEF CircuitsInv, ListsAreWhole, CircuitSaves
<1>3. \A c \in circuitCalls : c.step = "sent" => f[c] = c
  OBVIOUS
<1>4. DOMAIN f = circuitCalls
  OBVIOUS
<1> HIDE DEF f
<1>5. IsFiniteSet(Circuits!Released)
  BY <1>1, <1>4, ChangedAreFew DEF CircuitsBounded
<1> QED
  BY <1>1, <1>2, <1>3, <1>5 DEF SentSaves

LEMMA SavesAreLeft ==
    ASSUME CircuitsInv, CircuitsBounded, circuitCalls' = {[c EXCEPT !.mounted = FALSE] : c \in circuitCalls}
    PROVE  IsFiniteSet(circuitCalls') /\ Cardinality(SentSaves') <= Cardinality(SentSaves)
<1> DEFINE f == [c \in circuitCalls |-> [c EXCEPT !.mounted = FALSE]]
           g == [c \in SentSaves |-> [c EXCEPT !.mounted = FALSE]]
<1>1. circuitCalls' = {f[c] : c \in circuitCalls}
  OBVIOUS
<1>2. \A c \in circuitCalls : f[c].step = c.step /\ (c \in SentSaves => f[c] = g[c])
  BY DEF CircuitsInv, ListsAreWhole, CircuitSaves
<1>3. DOMAIN f = circuitCalls /\ DOMAIN g = SentSaves
  OBVIOUS
<1> HIDE DEF f, g
<1>4. SentSaves' = {g[c] : c \in SentSaves}
  BY <1>1, <1>2 DEF SentSaves
<1>5. IsFiniteSet(SentSaves)
  BY FS_Subset DEF CircuitsBounded, SentSaves
<1> QED
  BY <1>1, <1>3, <1>4, <1>5, ChangedAreFew DEF CircuitsBounded

LEMMA CircuitsTypesNext ==
    ASSUME CircuitsInv, CircuitsBounded, [Circuits!Next]_circuitsVars
    PROVE  CircuitsBounded'
<1>1. /\ circuit \in Versions /\ circuitShown \in Versions /\ circuitMade \in Nat /\ circuitFailures \in Nat
      /\ others \in Nat /\ MaxOwn \in Nat /\ MaxMishaps \in Nat /\ circuit.version \in Nat
      /\ IsFiniteSet(circuitCalls)
  BY BoundsAreNumbers DEF CircuitsInv, ListsAreWhole, CircuitsBounded, Versions
<1>2. IsFiniteSet(SentSaves) /\ Cardinality(SentSaves) \in Nat /\ SentSaves \subseteq circuitCalls
  BY <1>1, FS_Subset, FS_CardinalityType DEF SentSaves
<1>3. Circuits!Asked' = Circuits!Asked /\ Circuits!Asked \in [answer : Versions \cup {None}] /\ Versions' = Versions
  BY DEF Circuits!Asked, Versions, Whole
<1>4. \A S : S \subseteq SentSaves => IsFiniteSet(S) /\ Cardinality(S) \in Nat /\ Cardinality(S) <= Cardinality(SentSaves)
  BY <1>2, FS_Subset, FS_CardinalityType
\* Nothing is written.
<1>5. ASSUME circuit' = circuit, circuitMade' = circuitMade, others' = others,
             circuitFailures' = circuitFailures \/ (others + circuitFailures < MaxMishaps /\ circuitFailures' = circuitFailures + 1),
             IsFiniteSet(circuitCalls'), Cardinality(SentSaves') <= Cardinality(SentSaves),
             circuitShown' = circuitShown \/ (fetch \notin {None, Circuits!Asked} /\ circuitShown' = fetch.answer),
             fetch' \in {fetch, None, Circuits!Asked} \/ fetch' = [answer |-> circuit],
             circuitPlace' \in {"circuits", "climb"}
      PROVE  CircuitsBounded'
  <2>1. Cardinality(SentSaves') \in Nat
    BY <1>5, FS_Subset, FS_CardinalityType DEF SentSaves
  <2>2. others' \in Nat /\ others' + circuitFailures' <= MaxMishaps /\ circuitMade' <= MaxOwn
        /\ circuit'.version + Cardinality(SentSaves') <= circuitMade' + others'
    BY <1>1, <1>2, <1>5, <2>1 DEF CircuitsBounded
  <2>3. circuitShown'.version <= circuit'.version
    BY <1>5 DEF CircuitsBounded
  <2>4. fetch' \in [answer : Versions \cup {None}] \cup {None}
    BY <1>1, <1>3, <1>5 DEF CircuitsBounded
  <2>5. fetch' \notin {None, Circuits!Asked} => fetch'.answer.version <= circuit'.version
    BY <1>1, <1>5 DEF CircuitsBounded
  <2> QED
    BY <1>3, <1>5, <2>2, <2>3, <2>4, <2>5 DEF CircuitsBounded
<1>6. CASE Circuits!Focus \/ Circuits!ServerReads \/ UNCHANGED circuitsVars
  <2>1. UNCHANGED <<circuit, circuitShown, circuitCalls, circuitMade, others, circuitFailures, circuitPlace>>
    BY <1>6 DEF Circuits!Focus, Circuits!ServerReads, Circuits!pageVars, circuitsVars
  <2>2. fetch' \in {fetch, None, Circuits!Asked} \/ fetch' = [answer |-> circuit]
    BY <1>6 DEF Circuits!Focus, Circuits!Refresh, Circuits!ServerReads, circuitsVars
  <2>3. SentSaves' = SentSaves
    BY <2>1 DEF SentSaves
  <2> QED
    BY <1>1, <1>2, <1>5, <2>1, <2>2, <2>3 DEF CircuitsBounded
<1>7. CASE Circuits!Arrives \/ Circuits!FetchFails
  <2>1. circuitCalls' = Circuits!Released /\ fetch' = None
    BY <1>7 DEF Circuits!Arrives, Circuits!FetchFails
  <2>2. IsFiniteSet(circuitCalls') /\ SentSaves' = SentSaves
    BY <2>1, SavesAreKept DEF SentSaves
  <2>3. circuit' = circuit /\ circuitMade' = circuitMade /\ others' = others /\ circuitPlace' = circuitPlace
    BY <1>7 DEF Circuits!Arrives, Circuits!FetchFails, Circuits!pageVars
  <2> QED
    BY <1>1, <1>2, <1>5, <1>7, <2>1, <2>2, <2>3 DEF Circuits!Arrives, Circuits!FetchFails, CircuitsBounded
<1>8. ASSUME NEW op, NEW routes, Circuits!Write(op, routes),
             UNCHANGED <<circuit, circuitShown, fetch, others, circuitFailures, circuitPlace>>
      PROVE  CircuitsBounded'
  <2>1. PICK new : circuitCalls' = circuitCalls \cup {new}
    BY <1>8 DEF Circuits!Write
  <2>2. circuitMade' = circuitMade + 1 /\ circuitMade < MaxOwn
    BY <1>8 DEF Circuits!Write
  <2>3. IsFiniteSet(circuitCalls')
    BY <1>1, <2>1, FS_AddElement
  <2>4. Cardinality(SentSaves') <= Cardinality(SentSaves) + 1 /\ Cardinality(SentSaves') \in Nat
    <3>1. SentSaves' \subseteq SentSaves \cup {new}
      BY <2>1 DEF SentSaves
    <3>2. IsFiniteSet(SentSaves \cup {new}) /\ Cardinality(SentSaves \cup {new}) \in {Cardinality(SentSaves), Cardinality(SentSaves) + 1}
      BY <1>2, FS_AddElement
    <3>3. IsFiniteSet(SentSaves') /\ Cardinality(SentSaves') <= Cardinality(SentSaves \cup {new})
      BY <3>1, <3>2, FS_Subset
    <3> QED
      BY <1>2, <3>2, <3>3, FS_CardinalityType
  <2>5. circuit.version + Cardinality(SentSaves') <= circuitMade' + others
    BY <1>1, <1>2, <2>2, <2>4 DEF CircuitsBounded
  <2> QED
    BY <1>1, <1>3, <1>8, <2>2, <2>3, <2>5 DEF CircuitsBounded
<1>9. CASE Circuits!Move \/ Circuits!RemoveRoute \/ Circuits!AddRoute
  <2>1. PICK next : Circuits!PersistRoutes(next)
    BY <1>9 DEF Circuits!Move, Circuits!RemoveRoute, Circuits!AddRoute
  <2> QED
    BY <1>8, <2>1 DEF Circuits!PersistRoutes
<1>10. CASE Circuits!SaveCircuit \/ Circuits!Toggle
  BY <1>8, <1>10 DEF Circuits!SaveCircuit, Circuits!Toggle, Circuits!pageVars
<1>11. CASE Circuits!Navigate
  <2>1. circuitCalls' = {[c EXCEPT !.mounted = FALSE] : c \in circuitCalls} /\ circuitPlace' \in {"circuits", "climb"}
        /\ fetch' \in {fetch, Circuits!Asked}
        /\ UNCHANGED <<circuit, circuitShown, circuitMade, others, circuitFailures>>
    BY <1>11 DEF Circuits!Navigate, Circuits!Refresh
  <2> QED
    BY <1>5, <2>1, SavesAreLeft
<1>12. CASE Circuits!Serve
  <2>1. PICK c \in SentSaves :
            /\ circuit' = [routes |-> Circuits!Written(c.op, c.routes), version |-> circuit.version + 1]
            /\ circuitCalls' = (circuitCalls \ {c}) \cup {[c EXCEPT !.step = "done", !.version = circuit'.version]}
            /\ UNCHANGED <<circuitShown, fetch, circuitMade, others, circuitFailures, circuitPlace>>
    BY <1>12 DEF Circuits!Serve, Circuits!pageVars, SentSaves
  <2>2. circuit'.version = circuit.version + 1
    BY <2>1
  <2>3. [c EXCEPT !.step = "done", !.version = circuit'.version].step = "done"
    BY <1>2 DEF CircuitsInv, ListsAreWhole, CircuitSaves
  <2>4. SentSaves' = SentSaves \ {c}
    BY <2>1, <2>3 DEF SentSaves
  <2>5. Cardinality(SentSaves') = Cardinality(SentSaves) - 1
    BY <1>2, <2>4, FS_RemoveElement
  <2>6. IsFiniteSet(circuitCalls')
    BY <1>1, <2>1, FS_RemoveElement, FS_AddElement
  <2>7. \A v \in Nat : v <= circuit.version => v <= circuit'.version
    BY <1>1, <2>2
  <2>8. circuitShown.version \in Nat /\ (fetch \notin {None, Circuits!Asked} => fetch.answer.version \in Nat)
    BY <1>1 DEF Versions, CircuitsInv, ListsAreWhole
  <2>9. circuit'.version + Cardinality(SentSaves') <= circuitMade + others
    BY <1>1, <1>2, <2>2, <2>5 DEF CircuitsBounded
  <2> QED
    BY <1>3, <2>1, <2>6, <2>7, <2>8, <2>9 DEF CircuitsBounded
<1>13. CASE Circuits!Elsewhere
  <2>1. /\ others + circuitFailures < MaxMishaps /\ others' = others + 1 /\ circuit'.version = circuit.version + 1
        /\ UNCHANGED <<circuitShown, fetch, circuitCalls, circuitMade, circuitFailures, circuitPlace>>
    BY <1>13 DEF Circuits!Elsewhere, Circuits!pageVars
  <2>2. SentSaves' = SentSaves
    BY <2>1 DEF SentSaves
  <2>3. circuitShown.version \in Nat /\ (fetch \notin {None, Circuits!Asked} => fetch.answer.version \in Nat)
    BY <1>1 DEF Versions, CircuitsInv, ListsAreWhole
  <2>4. \A v \in Nat : v <= circuit.version => v <= circuit'.version
    BY <1>1, <2>1
  <2>5. others' \in Nat /\ others' + circuitFailures <= MaxMishaps
        /\ circuit'.version + Cardinality(SentSaves') <= circuitMade + others'
    BY <1>1, <1>2, <2>1, <2>2 DEF CircuitsBounded
  <2> QED
    BY <1>1, <1>3, <2>1, <2>3, <2>4, <2>5 DEF CircuitsBounded
<1>14. CASE Circuits!Succeed
  <2>1. PICK c \in circuitCalls :
            /\ c.step = "done" /\ fetch' = Circuits!Asked
            /\ circuitCalls' = (Circuits!Released \ {c}) \cup {[c EXCEPT !.step = "settling"]}
            /\ UNCHANGED <<circuit, circuitShown, circuitMade, others, circuitFailures, circuitPlace>>
    BY <1>14 DEF Circuits!Succeed, Circuits!pageVars
  <2>2. [c EXCEPT !.step = "settling"].step = "settling"
    BY DEF CircuitsInv, ListsAreWhole, CircuitSaves
  <2>3. SentSaves' \subseteq SentSaves
    BY <2>1, <2>2, SavesAreKept DEF SentSaves
  <2>4. IsFiniteSet(circuitCalls')
    BY <2>1, SavesAreKept, FS_RemoveElement, FS_AddElement
  <2>5. circuitPlace' \in {"circuits", "climb"}
    BY <2>1 DEF CircuitsBounded
  <2> QED
    BY <1>4, <1>5, <2>1, <2>3, <2>4, <2>5
<1>15. CASE Circuits!Settle \/ Circuits!Fail \/ Circuits!LoseAnswer
  <2>1. \E c : circuitCalls' = circuitCalls \ {c}
    BY <1>15 DEF Circuits!Settle, Circuits!Fail, Circuits!LoseAnswer, Circuits!AfterWrite
  <2>2. SentSaves' \subseteq SentSaves /\ IsFiniteSet(circuitCalls')
    BY <1>1, <2>1, FS_RemoveElement DEF SentSaves
  <2>3. UNCHANGED <<circuit, circuitShown, fetch, circuitMade, others, circuitPlace>>
    BY <1>15 DEF Circuits!Settle, Circuits!Fail, Circuits!LoseAnswer
  <2>4. circuitFailures' = circuitFailures \/ (others + circuitFailures < MaxMishaps /\ circuitFailures' = circuitFailures + 1)
    BY <1>15 DEF Circuits!Settle, Circuits!Fail, Circuits!LoseAnswer
  <2>5. circuitPlace' \in {"circuits", "climb"}
    BY <2>3 DEF CircuitsBounded
  <2> QED
    BY <1>4, <1>5, <2>2, <2>3, <2>4, <2>5
<1> QED
  BY <1>6, <1>7, <1>9, <1>10, <1>11, <1>12, <1>13, <1>14, <1>15 DEF Circuits!Next

=============================================================================
