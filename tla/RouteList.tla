------------------------------ MODULE RouteList ------------------------------
(***************************************************************************)
(* The filters of a wall's list of climbs (web/src/pages/RouteList.tsx,    *)
(* lib/routeFilters.ts).  They live in the address; the list remembers     *)
(* them in sessionStorage for the next visit, and corrects an address      *)
(* that is not canonical or names a circuit or holds that are gone.        *)
(*                                                                         *)
(* The effects of a render, and the buttons of the screen it drew, all     *)
(* start from the address of that render, and each replaces the whole      *)
(* address: the last one wins.  Tags, progress, stars and beta are one     *)
(* choice, "other"; values the list does not know are "junk".  The order   *)
(* of the climbs is in the address too, but nothing corrects it: what it   *)
(* does to the list is modelled, not how it is kept.                       *)
(***************************************************************************)
EXTENDS Integers, FiniteSets, Sequences, SequencesExt, Arrays

CONSTANTS
    Hold, Circuit,
    Links,    \* the addresses by which the list is visited
    MaxGrade, \* grades are ranks, 1..MaxGrade; 0 is a climb without one
    Routes,   \* the climbs of the wall, newest first: their id, grade, holds and whether "other" fits
    Order,    \* the ids of the climbs of each circuit, in its order
    MaxSteps, \* bounds the taps, visits and changes of the data
    None

Grades == 1..MaxGrade

Sorts == {"newest", "grade_asc", "grade_desc"}

NoFilters == [holds |-> {}, circuit |-> None, min |-> 0, max |-> 0, other |-> FALSE, junk |-> FALSE]

Addresses == [holds : SUBSET Hold, circuit : Circuit \cup {None}, min : 0..MaxGrade, max : 0..MaxGrade,
              other : BOOLEAN, junk : BOOLEAN]

VARIABLES
    mounted,
    address,  \* of the page
    shown,    \* searchParams of the last render
    stored,   \* what sessionStorage holds for the wall
    restored, \* restoredWallIdsRef has the wall
    stale,    \* the data has changed since the last render
    holds,    \* the holds the page has loaded
    circuits, \* the circuits it has loaded
    loaded,   \* circuitsLoaded
    overtaken,\* history: a tap came between an effect and the render of its address
    steps

vars == <<mounted, address, shown, stored, restored, stale, holds, circuits, loaded, overtaken, steps>>

-----------------------------------------------------------------------------
(* Reading and writing addresses.                                          *)

ParseAsGiven(a) == [a EXCEPT !.junk = FALSE]                           \* mutant

\* parseRouteFilters: unknown values are dropped, and an upper grade below the lower one.
Parse(a) == [a EXCEPT !.junk = FALSE, !.max = IF a.min # 0 /\ a.min > @ THEN 0 ELSE @]

HasParams(a) == a # NoFilters

-----------------------------------------------------------------------------
(* The climbs an address shows.                                            *)

\* A climb without a grade is in no range that has a bound.
IsWithinRange(grade, min, max) ==
    \/ min = 0 /\ max = 0
    \/ grade # 0 /\ min <= grade /\ (max = 0 \/ grade <= max)

\* The holds of the filter are all the climb's.
Matches(route, f) ==
    /\ IsWithinRange(route.grade, f.min, f.max)
    /\ f.holds \subseteq route.holds
    /\ f.other => route.other

HasGradeFilters(f) == f.other \/ f.circuit # None \/ f.min # 0 \/ f.max # 0  \* mutant

HasFilters(f) == f.holds # {} \/ f.min # 0 \/ f.max # 0 \/ f.circuit # None \/ f.other

\* A circuit may name climbs that are not on the wall.
ApplyCircuit(routes, ids) ==
    LET byId(id) == CHOOSE r \in Range(routes) : r.id = id
        found == Kept(ids, {i \in DOMAIN ids : \E r \in Range(routes) : r.id = ids[i]})
    IN  [n \in DOMAIN found |-> byId(found[n])]

SortBackwards(routes, sort) == IF sort = "newest" THEN routes ELSE Reverse(routes)  \* mutant

\* By grade, those without one last and those of one grade as they were.
SortRoutes(routes, sort) ==
    LET Before(i, j) ==
            LET x == routes[i].grade  y == routes[j].grade
            IN  IF x = y THEN i < j
                ELSE y = 0 \/ (x # 0 /\ IF sort = "grade_asc" THEN x < y ELSE y < x)
        places == Arranged(DOMAIN routes, [j \in DOMAIN routes |-> {i \in DOMAIN routes : Before(i, j)}])
    IN  IF sort = "newest" THEN routes ELSE [i \in DOMAIN places |-> routes[places[i]]]

Shown(f, sort) ==
    LET climbs == IF f.circuit \in circuits THEN ApplyCircuit(Routes, Order[f.circuit]) ELSE Routes
    IN  SortRoutes(Kept(climbs, {i \in DOMAIN climbs : Matches(climbs[i], f)}), sort)

Init ==
    /\ mounted = FALSE
    /\ address = NoFilters /\ shown = NoFilters
    /\ stored = NoFilters
    /\ restored = FALSE /\ stale = FALSE
    /\ holds = {} /\ circuits \in SUBSET Circuit /\ loaded \in BOOLEAN
    /\ overtaken = FALSE /\ steps = 0

Bounded == steps < MaxSteps /\ steps' = steps + 1                       \* bound

-----------------------------------------------------------------------------
(* The effects of a render.                                                *)

\* An effect sets the address (<<address>>) or leaves it (<<>>).
RestoreEachTime ==                                                     \* mutant
    IF ~HasParams(address) /\ HasParams(stored) THEN <<stored>> ELSE <<>>

Restore == IF ~restored /\ ~HasParams(address) /\ HasParams(stored) THEN <<stored>> ELSE <<>>

Canonicalise == IF Parse(address) # address THEN <<Parse(address)>> ELSE <<>>

DropCircuit ==
    IF loaded /\ Parse(address).circuit \notin circuits \cup {None}
    THEN <<[Parse(address) EXCEPT !.circuit = None]>> ELSE <<>>

PruneLater == IF stale THEN <<[Parse(address) EXCEPT !.holds = @ \cap holds]>> ELSE <<>>  \* mutant

PruneHolds ==
    IF holds # {} /\ ~(Parse(address).holds \subseteq holds)
    THEN <<[Parse(address) EXCEPT !.holds = @ \cap holds]>> ELSE <<>>

SaveAlways == Parse(address)                                           \* mutant

\* The render that restores the filters does not store its own.
SaveState == IF Restore # <<>> THEN stored ELSE Parse(address)

Render ==
    /\ mounted /\ (shown # address \/ stale \/ ~restored)
    /\ shown' = address
    /\ LET set == Restore \o Canonicalise \o DropCircuit \o PruneHolds
       IN  address' = IF set = <<>> THEN address ELSE Last(set)
    /\ stored' = IF shown # address \/ ~restored THEN SaveState ELSE stored
    /\ restored' = TRUE /\ stale' = FALSE
    /\ overtaken' = (overtaken /\ shown = address /\ restored)
    /\ UNCHANGED <<mounted, holds, circuits, loaded, steps>>

-----------------------------------------------------------------------------
(* Taps, on what the last render drew.                                     *)

Tap(filters) ==
    /\ mounted /\ restored /\ Bounded
    /\ address' = filters
    /\ overtaken' = (overtaken \/ shown # address)
    /\ UNCHANGED <<mounted, shown, stored, restored, stale, holds, circuits, loaded>>

ToggleHold(h) ==
    /\ h \in holds
    /\ Tap([Parse(shown) EXCEPT !.holds = IF h \in @ THEN @ \ {h} ELSE @ \cup {h}])

UpdateCircuit(c) ==
    /\ c \in circuits \cup {None}
    /\ Tap([Parse(shown) EXCEPT !.circuit = c])

ClearHolds == Tap([Parse(shown) EXCEPT !.holds = {}])

AnyGrade == Tap([Parse(shown) EXCEPT !.min = 0, !.max = 0])

ToggleOther == Tap([Parse(shown) EXCEPT !.other = ~@])

\* One grade, then another for a range, then one again.
SelectGrade(g) ==
    LET f == Parse(shown)
        ends == {f.min, f.max} \ {0}
        range == IF Cardinality(ends) = 1 THEN ends \cup {g} ELSE {g}
    IN  Tap([f EXCEPT !.min = Min(range), !.max = Max(range)])

ClearFilters == Tap(NoFilters)

-----------------------------------------------------------------------------
(* Visits, and data that arrives.                                          *)

\* By a plain link, or by one with filters, of the program or from elsewhere.
Visit(a) ==
    /\ ~mounted /\ Bounded
    /\ mounted' = TRUE
    /\ address' = a /\ shown' = a
    /\ restored' = FALSE /\ overtaken' = FALSE
    /\ UNCHANGED <<stored, stale, holds, circuits, loaded>>

Leave ==
    /\ mounted
    /\ mounted' = FALSE /\ stale' = FALSE
    /\ UNCHANGED <<address, shown, stored, restored, holds, circuits, loaded, overtaken, steps>>

HoldsArrive(H) ==
    /\ H # holds /\ Bounded
    /\ holds' = H /\ stale' = mounted
    /\ UNCHANGED <<mounted, address, shown, stored, restored, circuits, loaded, overtaken>>

CircuitsArrive(C) ==
    /\ (C # circuits \/ ~loaded) /\ Bounded
    /\ circuits' = C /\ loaded' = TRUE /\ stale' = mounted
    /\ UNCHANGED <<mounted, address, shown, stored, restored, holds, overtaken>>

Next ==
    \/ Render
    \/ \E h \in Hold : ToggleHold(h)
    \/ \E c \in Circuit \cup {None} : UpdateCircuit(c)
    \/ \E g \in Grades : SelectGrade(g)
    \/ ClearHolds \/ AnyGrade \/ ToggleOther \/ ClearFilters
    \/ \E a \in Links : Visit(a)
    \/ Leave
    \/ \E H \in SUBSET Hold : HoldsArrive(H)
    \/ \E C \in SUBSET Circuit : CircuitsArrive(C)

\* React renders what has changed.
Spec == Init /\ [][Next]_vars /\ WF_vars(Render)

-----------------------------------------------------------------------------
(* Properties.                                                             *)

TypeOK ==
    /\ {address, shown, stored} \subseteq Addresses
    /\ {mounted, restored, stale, loaded, overtaken} \subseteq BOOLEAN
    /\ holds \subseteq Hold /\ circuits \subseteq Circuit /\ steps \in 0..MaxSteps

AtRest == mounted /\ restored /\ shown = address /\ ~stale /\ ~overtaken

\* Once the effects have settled, the address is canonical, names no circuit or hold that
\* is gone, and is what the next visit will restore: no effect undoes another's correction.
SettledIsCanonical ==
    AtRest =>
        /\ Parse(address) = address
        /\ loaded => address.circuit \in circuits \cup {None}
        /\ holds # {} => address.holds \subseteq holds
        /\ stored = address

\* A grade range has its bounds in order: taps pick the lower and the upper grade
\* whatever their order (selectGrade, gradeBound).
RangeIsInOrder == AtRest /\ address.min # 0 /\ address.max # 0 => address.min <= address.max

\* A list that shows no climb of a wall that has some says so, and offers to clear the
\* filters: the condition of that message and the filters are written apart (hasRouteFilters).
EmptyListCanBeCleared ==
    mounted /\ (\A sort \in Sorts : Shown(Parse(shown), sort) = <<>>) => HasFilters(Parse(shown))

\* Each order shows the climbs of the others, those with a grade first, in the direction
\* that is asked for; climbs of one grade stay newest first, or in the circuit's order.
ListIsInOrder ==
    LET place(r, list) == CHOOSE i \in DOMAIN list : list[i] = r
        plain == Shown(Parse(shown), "newest")
    IN  mounted => \A sort \in Sorts \ {"newest"} :
            LET list == Shown(Parse(shown), sort)
            IN  /\ Len(list) = Len(plain) /\ ToSet(list) = ToSet(plain)
                /\ \A i, j \in DOMAIN list : i < j =>
                    /\ list[i].grade = 0 => list[j].grade = 0
                    /\ list[j].grade # 0 =>
                           IF sort = "grade_asc" THEN list[i].grade <= list[j].grade
                                                 ELSE list[j].grade <= list[i].grade
                    /\ list[i].grade = list[j].grade => place(list[i], plain) < place(list[j], plain)

\* A plain visit does not forget the filters it is about to restore (skipSaveWallIdRef).
VisitKeepsStored ==
    [][~restored /\ ~HasParams(address) => stored' = stored]_vars

\* The effects come to rest: they do not correct each other for ever.
EffectsSettle == []<>(~mounted \/ AtRest \/ overtaken)

=============================================================================
