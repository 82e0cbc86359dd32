--------------------------- MODULE Circuits_proofs ---------------------------
(***************************************************************************)
(* Proofs about the ordered routes of a circuit, for any routes, any limit *)
(* and any history of requests.                                            *)
(***************************************************************************)
EXTENDS Circuits, FiniteSetTheorems, WellFoundedInduction, SequenceTheorems, TLAPS

-----------------------------------------------------------------------------
(* The inductive invariant.                                                *)

Places == [hiddenBefore : Nat, visibleBefore : Nat]

Replacements ==
    [step : {"listed", "checked", "shifted", "deleted"}, ids : RouteLists,
     hidden : UNION {[S -> Places] : S \in SUBSET Routes}, rows : [Routes -> Nat \cup {None}]]

Typed ==
    /\ status \in [Routes -> {"published", "draft", "gone"}]
    /\ position \in [Routes -> Nat \cup {None}]
    /\ tx # None => tx \in Replacements /\ DOMAIN tx.hidden \cap Listed(tx.ids) = {}

\* The counts of the hidden routes put them in one order.
InOrder(hidden) ==
    \A g, h \in DOMAIN hidden :
        /\ hidden[h].hiddenBefore =
               Cardinality({x \in DOMAIN hidden : hidden[x].hiddenBefore < hidden[h].hiddenBefore})
        /\ g # h => hidden[g].hiddenBefore # hidden[h].hiddenBefore
        /\ hidden[g].hiddenBefore < hidden[h].hiddenBefore => hidden[g].visibleBefore <= hidden[h].visibleBefore

\* It is the order of those rows that are still there.
AsPlaced(hidden) ==
    \A g, h \in DOMAIN hidden :
        position[g] # None /\ position[h] # None /\ position[g] < position[h]
            => hidden[g].hiddenBefore < hidden[h].hiddenBefore

\* From the shift on, the rows are the committed ones, moved out of the way.
RowsAreShifted ==
    RowsLocked => \A r \in Routes : tx.rows[r] # None => position[r] # None /\ tx.rows[r] = position[r] + Offset

CircuitInv ==
    /\ Typed /\ PlacesDiffer /\ RowsAreShifted
    /\ tx # None => InOrder(tx.hidden) /\ AsPlaced(tx.hidden)

-----------------------------------------------------------------------------
(* Lists of routes.                                                        *)

LEMMA ListFacts ==
    ASSUME NEW ids \in RouteLists
    PROVE  /\ Len(ids) \in Nat /\ DOMAIN ids = 1..Len(ids) /\ ids \in [1..Len(ids) -> Routes]
           /\ \A i, j \in 1..Len(ids) : ids[i] = ids[j] => i = j
           /\ Listed(ids) \subseteq Routes
           /\ \A r \in Listed(ids) : Index(ids, r) \in 1..Len(ids) /\ ids[Index(ids, r)] = r
           /\ \A i \in 1..Len(ids) : ids[i] \in Listed(ids) /\ Index(ids, ids[i]) = i
<1>1. PICK n \in Nat : ids \in [1..n -> Routes]
  BY ConstantsOK DEF RouteLists
<1>2. ids \in Seq(Routes) /\ Len(ids) = n /\ DOMAIN ids = 1..n
  BY <1>1
<1>3. \A i, j \in 1..n : ids[i] = ids[j] => i = j
  BY <1>2 DEF RouteLists
<1>4. Listed(ids) \subseteq Routes
  BY <1>1, <1>2 DEF Listed
<1>5. \A r \in Listed(ids) : \E i \in DOMAIN ids : ids[i] = r
  BY DEF Listed
<1>6. \A r \in Listed(ids) : Index(ids, r) \in DOMAIN ids /\ ids[Index(ids, r)] = r
  BY <1>5 DEF Index
<1>7. \A i \in 1..n : ids[i] \in Listed(ids)
  BY <1>2 DEF Listed
<1>8. \A i \in 1..n : Index(ids, ids[i]) = i
  BY <1>2, <1>3, <1>6, <1>7
<1> QED
  BY <1>1, <1>2, <1>3, <1>4, <1>6, <1>7, <1>8

\* A finite set of integers has a greatest element.
LEMMA GreatestExists ==
    ASSUME NEW S \in SUBSET Int, IsFiniteSet(S), S # {}
    PROVE  Max(S) \in S /\ \A y \in S : y <= Max(S)
<1> DEFINE Above(x) == {y \in S : y > x}
           T == {Above(x) : x \in S}
<1>1. T \subseteq FiniteSubsetsOf(S) /\ T # {}
  <2>1. \A x \in S : Above(x) \in SUBSET S /\ IsFiniteSet(Above(x))
    BY FS_Subset
  <2> QED
    BY <2>1 DEF FiniteSubsetsOf
<1>2. IsWellFoundedOn(StrictSubsetOrdering(S), FiniteSubsetsOf(S))
  BY FS_StrictSubsetOrderingWellFounded
<1> HIDE DEF T
<1>3. PICK U \in T : \A V \in T : <<V, U>> \notin StrictSubsetOrdering(S)
  BY <1>1, <1>2, WFMin
<1> USE DEF T
<1>4. PICK x \in S : U = Above(x)
  OBVIOUS
<1>5. \A y \in S : y <= x
  <2> SUFFICES ASSUME NEW y \in S, ~(y <= x) PROVE FALSE
    OBVIOUS
  <2>0. S \subseteq Int /\ x \in Int /\ y \in Int /\ x < y
    OBVIOUS
  <2>1. y \in Above(x)
    BY <2>0
  <2>2. y \notin Above(y)
    BY <2>0
  <2>3. ASSUME NEW z \in Above(y) PROVE z \in Above(x)
    <3>1. z \in S /\ z > y
      OBVIOUS
    <3> QED
      BY <2>0, <3>1
  <2>4. Above(y) \subseteq Above(x) /\ Above(y) # Above(x)
    BY <2>1, <2>2, <2>3
  <2>5. Above(x) \subseteq S
    OBVIOUS
  <2> HIDE DEF Above, T
  <2>6. <<Above(y), Above(x)>> \in StrictSubsetOrdering(S)
    BY <2>4, <2>5 DEF StrictSubsetOrdering
  <2> USE DEF T
  <2> QED
    BY <1>3, <1>4, <2>6
<1>6. \E z \in S : \A y \in S : z >= y
  BY <1>5
<1> QED
  BY <1>6 DEF Max

-----------------------------------------------------------------------------
(* The merge.                                                              *)

\* A replacement is under way, and its hidden routes are in order.
Merging ==
    /\ tx \in Replacements /\ DOMAIN tx.hidden \cap Listed(tx.ids) = {}
    /\ InOrder(tx.hidden)

Before(i) == {h \in DOMAIN tx.hidden : tx.hidden[h].visibleBefore < i}

Earlier(h) == {x \in DOMAIN tx.hidden : tx.hidden[x].hiddenBefore < tx.hidden[h].hiddenBefore}

LEMMA HiddenFacts ==
    ASSUME Merging
    PROVE  /\ tx.ids \in RouteLists
           /\ DOMAIN tx.hidden \subseteq Routes
           /\ \A h \in DOMAIN tx.hidden : tx.hidden[h].hiddenBefore \in Nat /\ tx.hidden[h].visibleBefore \in Nat
           /\ IsFiniteSet(DOMAIN tx.hidden) /\ Cardinality(DOMAIN tx.hidden) \in Nat
<1>1. tx.ids \in RouteLists /\ tx.hidden \in UNION {[S -> Places] : S \in SUBSET Routes}
  BY DEF Merging, Replacements
<1>2. PICK S \in SUBSET Routes : tx.hidden \in [S -> Places]
  BY <1>1
<1>3. IsFiniteSet(DOMAIN tx.hidden) /\ Cardinality(DOMAIN tx.hidden) \in Nat
  BY <1>2, ConstantsOK, FS_Subset, FS_CardinalityType
<1> QED
  BY <1>1, <1>2, <1>3 DEF Places

LEMMA HiddenOrder ==
    ASSUME Merging, NEW g \in DOMAIN tx.hidden, NEW h \in DOMAIN tx.hidden
    PROVE  /\ g # h => tx.hidden[g].hiddenBefore # tx.hidden[h].hiddenBefore
           /\ tx.hidden[g].hiddenBefore < tx.hidden[h].hiddenBefore
                => tx.hidden[g].visibleBefore <= tx.hidden[h].visibleBefore
           /\ tx.hidden[h].hiddenBefore = Cardinality(Earlier(h))
BY Zenon DEF Merging, InOrder, Earlier

\* How many hidden routes there are before a place.
LEMMA Counts ==
    ASSUME Merging
    PROVE  /\ \A i \in Int : /\ Cardinality(Before(i)) \in 0..Cardinality(DOMAIN tx.hidden)
                             /\ IsFiniteSet(Before(i))
           /\ \A i, j \in Int : i <= j => Cardinality(Before(i)) <= Cardinality(Before(j))
           /\ \A h \in DOMAIN tx.hidden :
                /\ tx.hidden[h].hiddenBefore = Cardinality(Earlier(h))
                /\ tx.hidden[h].hiddenBefore < Cardinality(DOMAIN tx.hidden)
                /\ IsFiniteSet(Earlier(h))
<1>1. /\ IsFiniteSet(DOMAIN tx.hidden) /\ Cardinality(DOMAIN tx.hidden) \in Nat
      /\ \A h \in DOMAIN tx.hidden : tx.hidden[h].hiddenBefore \in Nat /\ tx.hidden[h].visibleBefore \in Nat
  BY HiddenFacts
<1>2. ASSUME NEW i \in Int
      PROVE  Cardinality(Before(i)) \in 0..Cardinality(DOMAIN tx.hidden) /\ IsFiniteSet(Before(i))
  <2>1. Before(i) \in SUBSET DOMAIN tx.hidden
    BY DEF Before
  <2>2. IsFiniteSet(Before(i)) /\ Cardinality(Before(i)) <= Cardinality(DOMAIN tx.hidden)
    BY <1>1, <2>1, FS_Subset
  <2>3. Cardinality(Before(i)) \in Nat
    BY <2>2, FS_CardinalityType
  <2> QED
    BY <1>1, <2>2, <2>3
<1>3. ASSUME NEW i \in Int, NEW j \in Int, i <= j
      PROVE  Cardinality(Before(i)) <= Cardinality(Before(j))
  <2>1. Before(i) \in SUBSET Before(j)
    BY <1>1, <1>3 DEF Before
  <2> QED
    BY <1>2, <2>1, FS_Subset
<1>4. ASSUME NEW h \in DOMAIN tx.hidden
      PROVE  /\ tx.hidden[h].hiddenBefore = Cardinality(Earlier(h))
             /\ tx.hidden[h].hiddenBefore < Cardinality(DOMAIN tx.hidden)
             /\ IsFiniteSet(Earlier(h))
  <2>1. tx.hidden[h].hiddenBefore = Cardinality(Earlier(h))
    BY HiddenOrder
  <2>2. Earlier(h) \in SUBSET DOMAIN tx.hidden /\ h \notin Earlier(h)
    BY <1>1 DEF Earlier
  <2>3. /\ IsFiniteSet(Earlier(h)) /\ Cardinality(Earlier(h)) <= Cardinality(DOMAIN tx.hidden)
        /\ (Cardinality(DOMAIN tx.hidden) = Cardinality(Earlier(h)) => DOMAIN tx.hidden = Earlier(h))
    BY <1>1, <2>2, FS_Subset
  <2> QED
    BY <1>1, <2>1, <2>2, <2>3
<1> QED
  BY <1>2, <1>3, <1>4

\* Where the merge puts the requested routes, and where the hidden ones.
LEMMA PlaceIs ==
    ASSUME Merging
    PROVE  /\ \A i \in 1..Len(tx.ids) : Place(tx.ids[i]) = i - 1 + Cardinality(Before(i))
           /\ \A h \in DOMAIN tx.hidden :
                Place(h) = tx.hidden[h].hiddenBefore +
                           (IF tx.hidden[h].visibleBefore < Len(tx.ids) THEN tx.hidden[h].visibleBefore ELSE Len(tx.ids))
<1>1. \A i \in 1..Len(tx.ids) : tx.ids[i] \in Listed(tx.ids) /\ Index(tx.ids, tx.ids[i]) = i
  BY HiddenFacts, ListFacts
<1>2. \A i \in 1..Len(tx.ids) : Place(tx.ids[i]) = i - 1 + Cardinality(Before(i))
  BY <1>1 DEF Place, Before
<1>3. \A h \in DOMAIN tx.hidden : h \notin Listed(tx.ids)
  BY DEF Merging
<1> QED
  BY <1>2, <1>3 DEF Place

LEMMA RequestedInOrder ==
    ASSUME Merging, NEW i \in 1..Len(tx.ids), NEW j \in 1..Len(tx.ids), i < j
    PROVE  Place(tx.ids[i]) < Place(tx.ids[j])
<1>1. Len(tx.ids) \in Nat
  BY HiddenFacts, ListFacts
<1>2. i \in Int /\ j \in Int /\ i <= j
  BY <1>1
<1>3. /\ Cardinality(Before(i)) \in Nat /\ Cardinality(Before(j)) \in Nat
      /\ Cardinality(Before(i)) <= Cardinality(Before(j))
  BY <1>2, Counts, HiddenFacts
<1>4. /\ Place(tx.ids[i]) = i - 1 + Cardinality(Before(i))
      /\ Place(tx.ids[j]) = j - 1 + Cardinality(Before(j))
  BY PlaceIs
<1> QED
  BY <1>2, <1>3, <1>4

LEMMA HiddenStayInOrder ==
    ASSUME Merging, NEW g \in DOMAIN tx.hidden, NEW h \in DOMAIN tx.hidden,
           tx.hidden[g].hiddenBefore < tx.hidden[h].hiddenBefore
    PROVE  Place(g) < Place(h)
<1>1. Len(tx.ids) \in Nat
  BY HiddenFacts, ListFacts
<1>2. /\ tx.hidden[g].hiddenBefore \in Nat /\ tx.hidden[h].hiddenBefore \in Nat
      /\ tx.hidden[g].visibleBefore \in Nat /\ tx.hidden[h].visibleBefore \in Nat
  BY HiddenFacts
<1>3. tx.hidden[g].visibleBefore <= tx.hidden[h].visibleBefore
  BY HiddenOrder
<1> QED
  BY <1>1, <1>2, <1>3, PlaceIs

\* A hidden route comes after as many requested ones as there were visible ones before it.
LEMMA HiddenAmongRequested ==
    ASSUME Merging, NEW i \in 1..Len(tx.ids), NEW h \in DOMAIN tx.hidden
    PROVE  IF i <= tx.hidden[h].visibleBefore THEN Place(tx.ids[i]) < Place(h) ELSE Place(h) < Place(tx.ids[i])
<1> DEFINE hb == tx.hidden[h].hiddenBefore
           vb == tx.hidden[h].visibleBefore
<1>1. Len(tx.ids) \in Nat /\ i \in Int
  BY HiddenFacts, ListFacts
<1>2. hb \in Nat /\ vb \in Nat /\ hb = Cardinality(Earlier(h)) /\ IsFiniteSet(Earlier(h))
  BY HiddenFacts, Counts
<1>3. IsFiniteSet(Before(i)) /\ Cardinality(Before(i)) \in Nat
  BY <1>1, Counts, HiddenFacts
<1>4. /\ Place(tx.ids[i]) = i - 1 + Cardinality(Before(i))
      /\ Place(h) = hb + (IF vb < Len(tx.ids) THEN vb ELSE Len(tx.ids))
  BY PlaceIs
<1>5. CASE i <= vb
  <2>1. Before(i) \in SUBSET Earlier(h)
    <3> SUFFICES ASSUME NEW g \in Before(i) PROVE g \in Earlier(h)
      OBVIOUS
    <3>1. g \in DOMAIN tx.hidden /\ tx.hidden[g].visibleBefore < i
      BY DEF Before
    <3>2. tx.hidden[g].visibleBefore \in Nat /\ tx.hidden[g].hiddenBefore \in Nat
      BY <3>1, HiddenFacts
    <3>3. ~(vb <= tx.hidden[g].visibleBefore)
      BY <1>1, <1>2, <1>5, <3>1, <3>2
    <3>4. g # h /\ ~(hb < tx.hidden[g].hiddenBefore) /\ tx.hidden[g].hiddenBefore # hb
      BY <1>2, <3>1, <3>3, HiddenOrder
    <3> QED
      BY <1>2, <3>1, <3>2, <3>4 DEF Earlier
  <2>2. Cardinality(Before(i)) <= hb
    BY <1>2, <2>1, FS_Subset
  <2> QED
    BY <1>1, <1>2, <1>3, <1>4, <1>5, <2>2
<1>6. CASE ~(i <= vb)
  <2>1. Earlier(h) \cup {h} \in SUBSET Before(i)
    <3> SUFFICES ASSUME NEW g \in Earlier(h) \cup {h} PROVE g \in Before(i)
      OBVIOUS
    <3>1. CASE g = h
      BY <1>1, <1>2, <1>6, <3>1 DEF Before
    <3>2. CASE g \in Earlier(h)
      <4>1. g \in DOMAIN tx.hidden /\ tx.hidden[g].hiddenBefore < hb
        BY <3>2 DEF Earlier
      <4>2. tx.hidden[g].visibleBefore <= vb /\ tx.hidden[g].visibleBefore \in Nat
        BY <4>1, HiddenFacts, HiddenOrder
      <4> QED
        BY <1>1, <1>2, <1>6, <4>1, <4>2 DEF Before
    <3> QED
      BY <3>1, <3>2
  <2>2. h \notin Earlier(h)
    BY <1>2 DEF Earlier
  <2>3. Cardinality(Earlier(h) \cup {h}) = hb + 1
    BY <1>2, <2>2, FS_AddElement
  <2>4. hb + 1 <= Cardinality(Before(i))
    BY <1>3, <2>1, <2>3, FS_Subset
  <2> QED
    BY <1>1, <1>2, <1>3, <1>4, <1>6, <2>4
<1> QED
  BY <1>5, <1>6

\* The merge fits below the offset of the shift, and gives each route a place of its own.
LEMMA PlacesFit ==
    ASSUME Merging
    PROVE  \A r \in NewOrder : Place(r) \in Nat /\ Place(r) < Offset
<1>1. Len(tx.ids) \in Nat /\ Cardinality(DOMAIN tx.hidden) \in Nat
  BY HiddenFacts, ListFacts
<1>2. ASSUME NEW r \in Listed(tx.ids) PROVE Place(r) \in Nat /\ Place(r) < Offset
  <2>1. PICK i \in 1..Len(tx.ids) : r = tx.ids[i]
    BY HiddenFacts, ListFacts
  <2>2. Cardinality(Before(i)) \in 0..Cardinality(DOMAIN tx.hidden)
    BY <1>1, Counts
  <2> QED
    BY <1>1, <2>1, <2>2, PlaceIs DEF Offset
<1>3. ASSUME NEW r \in DOMAIN tx.hidden PROVE Place(r) \in Nat /\ Place(r) < Offset
  <2>1. /\ tx.hidden[r].hiddenBefore \in Nat /\ tx.hidden[r].visibleBefore \in Nat
        /\ tx.hidden[r].hiddenBefore < Cardinality(DOMAIN tx.hidden)
    BY HiddenFacts, Counts
  <2> QED
    BY <1>1, <2>1, PlaceIs DEF Offset
<1> QED
  BY <1>2, <1>3 DEF NewOrder

LEMMA PlacesAreOwn ==
    ASSUME Merging, NEW r \in NewOrder, NEW x \in NewOrder, Place(r) = Place(x)
    PROVE  r = x
<1>1. \A a \in Listed(tx.ids) : \E i \in 1..Len(tx.ids) : a = tx.ids[i]
  BY HiddenFacts, ListFacts
<1>2. Len(tx.ids) \in Nat /\ \A a \in NewOrder : Place(a) \in Nat
  BY HiddenFacts, ListFacts, PlacesFit
<1>3. ASSUME NEW a \in Listed(tx.ids), NEW b \in Listed(tx.ids), Place(a) = Place(b)
      PROVE  a = b
  <2>1. PICK i \in 1..Len(tx.ids) : a = tx.ids[i]
    BY <1>1
  <2>2. PICK j \in 1..Len(tx.ids) : b = tx.ids[j]
    BY <1>1
  <2>3. Place(a) \in Nat
    BY <1>2 DEF NewOrder
  <2>4. ~(i < j) /\ ~(j < i)
    BY <1>3, <2>1, <2>2, <2>3, RequestedInOrder
  <2> QED
    BY <1>2, <2>1, <2>2, <2>4
<1>4. ASSUME NEW a \in Listed(tx.ids), NEW b \in DOMAIN tx.hidden
      PROVE  Place(a) # Place(b)
  <2>1. PICK i \in 1..Len(tx.ids) : a = tx.ids[i]
    BY <1>1
  <2>2. Place(a) \in Nat /\ Place(b) \in Nat
    BY <1>2 DEF NewOrder
  <2>3. Place(a) < Place(b) \/ Place(b) < Place(a)
    BY <2>1, HiddenAmongRequested
  <2> QED
    BY <2>2, <2>3
<1>5. ASSUME NEW a \in DOMAIN tx.hidden, NEW b \in DOMAIN tx.hidden, Place(a) = Place(b)
      PROVE  a = b
  <2>1. Place(a) \in Nat /\ tx.hidden[a].hiddenBefore \in Nat /\ tx.hidden[b].hiddenBefore \in Nat
    BY <1>2, HiddenFacts DEF NewOrder
  <2>2. /\ ~(tx.hidden[a].hiddenBefore < tx.hidden[b].hiddenBefore)
        /\ ~(tx.hidden[b].hiddenBefore < tx.hidden[a].hiddenBefore)
    BY <1>5, <2>1, HiddenStayInOrder
  <2> QED
    BY <2>1, <2>2, HiddenOrder
<1> QED
  BY <1>3, <1>4, <1>5 DEF NewOrder

-----------------------------------------------------------------------------
(* The steps.                                                              *)

\* What the listing finds is in the order of the rows.
LEMMA ListingIsInOrder ==
    ASSUME Typed, PlacesDiffer, NEW ids \in RouteLists
    PROVE  /\ HiddenRoutes(ids) \in UNION {[S -> Places] : S \in SUBSET Routes}
           /\ DOMAIN HiddenRoutes(ids) \cap Listed(ids) = {}
           /\ InOrder(HiddenRoutes(ids)) /\ AsPlaced(HiddenRoutes(ids))
<1> DEFINE hidden == {r \in Members(position) : ~Visible(r) /\ r \notin Listed(ids)}
           visible == {x \in Members(position) : Visible(x)}
           Below(r, S) == {x \in S : position[x] < position[r]}
           H == HiddenRoutes(ids)
<1>1. /\ hidden \subseteq Routes /\ visible \subseteq Routes
      /\ \A r \in hidden \cup visible : position[r] \in Nat /\ position[r] # None
  BY ConstantsOK DEF Typed, Members
<1>2. /\ DOMAIN H = hidden
      /\ \A r \in hidden : /\ H[r] = [hiddenBefore |-> Cardinality(Below(r, hidden)),
                                      visibleBefore |-> Cardinality(Below(r, visible))]
  BY DEF HiddenRoutes
<1>3. ASSUME NEW r, NEW S \in {hidden, visible}
      PROVE  IsFiniteSet(Below(r, S)) /\ Cardinality(Below(r, S)) \in Nat
  BY <1>1, ConstantsOK, FS_Subset, FS_CardinalityType
<1>4. \A r \in hidden : H[r].hiddenBefore = Cardinality(Below(r, hidden)) /\ H[r].hiddenBefore \in Nat
                        /\ H[r].visibleBefore = Cardinality(Below(r, visible)) /\ H[r].visibleBefore \in Nat
  <2> HIDE DEF hidden, visible, Below, H
  <2> QED
    BY <1>2, <1>3
<1> HIDE DEF H
<1>5. ASSUME NEW g \in hidden, NEW h \in hidden, position[g] < position[h]
      PROVE  /\ H[g].hiddenBefore < H[h].hiddenBefore
             /\ H[g].visibleBefore <= H[h].visibleBefore
  <2>1. position[g] \in Nat /\ position[h] \in Nat
    BY <1>1
  <2>2. Below(g, hidden) \in SUBSET Below(h, hidden) /\ Below(g, visible) \in SUBSET Below(h, visible)
    BY <1>1, <1>5, <2>1
  <2>3. g \in Below(h, hidden) /\ g \notin Below(g, hidden)
    BY <1>5, <2>1
  <2>4. /\ Cardinality(Below(g, hidden)) <= Cardinality(Below(h, hidden))
        /\ Cardinality(Below(g, hidden)) # Cardinality(Below(h, hidden))
    <3> HIDE DEF hidden, visible, Below
    <3>1. IsFiniteSet(Below(h, hidden))
      BY <1>3
    <3> QED
      BY <2>2, <2>3, <3>1, FS_Subset
  <2>5. Cardinality(Below(g, visible)) <= Cardinality(Below(h, visible))
    BY <1>3, <2>2, FS_Subset
  <2> HIDE DEF hidden, visible, Below
  <2> QED
    BY <1>4, <2>4, <2>5
<1>6. \A g, h \in hidden : g # h => position[g] < position[h] \/ position[h] < position[g]
  BY <1>1 DEF PlacesDiffer, Members
<1>7. \A g, h \in hidden : H[g].hiddenBefore < H[h].hiddenBefore <=> position[g] < position[h]
  <2> HIDE DEF hidden
  <2> TAKE g, h \in hidden
  <2>1. H[g].hiddenBefore \in Nat /\ H[h].hiddenBefore \in Nat /\ position[g] \in Nat /\ position[h] \in Nat
    BY <1>1, <1>4
  <2>2. g = h => H[g].hiddenBefore = H[h].hiddenBefore
    OBVIOUS
  <2> QED
    BY <1>5, <1>6, <2>1, <2>2
<1>8. H \in [hidden -> Places]
  BY <1>2, <1>3 DEF H, HiddenRoutes, Places
<1>9. InOrder(H)
  <2> SUFFICES ASSUME NEW g \in hidden, NEW h \in hidden
               PROVE  /\ H[h].hiddenBefore = Cardinality({x \in hidden : H[x].hiddenBefore < H[h].hiddenBefore})
                      /\ g # h => H[g].hiddenBefore # H[h].hiddenBefore
                      /\ H[g].hiddenBefore < H[h].hiddenBefore => H[g].visibleBefore <= H[h].visibleBefore
    BY <1>2 DEF InOrder
  <2>1. {x \in hidden : H[x].hiddenBefore < H[h].hiddenBefore} = Below(h, hidden)
    BY <1>7
  <2> HIDE DEF hidden, visible, Below
  <2>2. H[h].hiddenBefore = Cardinality({x \in hidden : H[x].hiddenBefore < H[h].hiddenBefore})
    BY <1>4, <2>1
  <2>3. g # h => H[g].hiddenBefore # H[h].hiddenBefore
    BY <1>4, <1>6, <1>7
  <2>4. H[g].hiddenBefore < H[h].hiddenBefore => H[g].visibleBefore <= H[h].visibleBefore
    BY <1>5, <1>7
  <2> QED
    BY <2>2, <2>3, <2>4
<1>10. AsPlaced(H)
  <2> HIDE DEF hidden
  <2> QED
    BY <1>2, <1>7 DEF AsPlaced
<1>11. hidden \cap Listed(ids) = {} /\ hidden \in SUBSET Routes
  BY <1>1
<1>12. H \in UNION {[S -> Places] : S \in SUBSET Routes}
  <2> HIDE DEF hidden
  <2> QED
    BY <1>8, <1>11
<1> QED
  BY <1>2, <1>9, <1>10, <1>11, <1>12 DEF H

LEMMA InitEstablishes == Init => CircuitInv
<1> SUFFICES ASSUME Init PROVE CircuitInv
  OBVIOUS
<1>1. PICK ids \in RouteLists :
        position = [r \in Routes |-> IF r \in Listed(ids) THEN Index(ids, r) - 1 ELSE None]
  BY DEF Init
<1>2. /\ Len(ids) \in Nat
      /\ \A r \in Listed(ids) : Index(ids, r) \in 1..Len(ids) /\ ids[Index(ids, r)] = r
  BY ListFacts
<1>3. \A r \in Listed(ids) : Index(ids, r) - 1 \in Nat
  BY <1>2
<1>4. Typed
  BY <1>1, <1>3 DEF Init, Typed
<1>5. PlacesDiffer
  <2> SUFFICES ASSUME NEW r \in Members(position), NEW x \in Members(position), position[r] = position[x]
               PROVE  r = x
    BY DEF PlacesDiffer
  <2>1. r \in Listed(ids) /\ x \in Listed(ids) /\ position[r] = Index(ids, r) - 1 /\ position[x] = Index(ids, x) - 1
    BY <1>1 DEF Members
  <2>2. Index(ids, r) \in Int /\ Index(ids, x) \in Int
    BY <1>2, <2>1
  <2> DEFINE a == Index(ids, r)
             b == Index(ids, x)
  <2>3. Index(ids, r) = Index(ids, x)
    <3>1. a - 1 = b - 1 /\ a \in Int /\ b \in Int
      BY <2>1, <2>2
    <3> HIDE DEF a, b
    <3>2. a = b
      BY <3>1
    <3> QED
      BY <3>2 DEF a, b
  <2>4. ids[Index(ids, r)] = r /\ ids[Index(ids, x)] = x
    BY <1>2, <2>1
  <2> QED
    BY <2>3, <2>4
<1> QED
  BY <1>4, <1>5 DEF Init, CircuitInv, RowsAreShifted, RowsLocked

LEMMA BeginReplaceKeeps ==
    ASSUME CircuitInv, NEW ids \in RouteLists, BeginReplace(ids)
    PROVE  CircuitInv'
<1> DEFINE H == HiddenRoutes(ids)
           none == [r \in Routes |-> None]
<1>1. /\ tx' = [step |-> "listed", ids |-> ids, hidden |-> H, rows |-> none]
      /\ UNCHANGED <<status, position>>
  BY DEF BeginReplace
<1>2. /\ H \in UNION {[S -> Places] : S \in SUBSET Routes}
      /\ DOMAIN H \cap Listed(ids) = {} /\ InOrder(H) /\ AsPlaced(H)
  BY ListingIsInOrder DEF CircuitInv
<1>3. none \in [Routes -> Nat \cup {None}]
  OBVIOUS
<1> HIDE DEF H, none
<1>4. /\ tx' \in Replacements
      /\ tx'.ids = ids /\ tx'.hidden = H /\ tx'.step = "listed"
  BY <1>1, <1>2, <1>3 DEF Replacements
<1>5. Typed'
  BY <1>1, <1>2, <1>4 DEF CircuitInv, Typed, Listed
<1>6. PlacesDiffer' /\ RowsAreShifted'
  BY <1>1, <1>4 DEF CircuitInv, PlacesDiffer, Members, RowsAreShifted, RowsLocked
<1>7. AsPlaced(tx.hidden)'
  BY <1>1, <1>2, <1>4 DEF AsPlaced
<1>8. InOrder(tx.hidden)'
  BY <1>2, <1>4, Zenon DEF InOrder
<1> QED
  BY <1>5, <1>6, <1>7, <1>8 DEF CircuitInv

\* A step of a replacement that leaves its list and its hidden routes alone.
Onward(step, rows) ==
    /\ tx' \in Replacements
    /\ tx'.step = step /\ tx'.ids = tx.ids /\ tx'.hidden = tx.hidden /\ tx'.rows = rows

LEMMA OnwardKeeps ==
    ASSUME CircuitInv, tx # None, UNCHANGED <<status, position>>,
           NEW step \in {"checked", "shifted", "deleted"}, NEW rows, Onward(step, rows)
    PROVE  Typed' /\ PlacesDiffer' /\ InOrder(tx.hidden)' /\ AsPlaced(tx.hidden)' /\ Offset' = Offset
<1>1. Typed'
  BY DEF CircuitInv, Typed, Onward, Listed
<1>2. PlacesDiffer' /\ AsPlaced(tx.hidden)'
  BY DEF CircuitInv, PlacesDiffer, Members, AsPlaced, Onward
<1>3. InOrder(tx.hidden)'
  BY Zenon DEF CircuitInv, InOrder, Onward
<1>4. Offset' = Offset
  BY DEF Onward, Offset
<1> QED
  BY <1>1, <1>2, <1>3, <1>4

LEMMA CheckRoutesKeeps ==
    ASSUME CircuitInv, CheckRoutes
    PROVE  CircuitInv'
<1>1. tx # None /\ tx' = [tx EXCEPT !.step = "checked"] /\ UNCHANGED <<status, position>>
  BY DEF CheckRoutes
<1>2. Onward("checked", tx.rows)
  BY <1>1 DEF CircuitInv, Typed, Replacements, Onward
<1>3. Typed' /\ PlacesDiffer' /\ InOrder(tx.hidden)' /\ AsPlaced(tx.hidden)'
  BY <1>1, <1>2, OnwardKeeps
<1>4. RowsAreShifted'
  BY <1>2 DEF Onward, RowsAreShifted, RowsLocked
<1> QED
  BY <1>3, <1>4 DEF CircuitInv

LEMMA ShiftPositionsKeeps ==
    ASSUME CircuitInv, ShiftPositions
    PROVE  CircuitInv'
<1> DEFINE rows == [r \in Routes |-> IF position[r] = None THEN None ELSE position[r] + Offset]
<1>1. tx # None /\ UNCHANGED <<status, position>>
  BY DEF ShiftPositions
<1>2. CASE tx' = [tx EXCEPT !.step = "shifted", !.rows = rows]
  <2>1. Merging
    BY <1>1 DEF CircuitInv, Typed, Merging
  <2>2. Offset \in Nat
    BY <2>1, HiddenFacts, ListFacts DEF Offset
  <2>3. rows \in [Routes -> Nat \cup {None}]
    BY <2>2 DEF CircuitInv, Typed
  <2>4. \A r \in Routes : rows[r] # None => position[r] # None /\ rows[r] = position[r] + Offset
    OBVIOUS
  <2> HIDE DEF rows
  <2>5. Onward("shifted", rows)
    BY <1>1, <1>2, <2>3 DEF CircuitInv, Typed, Replacements, Onward
  <2>6. Typed' /\ PlacesDiffer' /\ InOrder(tx.hidden)' /\ AsPlaced(tx.hidden)' /\ Offset' = Offset
    BY <1>1, <2>5, OnwardKeeps
  <2>7. RowsAreShifted'
    BY <1>1, <2>4, <2>5, <2>6 DEF Onward, RowsAreShifted
  <2> QED
    BY <2>6, <2>7 DEF CircuitInv
<1>3. CASE tx' = None
  BY <1>1, <1>3 DEF CircuitInv, Typed, PlacesDiffer, Members, RowsAreShifted, RowsLocked
<1> QED
  BY <1>2, <1>3 DEF ShiftPositions

LEMMA DeleteVisibleKeeps ==
    ASSUME CircuitInv, DeleteVisible
    PROVE  CircuitInv'
<1> DEFINE rows == [r \in Routes |-> IF Visible(r) THEN None ELSE tx.rows[r]]
<1>1. /\ tx # None /\ tx.step = "shifted" /\ UNCHANGED <<status, position>>
      /\ tx' = [tx EXCEPT !.step = "deleted", !.rows = rows]
  BY DEF DeleteVisible
<1>2. tx \in Replacements
  BY <1>1 DEF CircuitInv, Typed
<1>3. tx.rows \in [Routes -> Nat \cup {None}]
  BY <1>2 DEF Replacements
<1>4. rows \in [Routes -> Nat \cup {None}] /\ \A r \in Routes : rows[r] # None => rows[r] = tx.rows[r]
  BY <1>3
<1> HIDE DEF rows
<1>5. Onward("deleted", rows)
  BY <1>1, <1>2, <1>4 DEF Replacements, Onward
<1>6. Typed' /\ PlacesDiffer' /\ InOrder(tx.hidden)' /\ AsPlaced(tx.hidden)' /\ Offset' = Offset
  BY <1>1, <1>5, OnwardKeeps
<1>7. \A r \in Routes : tx.rows[r] # None => position[r] # None /\ tx.rows[r] = position[r] + Offset
  BY <1>1 DEF CircuitInv, RowsAreShifted, RowsLocked
<1>8. RowsAreShifted'
  BY <1>1, <1>4, <1>5, <1>6, <1>7 DEF Onward, RowsAreShifted
<1> QED
  BY <1>6, <1>8 DEF CircuitInv

\* What the last step of a replacement finds.
Writing ==
    /\ Merging /\ Typed /\ PlacesDiffer /\ AsPlaced(tx.hidden)
    /\ tx.rows \in [Routes -> Nat \cup {None}]
    /\ \A r \in Routes : tx.rows[r] # None => position[r] # None /\ tx.rows[r] = position[r] + Offset
    /\ NewOrder \subseteq Routes /\ Offset \in Nat
    /\ position' = [r \in Routes |->
            IF r \in Listed(tx.ids) \/ (r \in NewOrder /\ tx.rows[r] # None) THEN Place(r) ELSE tx.rows[r]]

LEMMA WritesInOrder ==
    ASSUME CircuitInv, WriteRows
    PROVE  Writing
<1>1. tx # None /\ tx.step = "deleted"
  BY DEF WriteRows
<1>2. Merging /\ Typed /\ PlacesDiffer /\ AsPlaced(tx.hidden)
  BY <1>1 DEF CircuitInv, Typed, Merging
<1>3. tx.rows \in [Routes -> Nat \cup {None}]
  BY <1>2 DEF Merging, Replacements
<1>4. \A r \in Routes : tx.rows[r] # None => position[r] # None /\ tx.rows[r] = position[r] + Offset
  BY <1>1 DEF CircuitInv, RowsAreShifted, RowsLocked
<1>5. NewOrder \subseteq Routes /\ Offset \in Nat
  BY <1>2, HiddenFacts, ListFacts DEF NewOrder, Offset
<1> QED
  BY <1>2, <1>3, <1>4, <1>5 DEF Writing, WriteRows

LEMMA Cancel == \A a, b, c \in Nat : a + c = b + c => a = b
OBVIOUS

\* The rows that are not written are those that were moved out of the way.
LEMMA WrittenPlaces ==
    ASSUME Writing
    PROVE  \A r \in Routes : position'[r] # None =>
                \/ r \in NewOrder /\ position'[r] = Place(r)
                \/ /\ tx.rows[r] # None /\ position[r] # None /\ position'[r] = position[r] + Offset
                   /\ position[r] \in Nat
<1> TAKE r \in Routes
<1>1. position[r] # None => position[r] \in Nat
  BY DEF Writing, Typed
<1>2. Listed(tx.ids) \subseteq NewOrder
  BY DEF NewOrder
<1> QED
  BY <1>1, <1>2 DEF Writing

LEMMA WriteRowsKeeps ==
    ASSUME CircuitInv, WriteRows
    PROVE  CircuitInv'
<1>1. Writing /\ tx' = None /\ UNCHANGED status
  BY WritesInOrder DEF WriteRows
<1>2. Offset \in Nat /\ \A r \in NewOrder : Place(r) \in Nat /\ Place(r) < Offset
  BY <1>1, PlacesFit DEF Writing
<1>3. Typed'
  <2>1. Listed(tx.ids) \subseteq NewOrder
    BY DEF NewOrder
  <2>2. position' \in [Routes -> Nat \cup {None}]
    BY <1>1, <1>2, <2>1 DEF Writing
  <2> QED
    BY <1>1, <2>2 DEF Writing, Typed
<1>4. PlacesDiffer'
  <2> SUFFICES ASSUME NEW r \in Routes, NEW x \in Routes, position'[r] # None, position'[r] = position'[x]
               PROVE  r = x
    BY DEF PlacesDiffer, Members
  <2>1. \/ r \in NewOrder /\ position'[r] = Place(r)
        \/ position[r] # None /\ position'[r] = position[r] + Offset /\ position[r] \in Nat
    BY <1>1, WrittenPlaces
  <2>2. \/ x \in NewOrder /\ position'[x] = Place(x)
        \/ position[x] # None /\ position'[x] = position[x] + Offset /\ position[x] \in Nat
    BY <1>1, WrittenPlaces
  <2>3. CASE r \in NewOrder /\ position'[r] = Place(r)
    <3>1. x \in NewOrder /\ position'[x] = Place(x)
      BY <1>2, <2>2, <2>3
    <3> QED
      BY <1>1, <2>3, <3>1, PlacesAreOwn DEF Writing
  <2>4. CASE position[r] # None /\ position'[r] = position[r] + Offset /\ position[r] \in Nat
    <3>1. position[x] # None /\ position'[x] = position[x] + Offset /\ position[x] \in Nat
      BY <1>2, <2>2, <2>4
    <3>2. position[r] + Offset = position[x] + Offset
      BY <2>4, <3>1
    <3>3. position[r] = position[x]
      BY <1>2, <2>4, <3>1, <3>2, Cancel
    <3> QED
      BY <1>1, <2>4, <3>1, <3>3 DEF Writing, PlacesDiffer, Members
  <2> QED
    BY <2>1, <2>3, <2>4
<1> QED
  BY <1>1, <1>3, <1>4 DEF CircuitInv, RowsAreShifted, RowsLocked

LEMMA RollbackKeeps ==
    ASSUME CircuitInv, Rollback
    PROVE  CircuitInv'
BY DEF Rollback, CircuitInv, Typed, PlacesDiffer, Members, RowsAreShifted, RowsLocked

\* A route that is appended comes after the others.
LEMMA NextPositionIsNew ==
    ASSUME Typed
    PROVE  NextPosition \in Nat /\ \A r \in Members(position) : position[r] < NextPosition
<1> DEFINE M == Members(position)
           P == {position[x] : x \in M}
           S == P \cup {-1}
<1>1. IsFiniteSet(M) /\ M \subseteq Routes
  BY ConstantsOK, FS_Subset DEF Members
<1>2. \A x \in M : position[x] \in Nat
  BY <1>1 DEF Members, Typed
<1>3. IsFiniteSet(P)
  <2> DEFINE f == [x \in M |-> position[x]]
  <2>1. f \in Surjection(M, P)
    BY DEF Surjection
  <2> HIDE DEF f, P, M
  <2> QED
    BY <1>1, <2>1, FS_Surjection
<1>4. S \subseteq Int /\ -1 \in S
  BY <1>2
<1>5. IsFiniteSet(S)
  BY <1>3, FS_AddElement
<1> HIDE DEF S
<1>6. Max(S) \in S /\ \A y \in S : y <= Max(S)
  BY <1>4, <1>5, GreatestExists
<1>7. \A r \in M : position[r] \in S
  BY DEF S
<1>8. NextPosition = Max(S) + 1
  BY DEF NextPosition, S
<1> HIDE DEF M
<1>9. PICK m \in Int : m = Max(S) /\ -1 <= m /\ \A r \in M : position[r] <= m
  BY <1>4, <1>6, <1>7
<1>10. NextPosition = m + 1 /\ NextPosition \in Nat
  BY <1>8, <1>9
<1>11. ASSUME NEW r \in M PROVE position[r] < NextPosition
  <2>1. position[r] \in Nat /\ position[r] <= m
    BY <1>2, <1>9
  <2> QED
    BY <1>9, <1>10, <2>1
<1> QED
  BY <1>10, <1>11 DEF M

LEMMA AppendKeeps ==
    ASSUME CircuitInv, NEW r \in Routes, AppendCircuitRoute(r)
    PROVE  CircuitInv'
<1>1. tx = None /\ position' = [position EXCEPT ![r] = NextPosition] /\ UNCHANGED <<status, tx>>
  BY DEF AppendCircuitRoute
<1>2. NextPosition \in Nat /\ \A x \in Members(position) : position[x] < NextPosition
  BY NextPositionIsNew DEF CircuitInv
<1>3. Typed'
  BY <1>1, <1>2 DEF CircuitInv, Typed
<1>4. \A x \in Members(position) : position[x] \in Nat
  BY DEF CircuitInv, Typed, Members
<1>5. PlacesDiffer'
  BY <1>1, <1>2, <1>4 DEF CircuitInv, Typed, PlacesDiffer, Members
<1> QED
  BY <1>1, <1>3, <1>5 DEF CircuitInv, RowsAreShifted, RowsLocked

\* A row that is deleted disturbs no other.
LEMMA RowDeletedKeeps ==
    ASSUME CircuitInv, NEW r \in Routes, position' = [position EXCEPT ![r] = None],
           status' \in [Routes -> {"published", "draft", "gone"}], UNCHANGED tx,
           RowsLocked => position[r] = None
    PROVE  CircuitInv'
<1>1. Typed'
  BY DEF CircuitInv, Typed, Listed
<1>2. \A x \in Routes : position'[x] # None => x # r /\ position'[x] = position[x]
  BY DEF CircuitInv, Typed
<1>3. PlacesDiffer'
  BY <1>2 DEF CircuitInv, PlacesDiffer, Members
<1>4. RowsAreShifted'
  BY DEF CircuitInv, Typed, RowsAreShifted, RowsLocked, Offset
<1>5. tx # None => AsPlaced(tx.hidden)'
  <2>1. tx # None => DOMAIN tx.hidden \subseteq Routes
    BY DEF CircuitInv, Typed, Replacements
  <2> QED
    BY <1>2, <2>1 DEF CircuitInv, AsPlaced
<1>6. tx # None => InOrder(tx.hidden)'
  BY Zenon DEF CircuitInv, InOrder
<1> QED
  BY <1>1, <1>3, <1>4, <1>5, <1>6 DEF CircuitInv

LEMMA StatusKeeps ==
    ASSUME CircuitInv, status' \in [Routes -> {"published", "draft", "gone"}], UNCHANGED <<position, tx>>
    PROVE  CircuitInv'
<1>1. Typed'
  BY DEF CircuitInv, Typed, Listed
<1>2. PlacesDiffer' /\ RowsAreShifted'
  BY DEF CircuitInv, PlacesDiffer, Members, RowsAreShifted, RowsLocked, Offset
<1>3. ASSUME tx # None PROVE InOrder(tx.hidden)' /\ AsPlaced(tx.hidden)'
  <2>1. InOrder(tx.hidden) /\ AsPlaced(tx.hidden)
    BY <1>3 DEF CircuitInv
  <2>2. position' = position /\ tx' = tx
    OBVIOUS
  <2>3. InOrder(tx.hidden)'
    BY <2>1, <2>2, ZenonT(60) DEF InOrder
  <2>4. AsPlaced(tx.hidden)'
    BY <2>1, <2>2, ZenonT(60) DEF AsPlaced
  <2> QED
    BY <2>3, <2>4
<1> QED
  BY <1>1, <1>2, <1>3 DEF CircuitInv

LEMMA NextKeeps == CircuitInv /\ [Next]_vars => CircuitInv'
<1> SUFFICES ASSUME CircuitInv, [Next]_vars PROVE CircuitInv'
  OBVIOUS
<1>1. ASSUME NEW ids \in RouteLists, BeginReplace(ids) PROVE CircuitInv'
  BY <1>1, BeginReplaceKeeps
<1>2. CASE CheckRoutes
  BY <1>2, CheckRoutesKeeps
<1>3. CASE ShiftPositions
  BY <1>3, ShiftPositionsKeeps
<1>4. CASE DeleteVisible
  BY <1>4, DeleteVisibleKeeps
<1>5. CASE WriteRows
  BY <1>5, WriteRowsKeeps
<1>6. CASE Rollback
  BY <1>6, RollbackKeeps
<1>7. ASSUME NEW r \in Routes, AppendCircuitRoute(r) PROVE CircuitInv'
  BY <1>7, AppendKeeps
<1>8. ASSUME NEW r \in Routes, DeleteCircuitRoute(r) PROVE CircuitInv'
  BY <1>8, RowDeletedKeeps DEF DeleteCircuitRoute, CircuitInv, Typed
<1>9. ASSUME NEW r \in Routes, DeleteRoute(r) PROVE CircuitInv'
  <2>1. status' \in [Routes -> {"published", "draft", "gone"}]
    BY <1>9 DEF DeleteRoute, CircuitInv, Typed
  <2> QED
    BY <1>9, <2>1, RowDeletedKeeps DEF DeleteRoute
<1>10. ASSUME NEW r \in Routes, NEW s \in {"published", "draft"}, UpdateRouteStatus(r, s) PROVE CircuitInv'
  <2>1. status' \in [Routes -> {"published", "draft", "gone"}]
    BY <1>10 DEF UpdateRouteStatus, CircuitInv, Typed
  <2> QED
    BY <1>10, <2>1, StatusKeeps DEF UpdateRouteStatus
<1>11. CASE UNCHANGED vars
  BY <1>11, StatusKeeps DEF vars, CircuitInv, Typed
<1> QED
  BY <1>1, <1>2, <1>3, <1>4, <1>5, <1>6, <1>7, <1>8, <1>9, <1>10, <1>11 DEF Next

LEMMA CircuitInvariant == Spec => []CircuitInv
<1> QED
  BY InitEstablishes, NextKeeps, PTL DEF Spec

-----------------------------------------------------------------------------
(* The results.                                                            *)

LEMMA InvGivesRoom == CircuitInv => WritesFindRoom
<1> SUFFICES ASSUME CircuitInv, tx # None, tx.step = "deleted", NEW r \in NewOrder,
                    NEW x \in Members(tx.rows), tx.rows[x] = Place(r)
             PROVE  FALSE
  BY DEF WritesFindRoom, Taken
<1>1. Merging
  BY DEF CircuitInv, Typed, Merging
<1>2. Place(r) \in Nat /\ Place(r) < Offset
  BY <1>1, PlacesFit
<1>3. x \in Routes /\ position[x] # None /\ tx.rows[x] = position[x] + Offset /\ position[x] \in Nat
  BY DEF CircuitInv, Typed, RowsAreShifted, RowsLocked, Members
<1>4. Offset \in Nat
  BY <1>1, HiddenFacts, ListFacts DEF Offset
<1> QED
  BY <1>2, <1>3, <1>4

LEMMA InvGivesTypes == CircuitInv => TypeOK
<1> SUFFICES ASSUME CircuitInv, tx # None
             PROVE  /\ tx.step \in {"listed", "checked", "shifted", "deleted"}
                    /\ tx.ids \in RouteLists
                    /\ DOMAIN tx.hidden \subseteq Routes \ Listed(tx.ids)
                    /\ \A h \in DOMAIN tx.hidden : tx.hidden[h] \in [hiddenBefore : Nat, visibleBefore : Nat]
                    /\ tx.rows \in [Routes -> Nat \cup {None}]
  BY DEF CircuitInv, Typed, TypeOK
<1>1. tx \in Replacements /\ DOMAIN tx.hidden \cap Listed(tx.ids) = {}
  BY DEF CircuitInv, Typed
<1>2. PICK S \in SUBSET Routes : tx.hidden \in [S -> Places]
  BY <1>1 DEF Replacements
<1>3. /\ DOMAIN tx.hidden \subseteq Routes
      /\ \A h \in DOMAIN tx.hidden : tx.hidden[h] \in [hiddenBefore : Nat, visibleBefore : Nat]
  BY <1>2 DEF Places
<1> QED
  BY <1>1, <1>3 DEF Replacements

\* A circuit's rows are well formed, no two of them are in one place, and the rows that a
\* replacement writes, one by one, find room, whatever is published, withdrawn, removed or
\* deleted meanwhile (replaceCircuitRoutes, AppendCircuitRoute).
THEOREM CircuitStaysWhole == Spec => []CircuitOK
<1>1. CircuitInv => CircuitOK
  BY InvGivesRoom, InvGivesTypes DEF CircuitOK, CircuitInv
<1> QED
  BY <1>1, CircuitInvariant, PTL

LEMMA ReplacementStep ==
    ASSUME Writing
    PROVE  /\ Listed(tx.ids) \subseteq Members(position)'
           /\ \A i, j \in DOMAIN tx.ids : i < j => position'[tx.ids[i]] < position'[tx.ids[j]]
           /\ (Members(position)') \ Listed(tx.ids) \subseteq Members(position)
<1>1. /\ \A r \in Listed(tx.ids) : position'[r] = Place(r)
      /\ \A r \in NewOrder : Place(r) \in Nat /\ r \in Routes
      /\ Listed(tx.ids) \subseteq NewOrder
  BY PlacesFit DEF Writing, NewOrder
<1>2. Listed(tx.ids) \subseteq Members(position)'
  BY <1>1, ConstantsOK DEF Members
<1>3. ASSUME NEW i \in DOMAIN tx.ids, NEW j \in DOMAIN tx.ids, i < j
      PROVE  position'[tx.ids[i]] < position'[tx.ids[j]]
  <2>1. /\ i \in 1..Len(tx.ids) /\ j \in 1..Len(tx.ids)
        /\ tx.ids[i] \in Listed(tx.ids) /\ tx.ids[j] \in Listed(tx.ids)
    BY HiddenFacts, ListFacts DEF Writing
  <2> QED
    BY <1>1, <1>3, <2>1, RequestedInOrder DEF Writing
<1>4. ASSUME NEW r \in Routes, position'[r] # None, r \notin Listed(tx.ids)
      PROVE  position[r] # None
  BY <1>4 DEF Writing
<1> QED
  BY <1>2, <1>3, <1>4 DEF Members

\* A replacement that is committed leaves what was asked for, in that order, even when some
\* of it was withdrawn or deleted meanwhile, and brings nothing else back.
THEOREM ReplacementsAreAsAsked == Spec => ReplacementIsWhatWasAsked
<1>1. CircuitInv /\ [Next]_vars =>
        [WriteRows =>
            /\ Listed(tx.ids) \subseteq Members(position)'
            /\ \A i, j \in DOMAIN tx.ids : i < j => position'[tx.ids[i]] < position'[tx.ids[j]]
            /\ (Members(position)') \ Listed(tx.ids) \subseteq Members(position)]_vars
  BY WritesInOrder, ReplacementStep
<1> QED
  BY <1>1, CircuitInvariant, PTL DEF Spec, ReplacementIsWhatWasAsked

\* Of the requested routes, as many come before a hidden one as there were visible ones.
LEMMA AskedBefore ==
    ASSUME Merging, NEW h \in DOMAIN tx.hidden, NEW asked,
           asked = {r \in Listed(tx.ids) : Place(r) < Place(h)}
    PROVE  \/ Cardinality(asked) = tx.hidden[h].visibleBefore
           \/ asked = Listed(tx.ids) /\ Len(tx.ids) < tx.hidden[h].visibleBefore
<1> DEFINE n == Len(tx.ids)
           vb == tx.hidden[h].visibleBefore
<1>1. /\ n \in Nat /\ \A r \in Listed(tx.ids) : \E i \in 1..n : r = tx.ids[i]
      /\ \A i \in 1..n : tx.ids[i] \in Listed(tx.ids)
      /\ \A i, j \in 1..n : tx.ids[i] = tx.ids[j] => i = j
  BY HiddenFacts, ListFacts
<1>2. vb \in Nat
  BY HiddenFacts
<1>3. \A i \in 1..n : Place(tx.ids[i]) \in Nat
  BY <1>1, PlacesFit DEF NewOrder
<1>4. Place(h) \in Nat
  BY PlacesFit DEF NewOrder
<1>5. \A i \in 1..n : Place(tx.ids[i]) < Place(h) <=> i <= vb
  <2> TAKE i \in 1..n
  <2>1. IF i <= vb THEN Place(tx.ids[i]) < Place(h) ELSE Place(h) < Place(tx.ids[i])
    BY HiddenAmongRequested
  <2>2. Place(tx.ids[i]) \in Nat
    BY <1>3
  <2> QED
    BY <1>4, <2>1, <2>2
<1> HIDE DEF n, vb
<1>6. CASE vb <= n
  <2> DEFINE f == [i \in 1..vb |-> tx.ids[i]]
  <2>1. \A i \in 1..vb : i \in 1..n
    BY <1>1, <1>2, <1>6
  <2>2. \A i \in 1..vb : tx.ids[i] \in asked
    BY <1>1, <1>2, <1>5, <2>1
  <2>3. \A r \in asked : \E i \in 1..vb : r = tx.ids[i]
    <3> TAKE r \in asked
    <3>1. PICK i \in 1..n : r = tx.ids[i]
      BY <1>1
    <3>2. i <= vb
      BY <1>5, <3>1
    <3>3. i \in 1..vb
      BY <1>1, <1>2, <3>2
    <3> QED
      BY <3>1, <3>3
  <2>4. f \in [1..vb -> asked]
    BY <2>2
  <2>5. \A r \in asked : \E i \in 1..vb : f[i] = r
    BY <2>3
  <2>6. \A i, j \in 1..vb : f[i] = f[j] => i = j
    BY <1>1, <2>1
  <2> HIDE DEF f
  <2>7. f \in Bijection(1..vb, asked)
    BY <2>4, <2>5, <2>6 DEF Bijection, Injection, Surjection, IsInjective
  <2>8. ExistsBijection(1..vb, asked)
    BY <2>7 DEF ExistsBijection
  <2>9. IsFiniteSet(1..vb) /\ Cardinality(1..vb) = vb
    BY <1>2, FS_Interval
  <2>10. Cardinality(asked) = vb
    BY <2>8, <2>9, FS_Bijection
  <2> QED
    BY <2>10 DEF vb
<1>7. CASE ~(vb <= n)
  <2>1. n < vb
    BY <1>1, <1>2, <1>7
  <2>2. \A i \in 1..n : i <= vb
    BY <1>1, <1>2, <2>1
  <2>3. asked = Listed(tx.ids)
    BY <1>1, <1>5, <2>2
  <2> QED
    BY <2>1, <2>3 DEF n, vb
<1> QED
  BY <1>6, <1>7

LEMMA HiddenStep ==
    ASSUME Writing, NEW h \in DOMAIN tx.hidden, tx.rows[h] # None
    PROVE  LET visibleBefore == tx.hidden[h].visibleBefore
               asked == {r \in Listed(tx.ids) : position'[r] < position'[h]}
           IN  /\ \/ Cardinality(asked) = visibleBefore
                  \/ asked = Listed(tx.ids) /\ Len(tx.ids) < visibleBefore
               /\ \A x \in Members(tx.rows) \cap DOMAIN tx.hidden :
                    position[x] < position[h] => position'[x] < position'[h]
<1>1. /\ \A r \in Listed(tx.ids) : position'[r] = Place(r)
      /\ \A r \in DOMAIN tx.hidden : tx.rows[r] # None => position'[r] = Place(r)
  BY DEF Writing, NewOrder
<1>2. {r \in Listed(tx.ids) : position'[r] < position'[h]} = {r \in Listed(tx.ids) : Place(r) < Place(h)}
  BY <1>1
<1>3. \/ Cardinality({r \in Listed(tx.ids) : position'[r] < position'[h]}) = tx.hidden[h].visibleBefore
      \/ /\ {r \in Listed(tx.ids) : position'[r] < position'[h]} = Listed(tx.ids)
         /\ Len(tx.ids) < tx.hidden[h].visibleBefore
  BY <1>2, AskedBefore DEF Writing
<1>4. ASSUME NEW x \in Members(tx.rows) \cap DOMAIN tx.hidden, position[x] < position[h]
      PROVE  position'[x] < position'[h]
  <2>1. x \in Routes /\ h \in Routes /\ tx.rows[x] # None
    BY HiddenFacts DEF Members, Writing
  <2>2. position[x] # None /\ position[h] # None
    BY <2>1 DEF Writing
  <2>3. tx.hidden[x].hiddenBefore < tx.hidden[h].hiddenBefore
    BY <1>4, <2>2 DEF Writing, AsPlaced
  <2>4. Place(x) < Place(h)
    BY <2>3, HiddenStayInOrder DEF Writing
  <2> QED
    BY <1>1, <2>1, <2>4
<1> QED
  BY <1>3, <1>4

\* A replacement keeps the order of the routes that it listed as hidden, and as many of the
\* requested ones before each as there were visible ones (openapi.yaml).
THEOREM HiddenRoutesStay == Spec => HiddenRoutesKeepTheirPlace
<1>1. CircuitInv /\ [Next]_vars =>
        [WriteRows =>
            \A h \in DOMAIN tx.hidden :
                LET visibleBefore == tx.hidden[h].visibleBefore
                    asked == {r \in Listed(tx.ids) : position'[r] < position'[h]}
                IN  tx.rows[h] # None =>
                        /\ \/ Cardinality(asked) = visibleBefore
                           \/ asked = Listed(tx.ids) /\ Len(tx.ids) < visibleBefore
                        /\ \A x \in Members(tx.rows) \cap DOMAIN tx.hidden :
                            position[x] < position[h] => position'[x] < position'[h]]_vars
  BY WritesInOrder, HiddenStep
<1> QED
  BY <1>1, CircuitInvariant, PTL DEF Spec, HiddenRoutesKeepTheirPlace

=============================================================================
