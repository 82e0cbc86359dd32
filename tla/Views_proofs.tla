---------------------------- MODULE Views_proofs ----------------------------
(***************************************************************************)
(* That the state of the pages keeps its types and bounds, and that what   *)
(* they show is what there is, for all climbs, circuits and logbooks.      *)
(*                                                                         *)
(* What the pages compute goes through lists: by folds (the pyramid, the   *)
(* hardest climb of a month, the longest streak) and by sorting.  A fold   *)
(* is compared with what its result should be on each part of a list, and  *)
(* the least part on which they differ would be empty, or have one element *)
(* less; that is what takes the place of induction here.                   *)
(***************************************************************************)
EXTENDS PhotoPages_proofs, ClientPages_proofs, Arrays, WellFoundedInduction

\* The statistics: the logbook has entries of climbs.
BookRows == [climb : LoggedClimbs, outcome : Stats!Outcomes, day : Days]

StatsInv ==
    /\ book \in Seq(BookRows) /\ Len(book) <= MaxEntries
    /\ wall \in Stats!Walls \cup {None}

LEMMA StatsTypes == StatsInv => Stats!TypeOK
<1> SUFFICES ASSUME StatsInv PROVE Stats!TypeOK
  OBVIOUS
<1>1. ASSUME NEW e \in Stats!Range(book) PROVE e \in BookRows
  BY DEF Stats!Range, StatsInv
<1> QED
  BY <1>1 DEF Stats!TypeOK, StatsInv, BookRows

LEMMA StatsInit == Stats!Init => StatsInv
BY BoundsAreNumbers, LogbookBounds DEF Stats!Init, StatsInv

LEMMA StatsNext == StatsInv /\ [Stats!Next]_statsVars => StatsInv'
<1> SUFFICES ASSUME StatsInv, [Stats!Next]_statsVars PROVE StatsInv'
  OBVIOUS
<1>1. CASE UNCHANGED statsVars
  BY <1>1 DEF statsVars, StatsInv
<1>2. CASE Stats!SelectWall
  BY <1>2 DEF Stats!SelectWall, StatsInv
<1>3. CASE Stats!Log
  <2>1. PICK c \in LoggedClimbs, o \in Stats!Outcomes, d \in Days, i \in 1..Len(book) + 1 :
            book' = Stats!InsertAt(book, i, [climb |-> c, outcome |-> o, day |-> d])
    BY <1>3 DEF Stats!Log
  <2> DEFINE e == [climb |-> c, outcome |-> o, day |-> d]
  <2>2. e \in BookRows
    BY DEF BookRows
  <2> HIDE DEF e
  <2>3. book' = SubSeq(book, 1, i - 1) \o <<e>> \o SubSeq(book, i, Len(book))
    BY <2>1 DEF Stats!InsertAt, e
  <2>4. book \in Seq(BookRows) /\ Len(book) < MaxEntries /\ MaxEntries \in Nat /\ wall' = wall
    BY <1>3, LogbookBounds DEF StatsInv, Stats!Log
  <2>5. /\ SubSeq(book, 1, i - 1) \in Seq(BookRows) /\ Len(SubSeq(book, 1, i - 1)) = i - 1
        /\ SubSeq(book, i, Len(book)) \in Seq(BookRows) /\ Len(SubSeq(book, i, Len(book))) = Len(book) - i + 1
    BY <2>4
  <2>6. book' \in Seq(BookRows) /\ Len(book') = Len(book) + 1
    <3> DEFINE a == SubSeq(book, 1, i - 1)
               b == SubSeq(book, i, Len(book))
               f == a \o <<e>>
    <3>1. a \in Seq(BookRows) /\ b \in Seq(BookRows) /\ Len(a) = i - 1 /\ Len(b) = Len(book) - i + 1 /\ Len(book) \in Nat
      BY <2>4, <2>5
    <3> HIDE DEF a, b
    <3>2. f \in Seq(BookRows) /\ Len(f) = Len(a) + 1
      BY <2>2, <3>1
    <3> HIDE DEF f
    <3>3. f \o b \in Seq(BookRows) /\ Len(f \o b) = Len(f) + Len(b)
      BY <3>1, <3>2
    <3>4. book' = f \o b
      BY <2>3 DEF a, b, f
    <3>5. Len(f) + Len(b) = Len(book) + 1
      BY <3>1, <3>2
    <3> QED
      BY <3>3, <3>4, <3>5
  <2>7. Len(book') <= MaxEntries
    BY <2>4, <2>6
  <2> QED
    BY <2>4, <2>6, <2>7 DEF StatsInv
<1> QED
  BY <1>1, <1>2, <1>3 DEF Stats!Next

\* What the pages' state is, whatever page is followed.
PagesIInv ==
    /\ PhotoPagesIInv
    /\ CacheInv /\ CacheBounded
    /\ ListInv /\ steps \in 0..MaxSteps
    /\ LogsInv /\ EntriesAreNumbered /\ FormTyped
    /\ FeedInv /\ FeedBounded
    /\ CircuitsInv /\ CircuitsBounded
    /\ StatsInv

LEMMA PagesBegin == PagesInit => PagesIInv
<1> SUFFICES ASSUME PagesInit PROVE PagesIInv
  OBVIOUS
<1>1. Cache!Init /\ List!Init /\ Logs!Init /\ Feed!Init /\ Circuits!Init /\ Stats!Init
  BY DEF PagesInit
<1>2. steps \in 0..MaxSteps
  BY <1>1, ListBounds DEF List!Init
<1> QED
  BY <1>1, <1>2, PhotoPagesInit, CacheInit, CacheTypesInit, ListInit, LogsInit, LogsTypesInit, FeedInit, FeedTypesInit,
     CircuitsInit, CircuitsTypesInit, StatsInit DEF PagesIInv

LEMMA PagesStep == PagesIInv /\ [PagesNext]_pages => PagesIInv'
<1> SUFFICES ASSUME PagesIInv, [PagesNext]_pages PROVE PagesIInv'
  OBVIOUS
<1>1. PhotoPagesIInv'
  BY PhotoPagesNext DEF PagesIInv
<1>2. CacheInv' /\ CacheBounded'
  <2>1. [Cache!Next]_cacheVars
    BY PageSteps
  <2> QED
    BY <2>1, CacheNext, CacheIdle, CacheTypesNext DEF PagesIInv
<1>3. ListInv' /\ steps' \in 0..MaxSteps
  <2>1. [List!Next]_listVars
    BY PageSteps
  <2> QED
    BY <2>1, ListNext, ListIdle, ListStepsNext DEF PagesIInv
<1>4. LogsInv' /\ EntriesAreNumbered' /\ FormTyped'
  <2>1. [Logs!Next]_logsVars
    BY PageSteps
  <2>2. UNCHANGED logsVars => UNCHANGED <<rows, lock, requests, logsMade>>
    BY DEF logsVars
  <2> QED
    BY <2>1, <2>2, LogsNext, LogIdle, EntriesNext, FormTypesNext DEF PagesIInv
<1>5. FeedInv' /\ FeedBounded'
  <2>1. [Feed!Next]_feedVars
    BY PageSteps
  <2> QED
    BY <2>1, FeedNext, FeedIdle, FeedTypesNext DEF PagesIInv
<1>6. CircuitsInv' /\ CircuitsBounded'
  <2>1. [Circuits!Next]_circuitsVars
    BY PageSteps
  <2>2. CircuitsInv'
    BY <2>1, CircuitsIdle, CircuitsFetched, CircuitsEdited, CircuitsServed, CircuitsElsewhere, CircuitsSucceed, CircuitsEnd
    DEF PagesIInv, Circuits!Next
  <2> QED
    BY <2>1, <2>2, CircuitsTypesNext DEF PagesIInv
<1>7. StatsInv'
  <2>1. [Stats!Next]_statsVars
    BY DEF PagesNext, pages, Editing, Caching, Shooting, Listing, Reviewing, Logging, Reading, Ordering, Picturing,
           Storing, Counting
  <2> QED
    BY <2>1, StatsNext DEF PagesIInv
<1> QED
  BY <1>1, <1>2, <1>3, <1>4, <1>5, <1>6, <1>7 DEF PagesIInv

\* The state of every page stays of its type, within its bounds, whatever happens on it.
THEOREM PagesTyped == PagesSpec => []PagesTypeOK
<1>1. PagesInit => Init
  BY DEF PagesInit
<1>2. [PagesNext]_pages => [Next]_vars
  BY PageSteps
<1>3. PagesSpec => []TypeOK
  BY <1>1, <1>2, TypeCorrect, PTL DEF PagesSpec, Spec
<1>4. PagesSpec => []PagesIInv
  BY PagesBegin, PagesStep, PTL DEF PagesSpec
<1>5. PagesIInv /\ TypeOK => PagesTypeOK
  BY PhotoPagesTypes, CacheTypes, ListTypes, LogsTypes, FeedTypes, CircuitsTypes, StatsTypes DEF PagesIInv, PagesTypeOK
<1> QED
  BY <1>3, <1>4, <1>5, PTL

-----------------------------------------------------------------------------
(* Sorting and filtering.                                                  *)

\* Each of a finite set in a strict order is numbered by how many come before it.
LEMMA Ranked ==
    ASSUME NEW S, IsFiniteSet(S), NEW ahead,
           \A x \in S : ahead[x] \subseteq S /\ x \notin ahead[x],
           \A x, y \in S : x \in ahead[y] \/ y \in ahead[x] \/ x = y,
           \A x, y \in S : x \in ahead[y] => ahead[x] \subseteq ahead[y]
    PROVE  /\ Cardinality(S) \in Nat
           /\ \A x \in S : Cardinality(ahead[x]) \in 0..Cardinality(S) - 1
           /\ \A x, y \in S : x \in ahead[y] <=> Cardinality(ahead[x]) < Cardinality(ahead[y])
           /\ \A x, y \in S : Cardinality(ahead[x]) = Cardinality(ahead[y]) => x = y
           /\ \A i \in 1..Cardinality(S) : \E x \in S : Cardinality(ahead[x]) = i - 1
<1> DEFINE n == Cardinality(S)
<1>1. n \in Nat
  BY FS_CardinalityType
<1>2. ASSUME NEW x \in S
      PROVE  IsFiniteSet(ahead[x]) /\ Cardinality(ahead[x]) \in 0..n - 1
  <2>1. IsFiniteSet(ahead[x]) /\ Cardinality(ahead[x]) <= n /\ (n = Cardinality(ahead[x]) => S = ahead[x])
    BY FS_Subset
  <2>2. Cardinality(ahead[x]) \in Nat
    BY <2>1, FS_CardinalityType
  <2> QED
    BY <1>1, <2>1, <2>2
<1>3. ASSUME NEW x \in S, NEW y \in S, x \in ahead[y]
      PROVE  Cardinality(ahead[x]) < Cardinality(ahead[y])
  <2>1. ahead[x] \subseteq ahead[y] /\ ahead[x] # ahead[y]
    BY <1>3
  <2>2. Cardinality(ahead[x]) <= Cardinality(ahead[y]) /\ Cardinality(ahead[y]) # Cardinality(ahead[x])
    BY <1>2, <2>1, FS_Subset
  <2>3. Cardinality(ahead[x]) \in Int /\ Cardinality(ahead[y]) \in Int
    BY <1>2
  <2> QED
    BY <2>2, <2>3
<1>4. \A x \in S : Cardinality(ahead[x]) \in 0..n - 1
  BY <1>2
<1> HIDE DEF n
<1>5. \A x, y \in S : Cardinality(ahead[x]) = Cardinality(ahead[y]) => x = y
  BY <1>1, <1>3, <1>4
<1>6. \A x, y \in S : Cardinality(ahead[x]) < Cardinality(ahead[y]) => x \in ahead[y]
  BY <1>1, <1>3, <1>4
<1>7. ASSUME NEW i \in 1..n PROVE \E x \in S : Cardinality(ahead[x]) = i - 1
  <2> DEFINE f == [x \in S |-> Cardinality(ahead[x]) + 1]
  <2>1. f \in [S -> 1..n]
    BY <1>1, <1>4
  <2>2. \A x, y \in S : f[x] = f[y] => x = y
    BY <1>1, <1>4, <1>5
  <2> HIDE DEF f
  <2>3. f \in Injection(S, 1..n)
    BY <2>1, <2>2 DEF Injection, IsInjective
  <2>4. IsFiniteSet(1..n) /\ Cardinality(1..n) = n
    BY <1>1, FS_Interval
  <2>5. f \in Surjection(S, 1..n)
    BY <2>3, <2>4, FS_Injection DEF n
  <2>6. PICK x \in S : f[x] = i
    BY <2>5 DEF Surjection
  <2> QED
    BY <1>1, <1>4, <2>6 DEF f
<1> QED
  BY <1>1, <1>3, <1>4, <1>5, <1>6, <1>7 DEF n

\* An arrangement has all of them, each after those before it.
LEMMA ArrangedIs ==
    ASSUME NEW S, IsFiniteSet(S), NEW ahead,
           \A x \in S : ahead[x] \subseteq S /\ x \notin ahead[x],
           \A x, y \in S : x \in ahead[y] \/ y \in ahead[x] \/ x = y,
           \A x, y \in S : x \in ahead[y] => ahead[x] \subseteq ahead[y]
    PROVE  /\ Cardinality(S) \in Nat
           /\ Arranged(S, ahead) \in [1..Cardinality(S) -> S]
           /\ \A x \in S : \E i \in 1..Cardinality(S) : Arranged(S, ahead)[i] = x
           /\ \A i, j \in 1..Cardinality(S) :
                  i < j <=> Arranged(S, ahead)[i] \in ahead[Arranged(S, ahead)[j]]
<1> DEFINE n == Cardinality(S)
           A == Arranged(S, ahead)
<1>1. A = [i \in 1..n |-> CHOOSE x \in S : Cardinality(ahead[x]) = i - 1]
  BY DEF Arranged
<1> HIDE DEF A
<1>2. n \in Nat
  BY Ranked
<1>3. ASSUME NEW i \in 1..n PROVE A[i] \in S /\ Cardinality(ahead[A[i]]) = i - 1
  <2>1. \E x \in S : Cardinality(ahead[x]) = i - 1
    BY Ranked
  <2> QED
    BY <1>1, <2>1
<1>4. A \in [1..n -> S]
  BY <1>1, <1>3
<1>5. ASSUME NEW x \in S PROVE \E i \in 1..n : A[i] = x
  <2> DEFINE i == Cardinality(ahead[x]) + 1
  <2>1. Cardinality(ahead[x]) \in 0..n - 1
    BY Ranked
  <2>2. i \in 1..n /\ Cardinality(ahead[x]) = i - 1
    BY <1>2, <2>1
  <2> HIDE DEF i
  <2>3. A[i] \in S /\ Cardinality(ahead[A[i]]) = Cardinality(ahead[x])
    BY <1>3, <2>2
  <2> QED
    BY <2>2, <2>3, Ranked
<1>6. ASSUME NEW i \in 1..n, NEW j \in 1..n PROVE i < j <=> A[i] \in ahead[A[j]]
  <2>1. A[i] \in ahead[A[j]] <=> Cardinality(ahead[A[i]]) < Cardinality(ahead[A[j]])
    BY <1>3, Ranked
  <2> QED
    BY <1>2, <1>3, <2>1
<1> QED
  BY <1>2, <1>4, <1>5, <1>6 DEF A

LEMMA AscendingIs ==
    ASSUME NEW S \in SUBSET Int, IsFiniteSet(S)
    PROVE  /\ Cardinality(S) \in Nat
           /\ Ascending(S) \in [1..Cardinality(S) -> S]
           /\ \A x \in S : \E i \in 1..Cardinality(S) : Ascending(S)[i] = x
           /\ \A i, j \in 1..Cardinality(S) : i < j <=> Ascending(S)[i] < Ascending(S)[j]
<1> DEFINE ahead == [n \in S |-> {m \in S : m < n}]
<1>1. \A x \in S : ahead[x] \subseteq S /\ x \notin ahead[x]
  OBVIOUS
<1>2. \A x, y \in S : x \in ahead[y] <=> x < y
  OBVIOUS
<1>3. \A x, y \in S : x \in ahead[y] \/ y \in ahead[x] \/ x = y
  BY <1>2
<1>4. \A x, y \in S : x \in ahead[y] => ahead[x] \subseteq ahead[y]
  <2> SUFFICES ASSUME NEW x \in S, NEW y \in S, x \in ahead[y], NEW z \in ahead[x] PROVE z \in ahead[y]
    OBVIOUS
  <2>1. z \in S /\ z < x /\ x < y /\ x \in Int /\ y \in Int /\ z \in Int
    OBVIOUS
  <2> QED
    BY <2>1
<1>5. Ascending(S) = Arranged(S, ahead)
  BY DEF Ascending
<1> HIDE DEF ahead
<1>6. /\ Cardinality(S) \in Nat
      /\ Arranged(S, ahead) \in [1..Cardinality(S) -> S]
      /\ \A x \in S : \E i \in 1..Cardinality(S) : Arranged(S, ahead)[i] = x
      /\ \A i, j \in 1..Cardinality(S) : i < j <=> Arranged(S, ahead)[i] \in ahead[Arranged(S, ahead)[j]]
  BY <1>1, <1>3, <1>4, ArrangedIs
<1>7. \A i \in 1..Cardinality(S) : Ascending(S)[i] \in S
  BY <1>5, <1>6
<1> QED
  BY <1>2, <1>5, <1>6, <1>7

\* What is kept of a list stays in order.
LEMMA KeptIs ==
    ASSUME NEW T, NEW list \in Seq(T), NEW places \in SUBSET DOMAIN list
    PROVE  /\ IsFiniteSet(places) /\ Cardinality(places) \in Nat
           /\ Kept(list, places) \in Seq(T) /\ DOMAIN Kept(list, places) = 1..Cardinality(places)
           /\ \A n \in 1..Cardinality(places) :
                  Ascending(places)[n] \in places /\ Kept(list, places)[n] = list[Ascending(places)[n]]
           /\ \A i \in places : \E n \in 1..Cardinality(places) : Ascending(places)[n] = i
           /\ \A i, j \in 1..Cardinality(places) : i < j <=> Ascending(places)[i] < Ascending(places)[j]
<1> DEFINE A == Ascending(places)
           n == Cardinality(places)
           K == Kept(list, places)
<1>1. DOMAIN list = 1..Len(list) /\ Len(list) \in Nat
  OBVIOUS
<1>2. places \in SUBSET Int /\ IsFiniteSet(places)
  <2>1. IsFiniteSet(1..Len(list)) /\ 1..Len(list) \subseteq Int
    BY <1>1, FS_Interval
  <2> QED
    BY <1>1, <2>1, FS_Subset
<1>3. /\ n \in Nat /\ A \in [1..n -> places]
      /\ \A i \in places : \E k \in 1..n : A[k] = i
      /\ \A i, j \in 1..n : i < j <=> A[i] < A[j]
  BY <1>2, AscendingIs
<1>4. K = [k \in DOMAIN A |-> list[A[k]]]
  BY DEF Kept
<1> HIDE DEF A, n, K
<1>5. DOMAIN A = 1..n /\ \A k \in 1..n : A[k] \in places /\ list[A[k]] \in T
  BY <1>1, <1>3
<1>6. K = [k \in 1..n |-> list[A[k]]]
  BY <1>4, <1>5
<1>7. K \in [1..n -> T]
  BY <1>5, <1>6
<1>8. K \in Seq(T) /\ DOMAIN K = 1..n
  BY <1>3, <1>7
<1> QED
  BY <1>2, <1>3, <1>5, <1>6, <1>8 DEF A, n, K

\* What is kept is what the list has at these places.
LEMMA KeptAre ==
    ASSUME NEW T, NEW list \in Seq(T), NEW places \in SUBSET DOMAIN list
    PROVE  {Kept(list, places)[n] : n \in DOMAIN Kept(list, places)} = {list[i] : i \in places}
<1> DEFINE n == Cardinality(places)
           A == Ascending(places)
           K == Kept(list, places)
<1>1. /\ DOMAIN K = 1..n
      /\ \A k \in 1..n : A[k] \in places /\ K[k] = list[A[k]]
      /\ \A i \in places : \E k \in 1..n : A[k] = i
  BY KeptIs
<1> HIDE DEF n, A, K
<1>2. {K[k] : k \in DOMAIN K} = {list[i] : i \in places}
  BY <1>1
<1> QED
  BY <1>2 DEF K

\* The greatest and the least of some numbers.
LEMMA GreatestIs ==
    ASSUME NEW S \in SUBSET Int, IsFiniteSet(S), S # {}
    PROVE  /\ Stats!Max(S) \in S /\ \A x \in S : x <= Stats!Max(S)
           /\ Stats!Min(S) \in S /\ \A x \in S : Stats!Min(S) <= x
<1> DEFINE n == Cardinality(S)
           A == Ascending(S)
<1>1. /\ n \in Nat /\ A \in [1..n -> S]
      /\ \A x \in S : \E i \in 1..n : A[i] = x
      /\ \A i, j \in 1..n : i < j <=> A[i] < A[j]
  BY AscendingIs
<1> HIDE DEF n, A
<1>2. n >= 1
  <2>1. PICK x \in S : TRUE
    OBVIOUS
  <2>2. PICK i \in 1..n : A[i] = x
    BY <1>1
  <2> QED
    BY <1>1
<1>3. \A i \in 1..n : A[i] \in S /\ A[i] \in Int /\ A[1] <= A[i] /\ A[i] <= A[n]
  <2>1. 1 \in 1..n /\ n \in 1..n /\ \A i \in 1..n : i \in Int /\ 1 <= i /\ i <= n
    BY <1>1, <1>2
  <2>2. \A i \in 1..n : A[i] \in S /\ A[i] \in Int
    BY <1>1
  <2>3. \A i \in 1..n : ~(A[i] < A[1]) /\ ~(A[n] < A[i])
    BY <1>1, <2>1
  <2> QED
    BY <2>1, <2>2, <2>3
<1>4. \E m \in S : \A x \in S : m >= x
  <2>1. A[n] \in S
    BY <1>2, <1>3, <1>1
  <2> QED
    BY <1>1, <1>3, <2>1
<1>5. \E m \in S : \A x \in S : m <= x
  <2>1. A[1] \in S
    BY <1>2, <1>3, <1>1
  <2> QED
    BY <1>1, <1>3, <2>1
<1> QED
  BY <1>4, <1>5 DEF Stats!Max, Stats!Min

-----------------------------------------------------------------------------
(* Folds.                                                                  *)

LEMMA LeastIs ==
    ASSUME NEW N \in SUBSET Nat, N # {}
    PROVE  \E n \in N : \A m \in N : n <= m
<1>1. PICK n \in N : \A m \in N : <<m, n>> \notin OpToRel(<, Nat)
  BY NatLessThanWellFounded, WFMin
<1>2. \A m \in N : ~(m < n)
  BY <1>1 DEF OpToRel
<1> QED
  BY <1>2

\* Two functions of the parts of a finite set that agree on the empty one, and on each part
\* if they agree on it without one of its elements, agree on the set.
LEMMA FoldsAgree ==
    ASSUME NEW S, IsFiniteSet(S), NEW g, NEW h, g[{}] = h[{}],
           \A s \in SUBSET S : s # {} => \E x \in s : g[s \ {x}] = h[s \ {x}] => g[s] = h[s]
    PROVE  g[S] = h[S]
<1> SUFFICES ASSUME g[S] # h[S] PROVE FALSE
  OBVIOUS
<1> DEFINE bad == {s \in SUBSET S : g[s] # h[s]}
           N == {Cardinality(s) : s \in bad}
<1>1. \A s \in SUBSET S : IsFiniteSet(s) /\ Cardinality(s) \in Nat
  BY FS_Subset, FS_CardinalityType
<1>2. N \in SUBSET Nat /\ N # {}
  BY <1>1
<1>3. PICK n \in N : \A m \in N : n <= m
  BY <1>2, LeastIs
<1>4. PICK s \in bad : n = Cardinality(s)
  BY <1>3
<1>5. s # {} /\ s \in SUBSET S /\ g[s] # h[s]
  BY <1>4
<1>6. PICK x \in s : g[s \ {x}] = h[s \ {x}] => g[s] = h[s]
  BY <1>5
<1>7. s \ {x} \in bad /\ Cardinality(s \ {x}) = n - 1 /\ n \in Nat
  <2>1. IsFiniteSet(s) /\ Cardinality(s) \in Nat
    BY <1>1, <1>5
  <2>2. Cardinality(s \ {x}) = Cardinality(s) - 1
    BY <1>6, <2>1, FS_RemoveElement
  <2> QED
    BY <1>4, <1>5, <1>6, <2>1, <2>2
<1>8. n - 1 \in N
  BY <1>7
<1> QED
  BY <1>3, <1>7, <1>8

-----------------------------------------------------------------------------
(* The statistics.                                                         *)

LEMMA StatsKeeps ==
    /\ \A list, places : Stats!Kept(list, places) = Kept(list, places)
    /\ \A S : Stats!Ascending(S) = Ascending(S)
    /\ \A S, ahead : Stats!Arranged(S, ahead) = Arranged(S, ahead)
    /\ \A S : Stats!Cardinality(S) = Cardinality(S)
BY DEF Stats!Kept, Stats!Ascending, Stats!Arranged, Stats!Cardinality, Kept, Ascending, Arranged, Cardinality

\* The entries of the wall, and those of them that are sends.
LEMMA SentIs ==
    ASSUME StatsInv
    PROVE  /\ Stats!Filtered \in Seq(BookRows) /\ Len(Stats!Filtered) <= Len(book)
           /\ Stats!Sent \in Seq(BookRows)
           /\ \A i \in DOMAIN Stats!Sent : Stats!Sent[i].outcome \in {"send", "flash"}
<1> DEFINE here == {i \in DOMAIN book : wall \in {None, WallOf[book[i].climb]}}
           F == Stats!Filtered
           sends == {i \in DOMAIN F : F[i].outcome \in {"send", "flash"}}
<1>1. book \in Seq(BookRows) /\ here \in SUBSET DOMAIN book
  BY DEF StatsInv
<1>2. F = Kept(book, here)
  BY StatsKeeps DEF Stats!Filtered
<1> HIDE DEF here
<1>3. /\ Kept(book, here) \in Seq(BookRows) /\ DOMAIN Kept(book, here) = 1..Cardinality(here)
      /\ Cardinality(here) \in Nat
  BY <1>1, KeptIs
<1>4. Cardinality(here) <= Len(book)
  <2>1. IsFiniteSet(1..Len(book)) /\ Cardinality(1..Len(book)) = Len(book)
    <3> DEFINE l == Len(book)
    <3>1. l \in Nat
      BY <1>1
    <3> HIDE DEF l
    <3>2. IsFiniteSet(1..l) /\ Cardinality(1..l) = IF 1 > l THEN 0 ELSE l - 1 + 1
      BY <3>1, FS_Interval
    <3>3. Cardinality(1..l) = l
      BY <3>1, <3>2
    <3> QED
      BY <3>2, <3>3 DEF l
  <2>2. here \in SUBSET (1..Len(book))
    BY <1>1
  <2> QED
    BY <2>1, <2>2, FS_Subset
<1>5. F \in Seq(BookRows) /\ Len(F) = Cardinality(here)
  BY <1>2, <1>3
<1>6. Stats!Sent = Kept(F, sends)
  BY StatsKeeps DEF Stats!Sent
<1> HIDE DEF F
<1>7. sends \in SUBSET DOMAIN F /\ \A i \in sends : F[i].outcome \in {"send", "flash"}
  OBVIOUS
<1> HIDE DEF sends
<1>8. /\ Kept(F, sends) \in Seq(BookRows) /\ DOMAIN Kept(F, sends) = 1..Cardinality(sends)
      /\ \A n \in 1..Cardinality(sends) : Ascending(sends)[n] \in sends /\ Kept(F, sends)[n] = F[Ascending(sends)[n]]
  BY <1>5, <1>7, KeptIs
<1> QED
  BY <1>4, <1>5, <1>6, <1>7, <1>8 DEF F

\* The climbs of some sends, each with whether one of them is a flash.
FlashedIn(s, c) == \E j \in s : Stats!Sent[j].climb = c /\ Stats!Sent[j].outcome = "flash"

RoutesOf(s) == {[climb |-> Stats!Sent[i].climb, flash |-> FlashedIn(s, Stats!Sent[i].climb)] : i \in s}

LEMMA SentRoutesAre == ASSUME StatsInv PROVE Stats!SentRoutes = RoutesOf(DOMAIN Stats!Sent)
<1> DEFINE S == DOMAIN Stats!Sent
           Add(e, routes) ==
               {r \in routes : r.climb # e.climb}
                   \cup {[climb |-> e.climb,
                          flash |-> e.outcome = "flash" \/ \E r \in routes : r.climb = e.climb /\ r.flash]}
           first(s) == CHOOSE x \in s : TRUE
           g == CHOOSE f : f = [s \in SUBSET S |-> IF s = {} THEN {}
                                                   ELSE Add(Stats!Sent[first(s)], f[s \ {first(s)}])]
           h == [s \in SUBSET S |-> RoutesOf(s)]
<1>1. Stats!SentRoutes = g[S]
  BY DEF Stats!SentRoutes, Stats!FoldSeq, Stats!FoldFunction, Stats!FoldFunctionOnSet, Stats!MapThenFoldSet
<1>2. ASSUME NEW s \in SUBSET S, NEW x \in s
      PROVE  RoutesOf(s) = Add(Stats!Sent[x], RoutesOf(s \ {x}))
  <2> DEFINE e == Stats!Sent[x]
             t == s \ {x}
  <2>1. ASSUME NEW c
        PROVE  FlashedIn(s, c) <=> FlashedIn(t, c) \/ (e.climb = c /\ e.outcome = "flash")
    BY DEF FlashedIn
  <2>2. ASSUME NEW i \in t, Stats!Sent[i].climb # e.climb
        PROVE  FlashedIn(s, Stats!Sent[i].climb) = FlashedIn(t, Stats!Sent[i].climb)
    BY <2>1, <2>2 DEF FlashedIn
  <2>3. (\E r \in RoutesOf(t) : r.climb = e.climb /\ r.flash) = FlashedIn(t, e.climb)
    <3>1. ASSUME NEW r \in RoutesOf(t), r.climb = e.climb, r.flash PROVE FlashedIn(t, e.climb)
      <4>1. PICK i \in t : r = [climb |-> Stats!Sent[i].climb, flash |-> FlashedIn(t, Stats!Sent[i].climb)]
        BY DEF RoutesOf
      <4>2. r.climb = Stats!Sent[i].climb /\ r.flash = FlashedIn(t, Stats!Sent[i].climb)
        BY <4>1
      <4> QED
        BY <3>1, <4>2
    <3>2. ASSUME FlashedIn(t, e.climb) PROVE \E r \in RoutesOf(t) : r.climb = e.climb /\ r.flash
      <4>1. PICK i \in t : Stats!Sent[i].climb = e.climb
        BY <3>2 DEF FlashedIn
      <4> DEFINE r == [climb |-> Stats!Sent[i].climb, flash |-> FlashedIn(t, Stats!Sent[i].climb)]
      <4>2. r \in RoutesOf(t)
        BY DEF RoutesOf
      <4>3. r.climb = e.climb /\ r.flash = FlashedIn(t, e.climb)
        BY <4>1
      <4> QED
        BY <3>2, <4>2, <4>3
    <3>3. (\E r \in RoutesOf(t) : r.climb = e.climb /\ r.flash) <=> FlashedIn(t, e.climb)
      BY <3>1, <3>2
    <3> QED
      BY <3>3 DEF FlashedIn
  <2>4. FlashedIn(s, e.climb) = (e.outcome = "flash" \/ \E r \in RoutesOf(t) : r.climb = e.climb /\ r.flash)
    BY <2>1, <2>3 DEF FlashedIn
  <2>5. {r \in RoutesOf(t) : r.climb # e.climb} = {r \in RoutesOf(s) : r.climb # e.climb}
    <3>1. ASSUME NEW r \in RoutesOf(t), r.climb # e.climb PROVE r \in RoutesOf(s)
      <4>1. PICK i \in t : r = [climb |-> Stats!Sent[i].climb, flash |-> FlashedIn(t, Stats!Sent[i].climb)]
        BY DEF RoutesOf
      <4>2. FlashedIn(s, Stats!Sent[i].climb) = FlashedIn(t, Stats!Sent[i].climb)
        BY <2>2, <3>1, <4>1
      <4> QED
        BY <4>1, <4>2 DEF RoutesOf
    <3>2. ASSUME NEW r \in RoutesOf(s), r.climb # e.climb PROVE r \in RoutesOf(t)
      <4>1. PICK i \in s : r = [climb |-> Stats!Sent[i].climb, flash |-> FlashedIn(s, Stats!Sent[i].climb)]
        BY DEF RoutesOf
      <4>2. i \in t
        BY <3>2, <4>1
      <4>3. FlashedIn(s, Stats!Sent[i].climb) = FlashedIn(t, Stats!Sent[i].climb)
        BY <2>2, <3>2, <4>1, <4>2
      <4> QED
        BY <4>1, <4>2, <4>3 DEF RoutesOf
    <3> QED
      BY <3>1, <3>2
  <2>6. {r \in RoutesOf(s) : r.climb = e.climb} = {[climb |-> e.climb, flash |-> FlashedIn(s, e.climb)]}
    BY DEF RoutesOf
  <2> QED
    BY <2>4, <2>5, <2>6
<1>3. \A s \in SUBSET S : s # {} => first(s) \in s /\ s \ {first(s)} \in SUBSET S
  OBVIOUS
<1>4. RoutesOf({}) = {}
  BY DEF RoutesOf
<1> HIDE DEF S, Add, first
<1>5. h = [s \in SUBSET S |-> IF s = {} THEN {} ELSE Add(Stats!Sent[first(s)], h[s \ {first(s)}])]
  <2>1. ASSUME NEW s \in SUBSET S PROVE h[s] = IF s = {} THEN {} ELSE Add(Stats!Sent[first(s)], h[s \ {first(s)}])
    BY <1>2, <1>3, <1>4
  <2> QED
    BY <2>1
<1> HIDE DEF h
<1>6. g = [s \in SUBSET S |-> IF s = {} THEN {} ELSE Add(Stats!Sent[first(s)], g[s \ {first(s)}])]
  BY <1>5
<1> HIDE DEF g
<1>7. IsFiniteSet(S)
  <2>1. S = 1..Len(Stats!Sent) /\ Len(Stats!Sent) \in Nat
    BY SentIs DEF S
  <2> QED
    BY <2>1, FS_Interval
<1>8. g[{}] = h[{}]
  BY <1>5, <1>6
<1>9. \A s \in SUBSET S : s # {} => \E x \in s : g[s \ {x}] = h[s \ {x}] => g[s] = h[s]
  BY <1>3, <1>5, <1>6
<1>10. g[S] = h[S]
  BY <1>7, <1>8, <1>9, FoldsAgree
<1> QED
  BY <1>1, <1>10 DEF h, S

\* The climbs that have been sent, by grade.
SentClimbs == {Stats!Sent[i].climb : i \in DOMAIN Stats!Sent}

IsFlashed(c) == FlashedIn(DOMAIN Stats!Sent, c)

ClimbsOf(g) == {c \in SentClimbs : GradeOf[c] = g}

RouteOf(c) == [climb |-> c, flash |-> IsFlashed(c)]

RowOf(g) ==
    [grade |-> g,
     sends |-> Cardinality(ClimbsOf(g)) - Cardinality({c \in ClimbsOf(g) : IsFlashed(c)}),
     flashes |-> Cardinality({c \in ClimbsOf(g) : IsFlashed(c)})]

BarRows == {RowOf(GradeOf[c]) : c \in SentClimbs}

LEMMA SentClimbsAre ==
    ASSUME StatsInv
    PROVE  /\ IsFiniteSet(SentClimbs)
           /\ Stats!SentRoutes = {RouteOf(c) : c \in SentClimbs}
           /\ \A c \in SentClimbs : GradeOf[c] \in Nat \cup {None}
           /\ {e.climb : e \in Stats!Range(Stats!Sent)} = SentClimbs
           /\ \A c : (\E e \in Stats!Range(Stats!Sent) : e.climb = c /\ e.outcome = "flash") <=> IsFlashed(c)
<1> DEFINE S == Stats!Sent
<1>1. S \in Seq(BookRows) /\ DOMAIN S = 1..Len(S) /\ Len(S) \in Nat
  BY SentIs
<1>2. IsFiniteSet(DOMAIN S)
  BY <1>1, FS_Interval
<1> DEFINE f == [i \in DOMAIN S |-> S[i].climb]
<1>3. SentClimbs = {f[i] : i \in DOMAIN S} /\ DOMAIN f = DOMAIN S
  BY DEF SentClimbs
<1> HIDE DEF f
<1>4. IsFiniteSet(SentClimbs)
  BY <1>2, <1>3, ChangedAreFew
<1>5. Stats!SentRoutes = {RouteOf(c) : c \in SentClimbs}
  BY SentRoutesAre DEF RoutesOf, RouteOf, SentClimbs, IsFlashed
<1>6. \A c \in SentClimbs : GradeOf[c] \in Nat \cup {None}
  <2>1. \A i \in DOMAIN S : S[i] \in BookRows
    BY <1>1
  <2>2. \A c \in SentClimbs : c \in LoggedClimbs
    BY <2>1 DEF SentClimbs, BookRows
  <2> QED
    BY <2>2, LogbookBounds
<1>7. {e.climb : e \in Stats!Range(S)} = SentClimbs
  BY DEF SentClimbs, Stats!Range
<1>8. \A c : (\E e \in Stats!Range(S) : e.climb = c /\ e.outcome = "flash") <=> IsFlashed(c)
  BY DEF IsFlashed, FlashedIn, Stats!Range
<1> QED
  BY <1>4, <1>5, <1>6, <1>7, <1>8

\* There are as many routes as climbs.
LEMMA RoutesAreCounted ==
    ASSUME NEW D, IsFiniteSet(D)
    PROVE  Cardinality({RouteOf(c) : c \in D}) = Cardinality(D)
<1> DEFINE T == {RouteOf(c) : c \in D}
           f == [c \in D |-> RouteOf(c)]
<1>1. f \in [D -> T] /\ \A t \in T : \E c \in D : f[c] = t
  OBVIOUS
<1>2. \A c, d \in D : f[c] = f[d] => c = d
  <2>1. \A c, d : RouteOf(c) = RouteOf(d) => c = d
    BY DEF RouteOf
  <2> QED
    BY <2>1
<1> HIDE DEF T, f
<1>3. f \in Bijection(D, T)
  BY <1>1, <1>2 DEF Bijection, Injection, IsInjective, Surjection
<1>4. ExistsBijection(D, T)
  BY <1>3 DEF ExistsBijection
<1> QED
  BY <1>4, FS_Bijection DEF T

\* The bars of the pyramid.
LEMMA BarsAre ==
    ASSUME StatsInv
    PROVE  Stats!Pyramid = Arranged(BarRows, [b \in BarRows |-> {a \in BarRows :
                               a.grade # None /\ (b.grade = None \/ a.grade < b.grade)}])
<1> DEFINE R == Stats!SentRoutes
           routes(g) == {r \in R : GradeOf[r.climb] = g}
           row(g) == [grade |-> g,
                      sends |-> Cardinality(routes(g)) - Cardinality({r \in routes(g) : r.flash}),
                      flashes |-> Cardinality({r \in routes(g) : r.flash})]
           ahead(rs) == [b \in rs |-> {a \in rs : a.grade # None /\ (b.grade = None \/ a.grade < b.grade)}]
<1>1. Stats!Pyramid = Arranged({row(GradeOf[r.climb]) : r \in R}, ahead({row(GradeOf[r.climb]) : r \in R}))
  BY StatsKeeps DEF Stats!Pyramid, Stats!GradeBuckets
<1>2. R = {RouteOf(c) : c \in SentClimbs} /\ IsFiniteSet(SentClimbs)
  BY SentClimbsAre
<1>3. \A c : RouteOf(c).climb = c /\ RouteOf(c).flash = IsFlashed(c)
  BY DEF RouteOf
<1> HIDE DEF R
<1>4. ASSUME NEW g PROVE row(g) = RowOf(g)
  <2>1. routes(g) = {RouteOf(c) : c \in ClimbsOf(g)}
    BY <1>2, <1>3 DEF ClimbsOf
  <2>2. {r \in routes(g) : r.flash} = {RouteOf(c) : c \in {c \in ClimbsOf(g) : IsFlashed(c)}}
    BY <1>3, <2>1
  <2>3. IsFiniteSet(ClimbsOf(g)) /\ IsFiniteSet({c \in ClimbsOf(g) : IsFlashed(c)})
    BY <1>2, FS_Subset DEF ClimbsOf
  <2>4. Cardinality(routes(g)) = Cardinality(ClimbsOf(g))
    BY <2>1, <2>3, RoutesAreCounted
  <2>5. Cardinality({r \in routes(g) : r.flash}) = Cardinality({c \in ClimbsOf(g) : IsFlashed(c)})
    BY <2>2, <2>3, RoutesAreCounted
  <2> QED
    BY <2>4, <2>5 DEF RowOf
<1> HIDE DEF row
<1>5. {row(GradeOf[r.climb]) : r \in R} = BarRows
  BY <1>2, <1>3, <1>4 DEF BarRows
<1> HIDE DEF ahead
<1>6. Stats!Pyramid = Arranged(BarRows, ahead(BarRows))
  BY <1>1, <1>5
<1> QED
  BY <1>6 DEF ahead

LEMMA BarsAreInOrder ==
    ASSUME StatsInv
    PROVE  /\ IsFiniteSet(BarRows) /\ Cardinality(BarRows) \in Nat
           /\ Stats!Pyramid \in [1..Cardinality(BarRows) -> BarRows]
           /\ \A b \in BarRows : \E i \in 1..Cardinality(BarRows) : Stats!Pyramid[i] = b
           /\ \A i, j \in 1..Cardinality(BarRows) : i < j =>
                  /\ Stats!Pyramid[i].grade # None
                  /\ Stats!Pyramid[j].grade # None => Stats!Pyramid[i].grade < Stats!Pyramid[j].grade
<1> DEFINE ahead == [b \in BarRows |-> {a \in BarRows : a.grade # None /\ (b.grade = None \/ a.grade < b.grade)}]
           f == [c \in SentClimbs |-> RowOf(GradeOf[c])]
<1>1. BarRows = {f[c] : c \in SentClimbs} /\ DOMAIN f = SentClimbs
  BY DEF BarRows
<1> HIDE DEF f
<1>2. IsFiniteSet(BarRows)
  BY <1>1, SentClimbsAre, ChangedAreFew
<1>3. /\ \A b \in BarRows : b.grade \in Nat \cup {None}
      /\ \A a, b \in BarRows : a.grade = b.grade => a = b
  <2>1. \A b \in BarRows : \E c \in SentClimbs : b = RowOf(GradeOf[c]) /\ b.grade = GradeOf[c]
    BY DEF BarRows, RowOf
  <2> QED
    BY <2>1, SentClimbsAre
<1>4. None \notin Nat
  BY NoneIsNoNumber
<1>5. \A a, b \in BarRows : a \in ahead[b] <=> a.grade # None /\ (b.grade = None \/ a.grade < b.grade)
  OBVIOUS
<1>6. \A b \in BarRows : ahead[b] \subseteq BarRows
  OBVIOUS
<1>7. Stats!Pyramid = Arranged(BarRows, ahead)
  BY BarsAre
<1> HIDE DEF ahead
<1>8. \A b \in BarRows : ahead[b] \subseteq BarRows /\ b \notin ahead[b]
  BY <1>3, <1>5, <1>6
<1>9. \A a, b \in BarRows : a \in ahead[b] \/ b \in ahead[a] \/ a = b
  BY <1>3, <1>5
<1>10. \A a, b \in BarRows : a \in ahead[b] => ahead[a] \subseteq ahead[b]
  <2> SUFFICES ASSUME NEW a \in BarRows, NEW b \in BarRows, a \in ahead[b], NEW x \in ahead[a] PROVE x \in ahead[b]
    OBVIOUS
  <2>1. x \in BarRows /\ x.grade # None /\ a.grade # None /\ x.grade < a.grade /\ (b.grade = None \/ a.grade < b.grade)
    BY <1>5, <1>6
  <2>2. x.grade \in Nat /\ a.grade \in Nat /\ (b.grade = None \/ b.grade \in Nat)
    BY <1>3, <2>1
  <2> QED
    BY <1>5, <2>1, <2>2
<1>11. /\ Cardinality(BarRows) \in Nat
       /\ Arranged(BarRows, ahead) \in [1..Cardinality(BarRows) -> BarRows]
       /\ \A x \in BarRows : \E i \in 1..Cardinality(BarRows) : Arranged(BarRows, ahead)[i] = x
       /\ \A i, j \in 1..Cardinality(BarRows) :
              i < j <=> Arranged(BarRows, ahead)[i] \in ahead[Arranged(BarRows, ahead)[j]]
  BY <1>2, <1>8, <1>9, <1>10, ArrangedIs
<1>12. \A i \in 1..Cardinality(BarRows) : Stats!Pyramid[i] \in BarRows
  BY <1>7, <1>11
<1> QED
  BY <1>2, <1>5, <1>7, <1>11, <1>12

LEMMA PyramidIsRight == StatsInv => Stats!PyramidCountsClimbs
<1> SUFFICES ASSUME StatsInv PROVE Stats!PyramidCountsClimbs
  OBVIOUS
<1> DEFINE p == Stats!Pyramid
           n == Cardinality(BarRows)
           sent == {e.climb : e \in Stats!Range(Stats!Sent)}
           climbs(grade) == {c \in sent : GradeOf[c] = grade}
           flashed(c) == \E e \in Stats!Range(Stats!Sent) : e.climb = c /\ e.outcome = "flash"
<1>1. /\ n \in Nat /\ p \in [1..n -> BarRows] /\ \A b \in BarRows : \E i \in 1..n : p[i] = b
      /\ \A i, j \in 1..n : i < j => p[i].grade # None /\ (p[j].grade # None => p[i].grade < p[j].grade)
  BY BarsAreInOrder
<1>2. sent = SentClimbs /\ IsFiniteSet(SentClimbs)
  BY SentClimbsAre
<1>3. ASSUME NEW g PROVE climbs(g) = ClimbsOf(g) /\ {c \in climbs(g) : flashed(c)} = {c \in ClimbsOf(g) : IsFlashed(c)}
  BY <1>2, SentClimbsAre DEF ClimbsOf
<1>4. {GradeOf[e.climb] : e \in Stats!Range(Stats!Sent)} = {GradeOf[c] : c \in SentClimbs}
  BY <1>2
<1> HIDE DEF p, n, sent, climbs, flashed
<1>5. DOMAIN p = 1..n
  BY <1>1
<1>6. \A b \in BarRows : \E c \in SentClimbs : b = RowOf(GradeOf[c])
  BY DEF BarRows
<1>7. \A g : RowOf(g).grade = g
  BY DEF RowOf
<1>8. {p[i].grade : i \in DOMAIN p} = {GradeOf[c] : c \in SentClimbs}
  <2>1. \A i \in DOMAIN p : p[i] \in BarRows
    BY <1>1
  <2>2. \A c \in SentClimbs : \E i \in DOMAIN p : p[i] = RowOf(GradeOf[c])
    BY <1>1, <1>5 DEF BarRows
  <2> QED
    BY <1>6, <1>7, <2>1, <2>2
<1>9. ASSUME NEW i \in DOMAIN p
      PROVE  /\ p[i].flashes = Cardinality({c \in climbs(p[i].grade) : flashed(c)})
             /\ p[i].sends + p[i].flashes = Cardinality(climbs(p[i].grade))
  <2>1. p[i] \in BarRows
    BY <1>1
  <2>2. PICK c \in SentClimbs : p[i] = RowOf(GradeOf[c])
    BY <1>6, <2>1
  <2> DEFINE g == GradeOf[c]
             all == ClimbsOf(g)
             fs == {d \in ClimbsOf(g) : IsFlashed(d)}
  <2>3. p[i].grade = g /\ p[i].flashes = Cardinality(fs) /\ p[i].sends = Cardinality(all) - Cardinality(fs)
    BY <2>2 DEF RowOf
  <2>4. IsFiniteSet(all) /\ IsFiniteSet(fs)
    BY <1>2, FS_Subset DEF ClimbsOf
  <2>5. Cardinality(all) \in Nat /\ Cardinality(fs) \in Nat
    BY <2>4, FS_CardinalityType
  <2>6. climbs(g) = all /\ {d \in climbs(g) : flashed(d)} = fs
    BY <1>3
  <2> HIDE DEF g, all, fs
  <2>7. climbs(p[i].grade) = all /\ {d \in climbs(p[i].grade) : flashed(d)} = fs
    BY <2>3, <2>6
  <2>8. p[i].sends + p[i].flashes = Cardinality(all)
    BY <2>3, <2>5
  <2> QED
    BY <2>3, <2>7, <2>8
<1>10. Stats!Totals.climbs = Stats!Cardinality(sent)
  <2>1. Stats!Totals.climbs = Cardinality(Stats!SentRoutes)
    BY StatsKeeps DEF Stats!Totals
  <2>2. Cardinality({RouteOf(c) : c \in SentClimbs}) = Cardinality(SentClimbs)
    BY <1>2, RoutesAreCounted
  <2> QED
    BY <1>2, <2>1, <2>2, SentClimbsAre, StatsKeeps
<1>11. Stats!HardestSend = LET graded == {p[i].grade : i \in DOMAIN p} \ {None}
                           IN  IF graded = {} THEN None ELSE Stats!Max(graded)
  <2>1. {GradeOf[r.climb] : r \in Stats!SentRoutes} = {GradeOf[c] : c \in SentClimbs}
    <3>1. \A c : RouteOf(c).climb = c
      BY DEF RouteOf
    <3> QED
      BY <3>1, SentClimbsAre
  <2> QED
    BY <1>8, <2>1 DEF Stats!HardestSend
<1>12. /\ \A i, j \in DOMAIN p : i < j => p[i].grade # None /\ (p[j].grade # None => p[i].grade < p[j].grade)
       /\ {p[i].grade : i \in DOMAIN p} = {GradeOf[e.climb] : e \in Stats!Range(Stats!Sent)}
  BY <1>1, <1>4, <1>5, <1>8
<1>13. \A i \in DOMAIN p :
          /\ p[i].flashes = Stats!Cardinality({c \in climbs(p[i].grade) : flashed(c)})
          /\ p[i].sends + p[i].flashes = Stats!Cardinality(climbs(p[i].grade))
  BY <1>9, StatsKeeps
<1> QED
  BY <1>10, <1>11, <1>12, <1>13 DEF p, sent, climbs, flashed, Stats!PyramidCountsClimbs

LEMMA GreatestOf ==
    ASSUME NEW S \in SUBSET Int, NEW m \in S, \A x \in S : x <= m
    PROVE  Stats!Max(S) = m
<1>1. \E x \in S : \A y \in S : x >= y
  OBVIOUS
<1>2. Stats!Max(S) \in S /\ \A y \in S : Stats!Max(S) >= y
  BY <1>1 DEF Stats!Max
<1>3. Stats!Max(S) >= m /\ Stats!Max(S) <= m /\ Stats!Max(S) \in Int /\ m \in Int
  BY <1>2
<1> QED
  BY <1>3

LEMMA LeastOf ==
    ASSUME NEW S \in SUBSET Int, NEW m \in S, \A x \in S : m <= x
    PROVE  Stats!Min(S) = m
<1>1. \E x \in S : \A y \in S : x <= y
  OBVIOUS
<1>2. Stats!Min(S) \in S /\ \A y \in S : Stats!Min(S) <= y
  BY <1>1 DEF Stats!Min
<1>3. Stats!Min(S) >= m /\ Stats!Min(S) <= m /\ Stats!Min(S) \in Int /\ m \in Int
  BY <1>2
<1> QED
  BY <1>3

\* The greatest of 1 and some counts.
LEMMA MostIs ==
    ASSUME NEW f, IsFiniteSet(DOMAIN f), \A i \in DOMAIN f : f[i] \in Nat
    PROVE  /\ Stats!Max({1} \cup {f[i] : i \in DOMAIN f}) \in Nat
           /\ Stats!Max({1} \cup {f[i] : i \in DOMAIN f}) >= 1
           /\ \A i \in DOMAIN f : f[i] <= Stats!Max({1} \cup {f[i_1] : i_1 \in DOMAIN f})
<1> DEFINE T == {f[i] : i \in DOMAIN f}
           S == {1} \cup T
<1>1. IsFiniteSet(T)
  BY ChangedAreFew
<1>2. S = T \cup {1}
  OBVIOUS
<1>3. IsFiniteSet(S)
  BY <1>1, <1>2, FS_AddElement
<1>4. S \in SUBSET Int /\ 1 \in S /\ S \in SUBSET Nat /\ \A i \in DOMAIN f : f[i] \in S
  OBVIOUS
<1> HIDE DEF T, S
<1>5. Stats!Max(S) \in S /\ \A x \in S : x <= Stats!Max(S)
  BY <1>3, <1>4, GreatestIs
<1>6. Stats!Max(S) \in Nat /\ Stats!Max(S) >= 1 /\ \A i \in DOMAIN f : f[i] <= Stats!Max(S)
  BY <1>4, <1>5
<1> QED
  BY <1>6 DEF S, T

\* Division of a whole number.
LEMMA QuotientIs ==
    ASSUME NEW a \in Int, NEW m \in Int, m >= 1, a >= m
    PROVE  (a \div m) >= 1 /\ (a >= 4 * m => (a \div m) >= 4)
<1>1. (a \div m) >= 1
  BY SMTT(30)
<1>2. ASSUME a >= 4 * m PROVE (a \div m) >= 4
  BY <1>2, SMTT(30)
<1> QED
  BY <1>1, <1>2

\* A count has a level if it is not zero, and the greatest the last.
LEMMA LevelIs ==
    ASSUME NEW v \in Nat, NEW m \in Nat, m >= 1, v <= m
    PROVE  /\ Stats!Level(v, m) \in 0..4
           /\ Stats!Level(v, m) = 0 <=> v = 0
           /\ v = m => Stats!Level(v, m) = 4
<1>1. Stats!Max({m, 1}) = m
  <2>1. {m, 1} \in SUBSET Int /\ m \in {m, 1} /\ \A x \in {m, 1} : x <= m
    OBVIOUS
  <2> QED
    BY <2>1, GreatestOf
<1> DEFINE q == (v * 4 + m - 1) \div m
<1>2. Stats!Level(v, m) = IF v <= 0 THEN 0 ELSE Stats!Min({4, q})
  BY <1>1 DEF Stats!Level
<1>3. CASE v = 0
  BY <1>2, <1>3
<1>4. CASE v # 0
  <2>1. q \in Int /\ q >= 1 /\ (v = m => q >= 4)
    <3> DEFINE a == v * 4 + m - 1
    <3>1. a \in Int /\ a >= m /\ (v = m => a >= 4 * m)
      BY <1>4
    <3> HIDE DEF a
    <3>2. (a \div m) >= 1 /\ (a >= 4 * m => (a \div m) >= 4)
      BY <3>1, QuotientIs
    <3>3. (a \div m) \in Int
      BY <3>1
    <3>4. (a \div m) >= 1 /\ (v = m => (a \div m) >= 4)
      BY <3>1, <3>2
    <3> QED
      BY <3>3, <3>4 DEF a
  <2> HIDE DEF q
  <2>2. Stats!Min({4, q}) = IF q <= 4 THEN q ELSE 4
    <3>1. CASE q <= 4
      <4>1. {4, q} \in SUBSET Int /\ q \in {4, q} /\ \A x \in {4, q} : q <= x
        BY <2>1, <3>1
      <4> QED
        BY <3>1, <4>1, LeastOf
    <3>2. CASE ~(q <= 4)
      <4>1. {4, q} \in SUBSET Int /\ 4 \in {4, q} /\ \A x \in {4, q} : 4 <= x
        BY <2>1, <3>2
      <4> QED
        BY <3>2, <4>1, LeastOf
    <3> QED
      BY <3>1, <3>2
  <2>3. Stats!Level(v, m) = IF q <= 4 THEN q ELSE 4
    BY <1>2, <1>4, <2>2
  <2> QED
    BY <1>4, <2>1, <2>3
<1> QED
  BY <1>3, <1>4

LEMMA ColoursAreRight == StatsInv => Stats!ColoursShowEntries
<1> SUFFICES ASSUME StatsInv PROVE Stats!ColoursShowEntries
  OBVIOUS
<1> DEFINE calendar == Stats!Calendar
           most == Stats!MostCounted(calendar)
           count == [i \in DOMAIN calendar |-> calendar[i].count]
           bars == Stats!Pyramid
           parts == [i \in DOMAIN bars |-> bars[i].sends + bars[i].flashes]
<1>1. \A day : Stats!CountOn(day) \in Nat
  <2> SUFFICES ASSUME NEW day PROVE Stats!CountOn(day) \in Nat
    OBVIOUS
  <2> DEFINE F == Stats!Filtered
             S == {i \in DOMAIN F : F[i].day = day}
  <2>1. DOMAIN F = 1..Len(F) /\ Len(F) \in Nat
    BY SentIs
  <2> HIDE DEF F
  <2>2. IsFiniteSet(DOMAIN F) /\ S \subseteq DOMAIN F
    BY <2>1, FS_Interval
  <2>3. Stats!CountOn(day) = Cardinality(S)
    BY StatsKeeps DEF Stats!CountOn, F
  <2> HIDE DEF S
  <2> QED
    BY <2>2, <2>3, FS_Subset, FS_CardinalityType
<1>2. DOMAIN calendar = 0..7 * Weeks - 1 /\ \A i \in DOMAIN calendar : calendar[i].count \in Nat
  BY <1>1 DEF Stats!Calendar
<1>3. IsFiniteSet(DOMAIN calendar)
  <2>1. 0 \in Int /\ 7 * Weeks - 1 \in Int
    BY LogbookBounds
  <2> QED
    BY <1>2, <2>1, FS_Interval
<1>4. most = Stats!Max({1} \cup {count[i] : i \in DOMAIN count})
  BY DEF Stats!MostCounted
<1>5. \A i \in DOMAIN calendar : count[i] = calendar[i].count /\ count[i] \in Nat
  BY <1>2
<1>6. DOMAIN count = DOMAIN calendar
  OBVIOUS
<1> HIDE DEF calendar, most, count
<1>7. most \in Nat /\ most >= 1 /\ \A i \in DOMAIN calendar : count[i] <= most
  BY <1>3, <1>4, <1>5, <1>6, MostIs
<1>8. ASSUME NEW i \in DOMAIN calendar
      PROVE  /\ Stats!Level(calendar[i].count, most) \in 0..4
             /\ Stats!Level(calendar[i].count, most) = 0 <=> calendar[i].count = 0
             /\ calendar[i].count = most => Stats!Level(calendar[i].count, most) = 4
  BY <1>5, <1>7, LevelIs
<1>9. \A i \in DOMAIN bars : bars[i].sends \in Nat /\ bars[i].flashes \in Nat
  <2>1. \A i \in DOMAIN bars : bars[i] \in BarRows
    BY BarsAreInOrder
  <2>2. ASSUME NEW g PROVE RowOf(g).sends \in Nat /\ RowOf(g).flashes \in Nat
    <3> DEFINE all == ClimbsOf(g)
               fs == {c \in all : IsFlashed(c)}
    <3>1. IsFiniteSet(all) /\ fs \subseteq all
      BY SentClimbsAre, FS_Subset DEF ClimbsOf
    <3>2. RowOf(g).sends = Cardinality(all) - Cardinality(fs) /\ RowOf(g).flashes = Cardinality(fs)
      BY DEF RowOf
    <3> HIDE DEF all, fs
    <3>3. IsFiniteSet(fs) /\ Cardinality(fs) <= Cardinality(all)
      BY <3>1, FS_Subset
    <3>4. Cardinality(all) \in Nat /\ Cardinality(fs) \in Nat
      BY <3>1, <3>3, FS_CardinalityType
    <3> QED
      BY <3>2, <3>3, <3>4
  <2> QED
    BY <2>1, <2>2 DEF BarRows
<1>10. IsFiniteSet(DOMAIN bars)
  <2>1. DOMAIN bars = 1..Cardinality(BarRows) /\ Cardinality(BarRows) \in Nat
    BY BarsAreInOrder
  <2> QED
    BY <2>1, FS_Interval
<1>11. \A i \in DOMAIN bars : parts[i] = bars[i].sends + bars[i].flashes /\ parts[i] \in Nat
  BY <1>9
<1>12. Stats!Longer(bars) = Stats!Max({1} \cup {parts[i] : i \in DOMAIN parts}) /\ DOMAIN parts = DOMAIN bars
  BY DEF Stats!Longer
<1> HIDE DEF bars, parts
<1>13. \A i \in DOMAIN bars : parts[i] <= Stats!Longer(bars)
  BY <1>10, <1>11, <1>12, MostIs
<1>14. \A i \in DOMAIN bars :
           /\ bars[i].sends >= 0 /\ bars[i].flashes >= 0
           /\ bars[i].sends + bars[i].flashes <= Stats!Longer(bars)
  BY <1>9, <1>11, <1>13
<1>15. \A i \in DOMAIN calendar :
           /\ Stats!Level(calendar[i].count, most) \in 0..4
           /\ (Stats!Level(calendar[i].count, most) = 0) = (calendar[i].count = 0)
           /\ calendar[i].count = most => Stats!Level(calendar[i].count, most) = 4
  BY <1>8
<1> QED
  BY <1>14, <1>15 DEF calendar, most, bars, Stats!ColoursShowEntries

\* The grades that some sends of a month have, and the hardest of them.
GradesIn(s, m) ==
    {GradeOf[Stats!Sent[i].climb] : i \in {i \in s : Stats!MonthOf(Stats!Sent[i].day) = m}} \ {None}

Hardest(s, m) == IF GradesIn(s, m) = {} THEN None ELSE Stats!Max(GradesIn(s, m))

LEMMA HardestWith ==
    ASSUME StatsInv, NEW m, NEW s \in SUBSET DOMAIN Stats!Sent, NEW x \in s
    PROVE  LET e == Stats!Sent[x]
               best == Hardest(s \ {x}, m)
           IN  Hardest(s, m) = IF /\ Stats!MonthOf(e.day) = m
                                  /\ best = None \/ Stats!Rank(GradeOf[e.climb]) > Stats!Rank(best)
                               THEN GradeOf[e.climb] ELSE best
<1> DEFINE g == GradeOf[Stats!Sent[x].climb]
           G == GradesIn(s, m)
           H == GradesIn(s \ {x}, m)
           best == Hardest(s \ {x}, m)
<1>1. \A i \in s : GradeOf[Stats!Sent[i].climb] \in Nat \cup {None}
  <2>1. \A i \in s : Stats!Sent[i].climb \in SentClimbs
    BY DEF SentClimbs
  <2> QED
    BY <2>1, SentClimbsAre
<1>2. g \in Nat \cup {None} /\ G \in SUBSET Nat /\ H \in SUBSET Nat
  BY <1>1 DEF GradesIn
<1>3. None \notin Int
  BY NoneIsNoNumber
<1>4. Stats!MonthOf(Stats!Sent[x].day) # m => G = H
  BY DEF GradesIn
<1>5. Stats!MonthOf(Stats!Sent[x].day) = m => G = H \cup ({g} \ {None})
  <2> SUFFICES ASSUME Stats!MonthOf(Stats!Sent[x].day) = m PROVE G = H \cup ({g} \ {None})
    OBVIOUS
  <2> DEFINE P(t) == {i \in t : Stats!MonthOf(Stats!Sent[i].day) = m}
             A(t) == {GradeOf[Stats!Sent[i].climb] : i \in P(t)}
  <2>1. P(s) = P(s \ {x}) \cup {x}
    OBVIOUS
  <2>2. A(s) = A(s \ {x}) \cup {g}
    BY <2>1
  <2>3. G = A(s) \ {None} /\ H = A(s \ {x}) \ {None}
    BY DEF GradesIn
  <2> HIDE DEF A, G, H
  <2> QED
    BY <2>2, <2>3
<1>6. IsFiniteSet(H)
  <2> DEFINE P == {i \in s \ {x} : Stats!MonthOf(Stats!Sent[i].day) = m}
             f == [i \in P |-> GradeOf[Stats!Sent[i].climb]]
             D == DOMAIN Stats!Sent
  <2>1. D = 1..Len(Stats!Sent) /\ Len(Stats!Sent) \in Nat
    BY SentIs
  <2>2. IsFiniteSet(D) /\ P \subseteq D
    BY <2>1, FS_Interval
  <2>3. H = {f[i] : i \in P} \ {None} /\ DOMAIN f = P
    BY DEF GradesIn
  <2> HIDE DEF P, f, D, H
  <2>4. IsFiniteSet({f[i] : i \in P})
    BY <2>2, <2>3, FS_Subset, ChangedAreFew
  <2> QED
    BY <2>3, <2>4, FS_RemoveElement
<1>7. best = IF H = {} THEN None ELSE Stats!Max(H)
  BY DEF Hardest
<1>8. Hardest(s, m) = IF G = {} THEN None ELSE Stats!Max(G)
  BY DEF Hardest
<1>9. H # {} => best \in H /\ best \in Nat /\ \A h \in H : h <= best
  <2> HIDE DEF H, best
  <2> QED
    <3>1. H \in SUBSET Int
      BY <1>2
    <3> QED
      BY <1>2, <1>6, <1>7, <3>1, GreatestIs
<1> HIDE DEF g, G, H, best
<1>10. CASE Stats!MonthOf(Stats!Sent[x].day) # m
  BY <1>4, <1>7, <1>8, <1>10 DEF best, g
<1>11. CASE Stats!MonthOf(Stats!Sent[x].day) = m
  <2>1. CASE H = {}
    <3>1. Hardest(s, m) = g
      <4>1. CASE g = None
        BY <1>5, <1>8, <1>11, <2>1, <4>1
      <4>2. CASE g # None
        <5>1. G = {g} /\ g \in Nat
          BY <1>2, <1>5, <1>11, <2>1, <4>2
        <5>2. G \in SUBSET Int /\ g \in G /\ \A h \in G : h <= g
          BY <5>1
        <5>3. Stats!Max(G) = g
          BY <5>2, GreatestOf
        <5> QED
          BY <1>8, <5>1, <5>3
      <4> QED
        BY <4>1, <4>2
    <3>2. best = None
      BY <1>7, <2>1
    <3> QED
      BY <1>11, <3>1, <3>2 DEF best, g
  <2>2. CASE H # {}
    <3>1. best \in H /\ best \in Nat /\ (\A h \in H : h <= best) /\ best # None
      BY <1>3, <1>9, <2>2
    <3>2. CASE g = None
      <4>1. G = H
        BY <1>5, <1>11, <3>2
      <4>2. ~(Stats!Rank(g) > Stats!Rank(best))
        BY <3>1, <3>2 DEF Stats!Rank
      <4> QED
        BY <1>7, <1>8, <3>1, <4>1, <4>2 DEF best, g
    <3>3. CASE g # None /\ g > best
      <4>1. g \in Nat /\ G = H \cup {g}
        BY <1>2, <1>5, <1>11, <3>3
      <4>2. G \in SUBSET Int /\ g \in G /\ \A h \in G : h <= g
        BY <1>2, <3>1, <3>3, <4>1
      <4>3. Hardest(s, m) = g
        BY <1>8, <4>2, GreatestOf
      <4>4. Stats!Rank(g) > Stats!Rank(best)
        BY <3>1, <3>3 DEF Stats!Rank
      <4> QED
        BY <1>11, <4>3, <4>4 DEF best, g
    <3>4. CASE g # None /\ ~(g > best)
      <4>1. g \in Nat /\ G = H \cup {g} /\ g <= best
        BY <1>2, <1>5, <1>11, <3>1, <3>4
      <4>2. G \in SUBSET Int /\ best \in G /\ \A h \in G : h <= best
        BY <1>2, <3>1, <4>1
      <4>3. Hardest(s, m) = best
        BY <1>8, <4>2, GreatestOf
      <4>4. ~(Stats!Rank(g) > Stats!Rank(best))
        BY <3>1, <3>4 DEF Stats!Rank
      <4> QED
        BY <3>1, <4>3, <4>4 DEF best, g
    <3> QED
      BY <3>2, <3>3, <3>4
  <2> QED
    BY <2>1, <2>2
<1> QED
  BY <1>10, <1>11

LEMMA HardestIsFound == ASSUME StatsInv, NEW m PROVE Stats!HardestIn(m) = Hardest(DOMAIN Stats!Sent, m)
<1> DEFINE S == DOMAIN Stats!Sent
           Harder(best, e) == IF /\ Stats!MonthOf(e.day) = m
                                 /\ best = None \/ Stats!Rank(GradeOf[e.climb]) > Stats!Rank(best)
                              THEN GradeOf[e.climb] ELSE best
           last(s) == Stats!Max(s)
           g == CHOOSE f : f = [s \in SUBSET S |-> IF s = {} THEN None
                                                   ELSE Harder(f[s \ {last(s)}], Stats!Sent[last(s)])]
           h == [s \in SUBSET S |-> Hardest(s, m)]
<1>1. Stats!HardestIn(m) = g[S]
  BY DEF Stats!HardestIn, Stats!FoldLeft, Stats!MapThenFoldSet
<1>2. S = 1..Len(Stats!Sent) /\ Len(Stats!Sent) \in Nat
  BY SentIs
<1>3. IsFiniteSet(S) /\ S \in SUBSET Int
  BY <1>2, FS_Interval
<1>4. ASSUME NEW s \in SUBSET S, NEW x \in s PROVE Hardest(s, m) = Harder(Hardest(s \ {x}, m), Stats!Sent[x])
  BY HardestWith
<1>5. Hardest({}, m) = None
  BY DEF Hardest, GradesIn
<1> HIDE DEF S, Harder, last
<1>6. ASSUME NEW s \in SUBSET S, s # {} PROVE last(s) \in s /\ s \ {last(s)} \in SUBSET S
  <2>1. s \in SUBSET Int /\ IsFiniteSet(s)
    BY <1>3, FS_Subset
  <2> QED
    BY <1>6, <2>1, GreatestIs DEF last
<1>7. h = [s \in SUBSET S |-> IF s = {} THEN None ELSE Harder(h[s \ {last(s)}], Stats!Sent[last(s)])]
  <2>1. ASSUME NEW s \in SUBSET S
        PROVE  h[s] = IF s = {} THEN None ELSE Harder(h[s \ {last(s)}], Stats!Sent[last(s)])
    BY <1>4, <1>5, <1>6
  <2> QED
    BY <2>1
<1> HIDE DEF h
<1>8. g = [s \in SUBSET S |-> IF s = {} THEN None ELSE Harder(g[s \ {last(s)}], Stats!Sent[last(s)])]
  BY <1>7
<1> HIDE DEF g
<1>9. g[{}] = h[{}]
  BY <1>7, <1>8
<1>10. \A s \in SUBSET S : s # {} => \E x \in s : g[s \ {x}] = h[s \ {x}] => g[s] = h[s]
  BY <1>6, <1>7, <1>8
<1>11. g[S] = h[S]
  BY <1>3, <1>9, <1>10, FoldsAgree
<1> QED
  BY <1>1, <1>11 DEF h, S

LEMMA MonthsAreRight == StatsInv => Stats!MonthsShowHardest
<1> SUFFICES ASSUME StatsInv PROVE Stats!MonthsShowHardest
  OBVIOUS
<1>1. ASSUME NEW m
      PROVE  GradesIn(DOMAIN Stats!Sent, m) =
             {GradeOf[e.climb] : e \in {e \in Stats!Range(Stats!Sent) : Stats!MonthOf(e.day) = m}} \ {None}
  BY DEF GradesIn, Stats!Range
<1>2. \A m \in DOMAIN Stats!HardestByMonth : Stats!HardestByMonth[m] = Hardest(DOMAIN Stats!Sent, m)
  BY HardestIsFound DEF Stats!HardestByMonth
<1> QED
  BY <1>1, <1>2 DEF Stats!MonthsShowHardest, Hardest

\* That a streak of l weeks ends with the k-th of them.
Streak(A, k, l) == k \in DOMAIN A /\ l \in 1..k /\ \A i \in k - l + 1..k : A[i] = A[k] - 7 * (k - i)

\* The weeks are apart.
LEMMA WeeksAre ==
    ASSUME StatsInv
    PROVE  /\ Stats!ActiveWeeks \in SUBSET Int /\ IsFiniteSet(Stats!ActiveWeeks)
           /\ Cardinality(Stats!ActiveWeeks) <= MaxEntries
           /\ \A v, w \in Stats!ActiveWeeks : v < w => v + 7 <= w
           /\ Stats!WeekStart(Today) \in Int
<1> DEFINE F == Stats!Filtered
           W == Stats!ActiveWeeks
           f == [i \in DOMAIN F |-> Stats!WeekStart(F[i].day)]
<1>1. F \in Seq(BookRows) /\ Len(F) <= Len(book) /\ Len(book) \in Nat /\ Len(book) <= MaxEntries
  BY SentIs DEF StatsInv
<1>2. W = {f[i] : i \in DOMAIN f}
  BY DEF Stats!ActiveWeeks, Stats!Range
<1>3. ASSUME NEW day \in Int PROVE Stats!WeekStart(day) = 7 * (day \div 7) /\ (day \div 7) \in Int
  BY SMTT(30) DEF Stats!WeekStart
<1>4. ASSUME NEW w \in W PROVE \E n \in Int : w = 7 * n
  <2>1. PICK i \in DOMAIN F : w = Stats!WeekStart(F[i].day)
    BY <1>2
  <2>2. F[i].day \in Int
    <3>1. F[i] \in BookRows
      BY <1>1
    <3> QED
      BY <3>1, LogbookBounds DEF BookRows
  <2> QED
    BY <1>3, <2>1, <2>2
<1>5. DOMAIN f = DOMAIN F /\ DOMAIN F = 1..Len(F) /\ Len(F) \in Nat
  BY <1>1
<1> HIDE DEF f, F, W
<1>6. IsFiniteSet(DOMAIN f) /\ Cardinality(DOMAIN f) = Len(F)
  <2> DEFINE l == Len(F)
  <2>1. l \in Nat
    BY <1>5
  <2> HIDE DEF l
  <2>2. IsFiniteSet(1..l) /\ Cardinality(1..l) = IF 1 > l THEN 0 ELSE l - 1 + 1
    BY <2>1, FS_Interval
  <2>3. Cardinality(1..l) = l
    BY <2>1, <2>2
  <2> QED
    BY <1>5, <2>2, <2>3 DEF l
<1>7. IsFiniteSet(W) /\ Cardinality(W) <= Len(F)
  BY <1>2, <1>6, ChangedAreFew
<1>8. W \in SUBSET Int
  BY <1>4
<1>9. ASSUME NEW v \in W, NEW w \in W, v < w PROVE v + 7 <= w
  <2>1. PICK m \in Int : v = 7 * m
    BY <1>4
  <2>2. PICK n \in Int : w = 7 * n
    BY <1>4
  <2> QED
    BY <1>9, <2>1, <2>2
<1>10. Stats!WeekStart(Today) \in Int
  <2>1. Today \in Int
    BY LogbookBounds
  <2> QED
    BY <1>3, <2>1
<1>11. Cardinality(W) <= MaxEntries
  <2>1. Cardinality(W) \in Nat
    BY <1>7, FS_CardinalityType
  <2> QED
    BY <1>1, <1>5, <1>7, <2>1, LogbookBounds
<1> QED
  BY <1>7, <1>8, <1>9, <1>10, <1>11 DEF W

\* A streak goes on if the next week is the one after.
LEMMA StreakGoesOn ==
    ASSUME NEW n \in Nat, NEW A \in [1..n -> Int], NEW k \in 1..n - 1, NEW l \in Nat, l >= 1
    PROVE  /\ Streak(A, k, l) /\ A[k + 1] = A[k] + 7 => Streak(A, k + 1, l + 1)
           /\ Streak(A, k + 1, l + 1) => Streak(A, k, l) /\ A[k + 1] = A[k] + 7
<1>1. k \in 1..n /\ k + 1 \in 1..n /\ A[k] \in Int /\ A[k + 1] \in Int /\ DOMAIN A = 1..n
  OBVIOUS
<1>2. ASSUME Streak(A, k, l), A[k + 1] = A[k] + 7 PROVE Streak(A, k + 1, l + 1)
  <2>1. l \in 1..k /\ \A i \in k - l + 1..k : A[i] = A[k] - 7 * (k - i)
    BY <1>2 DEF Streak
  <2>2. ASSUME NEW i \in (k + 1) - (l + 1) + 1..k + 1 PROVE A[i] = A[k + 1] - 7 * (k + 1 - i)
    <3>1. CASE i = k + 1
      BY <1>1, <3>1
    <3>2. CASE i # k + 1
      <4>1. i \in k - l + 1..k
        BY <3>2
      <4>2. A[i] = A[k] - 7 * (k - i)
        BY <2>1, <4>1
      <4> QED
        BY <1>1, <1>2, <4>1, <4>2
    <3> QED
      BY <3>1, <3>2
  <2> QED
    BY <1>1, <2>1, <2>2 DEF Streak
<1>3. ASSUME Streak(A, k + 1, l + 1) PROVE Streak(A, k, l) /\ A[k + 1] = A[k] + 7
  <2>1. l + 1 \in 1..k + 1 /\ \A i \in (k + 1) - (l + 1) + 1..k + 1 : A[i] = A[k + 1] - 7 * (k + 1 - i)
    BY <1>3 DEF Streak
  <2>2. k \in (k + 1) - (l + 1) + 1..k + 1
    BY <2>1
  <2>3. A[k] = A[k + 1] - 7 * (k + 1 - k)
    BY <2>1, <2>2
  <2>4. A[k + 1] = A[k] + 7
    BY <1>1, <2>3
  <2>5. ASSUME NEW i \in k - l + 1..k PROVE A[i] = A[k] - 7 * (k - i)
    <3>1. i \in (k + 1) - (l + 1) + 1..k + 1
      OBVIOUS
    <3>2. A[i] = A[k + 1] - 7 * (k + 1 - i)
      BY <2>1, <3>1
    <3> QED
      BY <1>1, <2>4, <3>2
  <2> QED
    BY <1>1, <2>1, <2>4, <2>5 DEF Streak
<1> QED
  BY <1>2, <1>3

LEMMA StreakOfOne ==
    ASSUME NEW n \in Nat, NEW A \in [1..n -> Int], NEW k \in 1..n
    PROVE  Streak(A, k, 1)
BY DEF Streak

\* What is known of the streaks after some of the weeks: the last of these weeks, how long the
\* streak is that ends with it, and how long the longest one is.
Counted(A, k, x) ==
    IF k = 0 THEN x = [previous |-> None, run |-> 0, longest |-> 0]
    ELSE /\ x.previous = A[k]
         /\ x.run \in Nat /\ Streak(A, k, x.run) /\ \A l \in Nat : Streak(A, k, l) => l <= x.run
         /\ x.longest \in Nat /\ \E j \in 1..k : Streak(A, j, x.longest)
         /\ \A j \in 1..k, l \in Nat : Streak(A, j, l) => l <= x.longest

NextCounted(x, week) ==
    LET run == IF x.previous # None /\ week - x.previous = 7 THEN x.run + 1 ELSE 1
    IN  [previous |-> week, run |-> run, longest |-> Stats!Max({x.longest, run})]

LEMMA GreaterOf ==
    ASSUME NEW a \in Nat, NEW b \in Nat
    PROVE  Stats!Max({a, b}) = IF a <= b THEN b ELSE a
<1>1. CASE a <= b
  <2>1. {a, b} \in SUBSET Int /\ b \in {a, b} /\ \A x \in {a, b} : x <= b
    BY <1>1
  <2> QED
    BY <1>1, <2>1, GreatestOf
<1>2. CASE ~(a <= b)
  <2>1. {a, b} \in SUBSET Int /\ a \in {a, b} /\ \A x \in {a, b} : x <= a
    BY <1>2
  <2> QED
    BY <1>2, <2>1, GreatestOf
<1> QED
  BY <1>1, <1>2

LEMMA CountGoesOn ==
    ASSUME NEW n \in Nat, NEW A \in [1..n -> Int], NEW k \in 1..n, NEW x, Counted(A, k - 1, x)
    PROVE  Counted(A, k, NextCounted(x, A[k]))
<1> DEFINE y == NextCounted(x, A[k])
           run == IF x.previous # None /\ A[k] - x.previous = 7 THEN x.run + 1 ELSE 1
<1>1. y.previous = A[k] /\ y.run = run /\ y.longest = Stats!Max({x.longest, run})
  BY DEF NextCounted
<1>2. Streak(A, k, 1) /\ A[k] \in Int /\ k # 0
  BY StreakOfOne
<1>3. \A l \in Nat : Streak(A, k, l) => l >= 1
  BY DEF Streak
<1>4. run \in Nat /\ Streak(A, k, run) /\ \A l \in Nat : Streak(A, k, l) => l <= run
  <2>1. CASE k = 1
    <3>1. x.previous = None /\ run = 1
      BY <2>1 DEF Counted
    <3>2. \A l \in Nat : Streak(A, k, l) => l <= 1
      BY <2>1 DEF Streak
    <3> QED
      BY <1>2, <3>1, <3>2
  <2>2. CASE k # 1
    <3> DEFINE p == k - 1
    <3>1. p \in 1..n - 1 /\ p \in 1..n /\ p # 0 /\ p + 1 = k /\ p \in Nat
      BY <2>2
    <3> HIDE DEF p
    <3>2. /\ x.previous = A[p] /\ A[p] \in Int
          /\ x.run \in Nat /\ Streak(A, p, x.run) /\ \A l \in Nat : Streak(A, p, l) => l <= x.run
      <4>1. Counted(A, p, x)
        BY DEF p
      <4> QED
        BY <3>1, <4>1 DEF Counted
    <3>3. x.previous # None /\ x.run >= 1
      BY <3>2, NoneIsNoNumber DEF Streak
    <3>4. \A l \in Nat : l >= 1 /\ Streak(A, k, l + 1) => l <= x.run /\ A[k] = A[p] + 7
      <4> SUFFICES ASSUME NEW l \in Nat, l >= 1, Streak(A, k, l + 1) PROVE l <= x.run /\ A[k] = A[p] + 7
        OBVIOUS
      <4>1. Streak(A, p, l) /\ A[k] = A[p] + 7
        BY <3>1, StreakGoesOn
      <4> QED
        BY <3>2, <4>1
    <3>5. CASE A[k] = A[p] + 7
      <4>1. run = x.run + 1
        BY <1>2, <3>2, <3>3, <3>5
      <4>2. Streak(A, k, x.run + 1)
        BY <3>1, <3>2, <3>3, <3>5, StreakGoesOn
      <4>3. ASSUME NEW l \in Nat, Streak(A, k, l) PROVE l <= x.run + 1
        <5>1. CASE l <= 1
          BY <3>2, <5>1
        <5>2. CASE ~(l <= 1)
          <6>1. l - 1 \in Nat /\ l - 1 >= 1 /\ (l - 1) + 1 = l
            BY <5>2
          <6>2. l - 1 <= x.run
            BY <3>4, <4>3, <6>1
          <6> QED
            BY <3>2, <6>2
        <5> QED
          BY <5>1, <5>2
      <4> QED
        BY <3>2, <4>1, <4>2, <4>3
    <3>6. CASE A[k] # A[p] + 7
      <4>1. run = 1
        BY <1>2, <3>2, <3>6
      <4>2. ASSUME NEW l \in Nat, Streak(A, k, l) PROVE l <= 1
        <5>1. ASSUME ~(l <= 1) PROVE FALSE
          <6>1. l - 1 \in Nat /\ l - 1 >= 1 /\ (l - 1) + 1 = l
            BY <5>1
          <6> QED
            BY <3>4, <3>6, <4>2, <6>1
        <5> QED
          BY <5>1
      <4> QED
        BY <1>2, <4>1, <4>2
    <3> QED
      BY <3>5, <3>6
  <2> QED
    BY <2>1, <2>2
<1> HIDE DEF y, run
<1>5. /\ x.longest \in Nat
      /\ x.longest = 0 \/ \E j \in 1..k - 1 : Streak(A, j, x.longest)
      /\ \A j \in 1..k - 1, l \in Nat : Streak(A, j, l) => l <= x.longest
  BY DEF Counted
<1>6. y.longest = IF x.longest <= run THEN run ELSE x.longest
  BY <1>1, <1>4, <1>5, GreaterOf
<1>7. run >= 1
  BY <1>3, <1>4
<1>8. y.longest \in Nat /\ \E j \in 1..k : Streak(A, j, y.longest)
  <2>1. CASE x.longest <= run
    BY <1>4, <1>6, <2>1
  <2>2. CASE ~(x.longest <= run)
    <3>1. x.longest # 0
      BY <1>4, <1>5, <1>7, <2>2
    <3>2. PICK j \in 1..k - 1 : Streak(A, j, x.longest)
      BY <1>5, <3>1
    <3> QED
      BY <1>5, <1>6, <2>2, <3>2
  <2> QED
    BY <2>1, <2>2
<1>9. ASSUME NEW j \in 1..k, NEW l \in Nat, Streak(A, j, l) PROVE l <= y.longest
  <2>1. CASE j = k
    <3>1. l <= run
      BY <1>4, <1>9, <2>1
    <3> QED
      BY <1>4, <1>5, <1>6, <3>1
  <2>2. CASE j # k
    <3>1. l <= x.longest
      BY <1>5, <1>9, <2>2
    <3> QED
      BY <1>4, <1>5, <1>6, <3>1
  <2> QED
    BY <2>1, <2>2
<1> QED
  BY <1>1, <1>2, <1>4, <1>8, <1>9 DEF Counted, y

\* There is such a count of each part of the weeks.
LEMMA CountIsMade ==
    ASSUME NEW n \in Nat, NEW A \in [1..n -> Int], NEW base
    PROVE  \E f : f = [s \in SUBSET (1..n) |-> IF s = {} THEN base
                      ELSE NextCounted(f[s \ {Stats!Max(s)}], A[Stats!Max(s)])]
<1> DEFINE S == 1..n
           Small(k) == {s \in SUBSET S : Cardinality(s) <= k}
           Next1(f, s) == NextCounted(f[s \ {Stats!Max(s)}], A[Stats!Max(s)])
           Made(k) == \E f : f = [s \in Small(k) |-> IF s = {} THEN base ELSE Next1(f, s)]
           bad == {k \in Nat : ~Made(k)}
<1>1. IsFiniteSet(S) /\ Cardinality(S) \in Nat /\ S \in SUBSET Int
  BY FS_Interval, FS_CardinalityType
<1>2. ASSUME NEW s \in SUBSET S
      PROVE  /\ Cardinality(s) \in Nat /\ Cardinality(s) <= Cardinality(S)
             /\ s # {} => /\ s \ {Stats!Max(s)} \in SUBSET S
                          /\ Cardinality(s \ {Stats!Max(s)}) = Cardinality(s) - 1
  <2>1. IsFiniteSet(s) /\ Cardinality(s) \in Nat /\ Cardinality(s) <= Cardinality(S) /\ s \in SUBSET Int
    BY <1>1, FS_Subset, FS_CardinalityType
  <2>2. ASSUME s # {} PROVE Stats!Max(s) \in s
    BY <2>1, <2>2, GreatestIs
  <2>3. s # {} => Cardinality(s \ {Stats!Max(s)}) = Cardinality(s) - 1
    BY <2>1, <2>2, FS_RemoveElement
  <2> QED
    BY <2>1, <2>3
<1> HIDE DEF S
<1>3. Made(0)
  <2>1. \A s \in Small(0) : s = {}
    <3> SUFFICES ASSUME NEW s \in Small(0) PROVE s = {}
      OBVIOUS
    <3>2. s \in SUBSET S /\ Cardinality(s) <= 0
      OBVIOUS
    <3>3. IsFiniteSet(s) /\ Cardinality(s) \in Nat
      BY <1>1, <1>2, <3>2, FS_Subset
    <3>1. IsFiniteSet(s) /\ Cardinality(s) = 0
      BY <3>2, <3>3
    <3> QED
      BY <3>1, FS_EmptySet
  <2> DEFINE f == [s \in Small(0) |-> base]
  <2> HIDE DEF Small
  <2>2. f = [s \in Small(0) |-> IF s = {} THEN base ELSE Next1(f, s)]
    BY <2>1
  <2> QED
    BY <2>2 DEF Small
<1>4. ASSUME NEW k \in Nat, k > 0, Made(k - 1) PROVE Made(k)
  <2> DEFINE D == Small(k - 1)
             E == Small(k)
  <2>1. D \subseteq E /\ {} \in D
    <3>1. {} \in SUBSET S /\ Cardinality({}) = 0
      BY FS_EmptySet
    <3>2. ASSUME NEW s \in D PROVE s \in E
      <4>1. s \in SUBSET S /\ Cardinality(s) <= k - 1 /\ Cardinality(s) \in Nat
        BY <1>2
      <4> QED
        BY <1>4, <4>1
    <3>3. 0 <= k - 1
      BY <1>4
    <3> QED
      BY <3>1, <3>2, <3>3
  <2>2. ASSUME NEW s \in E, s # {} PROVE s \ {Stats!Max(s)} \in D
    BY <1>2, <1>4, <2>2
  <2>3. PICK f : f = [s \in D |-> IF s = {} THEN base ELSE Next1(f, s)]
    BY <1>4
  <2> HIDE DEF D, E, Small
  <2> DEFINE e == [s \in E |-> IF s = {} THEN base ELSE Next1(f, s)]
  <2>4. ASSUME NEW s \in D PROVE e[s] = f[s]
    BY <2>1, <2>3
  <2>5. ASSUME NEW s \in E, s # {} PROVE Next1(f, s) = Next1(e, s)
    BY <2>2, <2>4, <2>5
  <2>6. e = [s \in E |-> IF s = {} THEN base ELSE Next1(e, s)]
    BY <2>5
  <2> HIDE DEF e
  <2> QED
    BY <2>6 DEF E, Small
<1> HIDE DEF Made, Next1
<1>5. Made(Cardinality(S))
  <2> SUFFICES ASSUME ~Made(Cardinality(S)) PROVE FALSE
    OBVIOUS
  <2>1. bad \in SUBSET Nat /\ bad # {}
    BY <1>1
  <2>2. PICK k \in bad : \A m \in bad : k <= m
    BY <2>1, LeastIs
  <2>3. k \in Nat /\ k # 0 /\ ~Made(k)
    BY <1>3, <2>2
  <2>4. k - 1 \in Nat /\ ~(k <= k - 1) /\ k > 0
    BY <2>3
  <2>5. Made(k - 1)
    BY <2>2, <2>4
  <2> QED
    BY <1>4, <2>3, <2>4, <2>5
<1>6. Small(Cardinality(S)) = SUBSET S
  BY <1>2
<1> HIDE DEF Small
<1> QED
  BY <1>5, <1>6 DEF Made, Next1, S

\* Longest counts them.
LEMMA LongestIs ==
    ASSUME NEW n \in Nat, NEW A \in [1..n -> Int], Stats!Ascending(Stats!ActiveWeeks) = A
    PROVE  \E x : Counted(A, n, x) /\ Stats!Longest = x.longest
<1> DEFINE base == [previous |-> None, run |-> 0, longest |-> 0]
           g == CHOOSE f : f = [s \in SUBSET (1..n) |-> IF s = {} THEN base
                                ELSE NextCounted(f[s \ {Stats!Max(s)}], A[Stats!Max(s)])]
           bad == {k \in 0..n : ~Counted(A, k, g[1..k])}
<1>1. DOMAIN A = 1..n
  OBVIOUS
<1>2. Stats!Longest = g[1..n].longest
  BY <1>1 DEF Stats!Longest, Stats!FoldLeft, Stats!MapThenFoldSet, NextCounted
<1>3. g = [s \in SUBSET (1..n) |-> IF s = {} THEN base
           ELSE NextCounted(g[s \ {Stats!Max(s)}], A[Stats!Max(s)])]
  <2> DEFINE Q(f) == f = [s \in SUBSET (1..n) |-> IF s = {} THEN base
                          ELSE NextCounted(f[s \ {Stats!Max(s)}], A[Stats!Max(s)])]
  <2> HIDE DEF base
  <2>1. \E f : Q(f)
    <3>1. \A b : \E f : f = [s \in SUBSET (1..n) |-> IF s = {} THEN b
                             ELSE NextCounted(f[s \ {Stats!Max(s)}], A[Stats!Max(s)])]
      BY CountIsMade, Zenon
    <3> QED
      BY <3>1
  <2>2. g = CHOOSE f : Q(f)
    OBVIOUS
  <2> HIDE DEF Q, g
  <2>3. Q(g)
    BY <2>1, <2>2
  <2> QED
    BY <2>3 DEF Q
<1> HIDE DEF g
<1>4. Counted(A, 0, g[1..0])
  <2>1. 1..0 = {} /\ {} \in SUBSET (1..n)
    OBVIOUS
  <2>2. g[{}] = base
    BY <1>3, <2>1
  <2> QED
    BY <2>1, <2>2 DEF Counted
<1>5. ASSUME NEW k \in 1..n, Counted(A, k - 1, g[1..k - 1]) PROVE Counted(A, k, g[1..k])
  <2> DEFINE s == 1..k
  <2>1. s \in SUBSET (1..n) /\ s # {} /\ s \ {k} = 1..k - 1
    <3>1. k \in s
      OBVIOUS
    <3>2. \A i : i \in s \ {k} <=> i \in 1..k - 1
      OBVIOUS
    <3>3. \A i \in s : i \in 1..n
      OBVIOUS
    <3> QED
      BY <3>1, <3>2, <3>3
  <2>2. s \in SUBSET Int /\ k \in s /\ \A i \in s : i <= k
    OBVIOUS
  <2> HIDE DEF s
  <2>3. Stats!Max(s) = k
    BY <2>2, GreatestOf
  <2>4. g[s] = NextCounted(g[1..k - 1], A[k])
    BY <1>3, <2>1, <2>3
  <2> QED
    BY <1>5, <2>4, CountGoesOn DEF s
<1> HIDE DEF base
<1>6. Counted(A, n, g[1..n])
  <2> SUFFICES ASSUME ~Counted(A, n, g[1..n]) PROVE FALSE
    OBVIOUS
  <2>1. bad \in SUBSET Nat /\ bad # {}
    OBVIOUS
  <2>2. PICK k \in bad : \A m \in bad : k <= m
    BY <2>1, LeastIs
  <2>3. k \in 0..n /\ ~Counted(A, k, g[1..k]) /\ k # 0
    BY <1>4, <2>2
  <2>4. k \in 1..n /\ k - 1 \in 0..n /\ ~(k <= k - 1)
    BY <2>3
  <2>5. Counted(A, k - 1, g[1..k - 1])
    BY <2>2, <2>4
  <2> QED
    BY <1>5, <2>3, <2>4, <2>5
<1> QED
  BY <1>2, <1>6

\* The streaks are those of the weeks in their order.
AreRuns(n, A, W) ==
    /\ \A k \in 1..n, l \in Nat : Streak(A, k, l) =>
           l \in 1..n /\ \E w \in W : \A i \in 0..l - 1 : w + 7 * i \in W
    /\ \A w \in W, l \in Nat \ {0} :
           (\A i \in 0..l - 1 : w + 7 * i \in W) => \E k \in 1..n : Streak(A, k, l)

LEMMA RunsAre ==
    ASSUME NEW n \in Nat, NEW A \in [1..n -> Int], NEW W, \A i \in 1..n : A[i] \in W, \A w \in W : \E i \in 1..n : A[i] = w,
           \A i, j \in 1..n : i < j <=> A[i] < A[j],
           \A v, w \in W : v < w => v + 7 <= w
    PROVE  AreRuns(n, A, W)
<1>1. ASSUME NEW k \in 1..n, NEW l \in Nat, Streak(A, k, l)
      PROVE  l \in 1..n /\ \E w \in W : \A i \in 0..l - 1 : w + 7 * i \in W
  <2>1. l \in 1..k /\ \A i \in k - l + 1..k : A[i] = A[k] - 7 * (k - i)
    BY <1>1 DEF Streak
  <2> DEFINE p == k - l + 1
  <2>2. p \in 1..k /\ p \in k - l + 1..k
    BY <2>1
  <2>3. A[p] = A[k] - 7 * (k - p) /\ A[p] \in W /\ p \in 1..n
    BY <2>1, <2>2
  <2>4. ASSUME NEW i \in 0..l - 1 PROVE A[p] + 7 * i \in W
    <3>1. p + i \in k - l + 1..k /\ p + i \in 1..n
      BY <2>1, <2>2
    <3>2. A[p + i] = A[k] - 7 * (k - (p + i)) /\ A[p + i] \in W
      BY <2>1, <3>1
    <3>3. A[k] \in Int /\ A[p] \in Int
      BY <2>3
    <3>4. A[p] + 7 * i = A[k] - 7 * (k - (p + i))
      BY <2>1, <2>3, <3>3
    <3> QED
      BY <3>2, <3>4
  <2>5. l \in 1..n
    BY <2>1
  <2> HIDE DEF p
  <2> QED
    BY <2>3, <2>4, <2>5
<1>2. ASSUME NEW w \in W, NEW l \in Nat \ {0}, \A i \in 0..l - 1 : w + 7 * i \in W
      PROVE  \E k \in 1..n : Streak(A, k, l)
  <2>1. PICK p \in 1..n : A[p] = w
    OBVIOUS
  <2> DEFINE At(i) == p + i \in 1..n /\ A[p + i] = w + 7 * i
             bad == {i \in 0..l - 1 : ~At(i)}
  <2>2. At(0)
    BY <2>1
  <2>3. ASSUME NEW i \in 1..l - 1, At(i - 1) PROVE At(i)
    <3>1. p + (i - 1) \in 1..n /\ A[p + (i - 1)] = w + 7 * (i - 1) /\ w \in Int
      BY <2>1, <2>3
    <3> DEFINE q == p + (i - 1)
    <3>2. q \in 1..n /\ A[q] = w + 7 * (i - 1) /\ q + 1 = p + i
      BY <3>1
    <3> HIDE DEF q
    <3>3. w + 7 * i \in W
      BY <1>2
    <3>4. PICK r \in 1..n : A[r] = w + 7 * i
      BY <3>3
    <3>5. q < r
      <4>1. A[q] < A[r]
        BY <3>1, <3>2, <3>4
      <4> QED
        BY <3>2, <4>1
    <3>6. r = q + 1
      <4> SUFFICES ASSUME r # q + 1 PROVE FALSE
        OBVIOUS
      <4>1. q + 1 \in 1..n /\ q < q + 1 /\ q + 1 < r
        BY <3>2, <3>5
      <4>2. A[q] < A[q + 1] /\ A[q + 1] < A[r] /\ {A[q], A[q + 1], A[r]} \subseteq W
        BY <3>2, <4>1
      <4>3. A[q] + 7 <= A[q + 1] /\ A[q + 1] \in Int
        BY <4>1, <4>2
      <4> QED
        BY <3>1, <3>2, <3>4, <4>2, <4>3
    <3> QED
      BY <3>2, <3>4, <3>6
  <2>4. \A i \in 0..l - 1 : At(i)
    <3> HIDE DEF At
    <3> SUFFICES ASSUME bad # {} PROVE FALSE
      OBVIOUS
    <3>1. PICK i \in bad : \A m \in bad : i <= m
      <4>1. bad \in SUBSET Nat
        OBVIOUS
      <4> HIDE DEF bad
      <4> QED
        BY <4>1, LeastIs
    <3>2. i \in 0..l - 1 /\ ~At(i) /\ i # 0
      BY <2>2, <3>1
    <3>3. i \in 1..l - 1 /\ i - 1 \in 0..l - 1 /\ ~(i <= i - 1)
      BY <3>2
    <3>4. At(i - 1)
      BY <3>1, <3>3
    <3> QED
      BY <2>3, <3>2, <3>3, <3>4
  <2> DEFINE k == p + (l - 1)
  <2>5. k \in 1..n /\ A[k] = w + 7 * (l - 1)
    <3>1. l - 1 \in 0..l - 1
      OBVIOUS
    <3> QED
      BY <2>4, <3>1
  <2>6. ASSUME NEW i \in k - l + 1..k PROVE A[i] = A[k] - 7 * (k - i)
    <3>1. i - p \in 0..l - 1 /\ p + (i - p) = i
      OBVIOUS
    <3>2. A[i] = w + 7 * (i - p)
      BY <2>4, <3>1
    <3>3. w \in Int
      BY <2>1
    <3> QED
      BY <2>5, <3>2, <3>3
  <2>7. l \in 1..k
    OBVIOUS
  <2>8. Streak(A, k, l)
    BY <2>5, <2>6, <2>7 DEF Streak
  <2> QED
    BY <2>5, <2>8
<1> QED
  BY <1>1, <1>2 DEF AreRuns

\* The first gap, counting back from this week.
LEMMA GapIs ==
    ASSUME NEW W \in SUBSET Int, IsFiniteSet(W), NEW t \in Int
    PROVE  LET gaps == {i \in 0..Cardinality(W) : t - 7 * i \notin W}
           IN  /\ Stats!Min(gaps) \in 0..Cardinality(W) /\ Cardinality(W) \in Nat
               /\ t - 7 * Stats!Min(gaps) \notin W
               /\ \A i \in 0..Stats!Min(gaps) - 1 : t - 7 * i \in W
<1> DEFINE n == Cardinality(W)
           gaps == {i \in 0..n : t - 7 * i \notin W}
<1>1. n \in Nat
  BY FS_CardinalityType
<1>2. gaps # {}
  <2> SUFFICES ASSUME gaps = {} PROVE FALSE
    OBVIOUS
  <2> DEFINE f == [i \in 0..n |-> t - 7 * i]
             D == 0..n
  <2>1. f \in [0..n -> W]
    OBVIOUS
  <2>2. IsFiniteSet(D) /\ Cardinality(D) = n + 1
    <3> HIDE DEF n
    <3> QED
      BY <1>1, FS_Interval
  <2>3. \A i, j \in D : f[i] = f[j] => i = j
    BY <1>1
  <2> HIDE DEF n, f
  <2>4. f \in Injection(D, W)
    BY <2>1, <2>3 DEF Injection, IsInjective
  <2> HIDE DEF D
  <2>5. Cardinality(D) <= n
    BY <2>4, FS_Injection DEF n
  <2> QED
    BY <1>1, <2>2, <2>5
<1> HIDE DEF n
<1>3. gaps \in SUBSET Int /\ IsFiniteSet(gaps) /\ gaps \in SUBSET (0..n)
  <2>1. IsFiniteSet(0..n) /\ gaps \in SUBSET (0..n)
    BY <1>1, FS_Interval
  <2> QED
    BY <1>1, <2>1, FS_Subset
<1> DEFINE c == Stats!Min(gaps)
<1>4. c \in gaps /\ \A i \in gaps : c <= i
  <2> HIDE DEF gaps
  <2> QED
    BY <1>2, <1>3, GreatestIs
<1> HIDE DEF c
<1>5. c \in 0..n /\ t - 7 * c \notin W
  BY <1>4
<1>6. ASSUME NEW i \in 0..c - 1 PROVE t - 7 * i \in W
  <2>1. i \in 0..n /\ ~(c <= i)
    BY <1>1, <1>5
  <2> QED
    BY <1>4, <2>1
<1> QED
  BY <1>1, <1>5, <1>6 DEF c, n

LEMMA StreaksAreRight == StatsInv => Stats!StreaksAreRuns
<1> SUFFICES ASSUME StatsInv PROVE Stats!StreaksAreRuns
  OBVIOUS
<1> DEFINE W == Stats!ActiveWeeks
           n == Cardinality(W)
           A == Ascending(W)
           t == Stats!WeekStart(Today)
           runs == {r \in W \X (1..MaxEntries) : \A i \in 0..r[2] - 1 : r[1] + 7 * i \in W}
           ending == {r \in runs : r[1] + 7 * (r[2] - 1) = t}
           long == {0} \cup {r[2] : r \in runs}
           recent == {0} \cup {r[2] : r \in ending}
<1>1. /\ W \in SUBSET Int /\ IsFiniteSet(W) /\ n <= MaxEntries /\ MaxEntries \in Nat
      /\ \A v, w \in W : v < w => v + 7 <= w
      /\ t \in Int
  BY WeeksAre, LogbookBounds
<1>2. Stats!Longest = Stats!Max(long) /\ Stats!Current = Stats!Max(recent)
  <2> HIDE DEF W
  <2>1. /\ n \in Nat /\ A \in [1..n -> W]
        /\ \A x \in W : \E i \in 1..n : A[i] = x
        /\ \A i, j \in 1..n : i < j <=> A[i] < A[j]
    BY <1>1, AscendingIs
  <2>2. A \in [1..n -> Int] /\ W = {A[i] : i \in 1..n}
    <3> HIDE DEF n, A, t, runs, ending, long, recent
    <3>1. \A i \in 1..n : A[i] \in W
      BY <2>1
    <3>2. A \in [1..n -> Int]
      BY <1>1, <2>1, <3>1
    <3>3. W = {A[i] : i \in 1..n}
      BY <2>1, <3>1
    <3> QED
      BY <3>2, <3>3
  <2>3. Stats!Ascending(W) = A
    BY StatsKeeps
  <2>4. Stats!Current = Stats!Min({i \in 0..n : t - 7 * i \notin W})
    BY StatsKeeps DEF Stats!Current, W
  <2>5. /\ \A k \in 1..n, l \in Nat : Streak(A, k, l) =>
               l \in 1..n /\ \E w \in W : \A i \in 0..l - 1 : w + 7 * i \in W
        /\ \A w \in W, l \in Nat \ {0} :
               (\A i \in 0..l - 1 : w + 7 * i \in W) => \E k \in 1..n : Streak(A, k, l)
    <3> HIDE DEF n, A, t, runs, ending, long, recent
    <3>1. n \in Nat /\ (\A i \in 1..n : A[i] \in W) /\ (\A w \in W : \E i \in 1..n : A[i] = w) /\ (\A i, j \in 1..n : i < j <=> A[i] < A[j]) /\ (\A v, w \in W : v < w => v + 7 <= w)
      BY <1>1, <2>1
    <3>2. A \in [1..n -> Int]
      BY <2>2
    <3>3. AreRuns(n, A, W)
      BY <3>1, <3>2, RunsAre
    <3> QED
      BY <3>3 DEF AreRuns
  <2>6. PICK x : Counted(A, n, x) /\ Stats!Longest = x.longest
    <3> HIDE DEF n, A
    <3> QED
      BY <2>1, <2>2, <2>3, LongestIs DEF W
  <2> DEFINE c == Stats!Current
  <2>7. c \in 0..n /\ t - 7 * c \notin W /\ \A i \in 0..c - 1 : t - 7 * i \in W
    <3> HIDE DEF t, c
    <3> QED
      BY <1>1, <2>4, GapIs DEF c
  <2> HIDE DEF n, A, t, c
  <2>8. long \in SUBSET Int /\ recent \in SUBSET Int
    BY <1>1
  <2>9. ASSUME NEW r \in runs PROVE r[1] \in W /\ r[2] \in 1..MaxEntries /\ r[2] \in Nat \ {0}
    BY <1>1
  <2>10. Stats!Longest = Stats!Max(long)
    <3>1. CASE n = 0
      <4>1. W = {}
        BY <2>2, <3>1
      <4>2. long = {0}
        BY <4>1
      <4>3. Stats!Longest = 0
        BY <2>6, <3>1 DEF Counted
      <4> HIDE DEF long
      <4>4. long \in SUBSET Int /\ 0 \in long /\ \A y \in long : y <= 0
        BY <4>2
      <4> QED
        BY <4>3, <4>4, GreatestOf
    <3>2. CASE n # 0
      <4> DEFINE l == x.longest
      <4>1. /\ l \in Nat /\ \E j \in 1..n : Streak(A, j, l)
            /\ \A j \in 1..n, m \in Nat : Streak(A, j, m) => m <= l
        BY <2>6, <3>2 DEF Counted
      <4> HIDE DEF l
      <4>2. l \in 1..n /\ \E w \in W : \A i \in 0..l - 1 : w + 7 * i \in W
        BY <2>5, <4>1
      <4>3. PICK w \in W : \A i \in 0..l - 1 : w + 7 * i \in W
        BY <4>2, Zenon
      <4>4. l \in 1..MaxEntries
        BY <1>1, <2>1, <4>2
      <4>5. <<w, l>> \in runs
        BY <4>3, <4>4
      <4>6. l \in long
        BY <4>5
      <4>7. ASSUME NEW y \in long PROVE y <= l
        <5>1. CASE y = 0
          BY <4>1, <5>1
        <5>2. CASE y # 0
          <6>1. PICK r \in runs : y = r[2]
            BY <5>2
          <6>2. \E k \in 1..n : Streak(A, k, r[2])
            BY <2>5, <2>9
          <6> QED
            BY <2>9, <4>1, <6>1, <6>2
        <5> QED
          BY <5>1, <5>2
      <4> HIDE DEF long
      <4>8. Stats!Max(long) = l
        BY <2>8, <4>6, <4>7, GreatestOf
      <4> QED
        BY <2>6, <4>8 DEF l
    <3> QED
      BY <3>1, <3>2
  <2>11. c = Stats!Max(recent)
    <3>1. c \in recent
      <4>1. CASE c = 0
        BY <4>1
      <4>2. CASE c # 0
        <5> DEFINE w == t - 7 * (c - 1)
        <5>1. c - 1 \in 0..c - 1 /\ c \in 1..MaxEntries
          BY <1>1, <2>1, <2>7, <4>2
        <5>2. w \in W
          BY <2>7, <5>1
        <5>3. ASSUME NEW i \in 0..c - 1 PROVE w + 7 * i \in W
          <6>1. (c - 1) - i \in 0..c - 1
            BY <5>1
          <6>2. t - 7 * ((c - 1) - i) \in W
            BY <2>7, <6>1
          <6>3. w + 7 * i = t - 7 * ((c - 1) - i)
            BY <1>1, <5>1
          <6> QED
            BY <6>2, <6>3
        <5>4. w + 7 * (c - 1) = t
          BY <1>1, <5>1
        <5> HIDE DEF w
        <5>5. <<w, c>> \in ending
          BY <5>1, <5>2, <5>3, <5>4
        <5> QED
          BY <5>5
      <4> QED
        BY <4>1, <4>2
    <3>2. ASSUME NEW y \in recent PROVE y <= c
      <4>1. CASE y = 0
        BY <2>1, <2>7, <4>1
      <4>2. CASE y # 0
        <5>1. PICK r \in ending : y = r[2]
          BY <4>2
        <5>2. r \in runs /\ r[1] + 7 * (r[2] - 1) = t /\ \A i \in 0..r[2] - 1 : r[1] + 7 * i \in W
          BY <5>1
        <5>3. r[1] \in Int /\ r[2] \in Nat \ {0} /\ c \in Nat
          <6>1. r[1] \in W /\ r[2] \in Nat \ {0}
            BY <2>9, <5>2
          <6>2. c \in Nat
            BY <2>1, <2>7
          <6> QED
            BY <1>1, <6>1, <6>2
        <5>4. ASSUME r[2] > c PROVE FALSE
          <6> DEFINE i == r[2] - 1 - c
          <6>1. i \in 0..r[2] - 1
            BY <5>3, <5>4
          <6>2. r[1] + 7 * i = t - 7 * c
            BY <5>2, <5>3
          <6> QED
            BY <2>7, <5>2, <6>1, <6>2
        <5> QED
          BY <5>1, <5>3, <5>4
      <4> QED
        BY <4>1, <4>2
    <3> HIDE DEF recent
    <3> QED
      BY <2>8, <3>1, <3>2, GreatestOf
  <2> QED
    BY <2>10, <2>11 DEF c
<1> QED
  BY <1>2 DEF Stats!StreaksAreRuns

-----------------------------------------------------------------------------
(* The list of climbs.                                                     *)

ClimbRows == [id : Nat, grade : 0..MaxGrade, holds : SUBSET WallHolds, other : BOOLEAN]

\* A list that has nothing twice.
Once(list) == \A i, j \in DOMAIN list : list[i] = list[j] => i = j

LEMMA ListKeeps ==
    /\ \A list, places : List!Kept(list, places) = Kept(list, places)
    /\ \A S, ahead : List!Arranged(S, ahead) = Arranged(S, ahead)
BY DEF List!Kept, List!Ascending, List!Arranged, List!Cardinality, Kept, Ascending, Arranged, Cardinality

LEMMA KeptOnce ==
    ASSUME NEW T, NEW list \in Seq(T), NEW places \in SUBSET DOMAIN list, Once(list)
    PROVE  Once(Kept(list, places))
<1> DEFINE n == Cardinality(places)
           A == Ascending(places)
           K == Kept(list, places)
<1>1. /\ n \in Nat /\ DOMAIN K = 1..n
      /\ \A k \in 1..n : A[k] \in places /\ K[k] = list[A[k]]
      /\ \A i, j \in 1..n : i < j <=> A[i] < A[j]
  BY KeptIs
<1>2. \A i \in DOMAIN list : i \in Int
  OBVIOUS
<1> HIDE DEF n, A, K
<1>3. ASSUME NEW i \in 1..n, NEW j \in 1..n, K[i] = K[j] PROVE i = j
  <2>1. A[i] = A[j]
    BY <1>1, <1>3 DEF Once
  <2>2. A[i] \in Int /\ A[j] \in Int
    BY <1>1, <1>2
  <2>3. ~(A[i] < A[j]) /\ ~(A[j] < A[i])
    BY <2>1, <2>2
  <2>4. ~(i < j) /\ ~(j < i)
    BY <1>1, <2>3
  <2> QED
    BY <1>1, <2>4
<1> QED
  BY <1>1, <1>3 DEF Once, K

\* The climbs of a circuit, in its order.
LEMMA CircuitApplies ==
    ASSUME NEW c \in WallCircuits
    PROVE  /\ List!ApplyCircuit(WallClimbs, CircuitOrder[c]) \in Seq(ClimbRows)
           /\ Once(List!ApplyCircuit(WallClimbs, CircuitOrder[c]))
<1> DEFINE ids == CircuitOrder[c]
           R == List!Range(WallClimbs)
           named == {i \in DOMAIN ids : \E r \in R : r.id = ids[i]}
           found == Kept(ids, named)
           byId(id) == CHOOSE r \in R : r.id = id
           climbs == [n \in DOMAIN found |-> byId(found[n])]
<1>1. ids \in Seq(Nat) /\ Once(ids)
  BY ClimbsHaveIds DEF Once
<1>2. R \subseteq ClimbRows
  <2>1. WallClimbs \in Seq(ClimbRows)
    BY ClimbsHaveIds DEF ClimbRows
  <2>2. \A i \in DOMAIN WallClimbs : WallClimbs[i] \in ClimbRows
    BY <2>1
  <2> QED
    BY <2>2 DEF List!Range
<1>3. List!ApplyCircuit(WallClimbs, ids) = climbs
  <2>1. List!Kept(ids, named) = found
    BY ListKeeps
  <2>2. List!ApplyCircuit(WallClimbs, ids) =
            [n \in DOMAIN List!Kept(ids, named) |-> byId(List!Kept(ids, named)[n])]
    BY DEF List!ApplyCircuit
  <2> QED
    BY <2>1, <2>2
<1> HIDE DEF ids, R
<1>4. named \in SUBSET DOMAIN ids
  OBVIOUS
<1>5. /\ Cardinality(named) \in Nat /\ DOMAIN found = 1..Cardinality(named)
      /\ \A n \in DOMAIN found : \E i \in named : found[n] = ids[i]
  <2> HIDE DEF named
  <2> QED
    BY <1>1, <1>4, KeptIs
<1>6. Once(found)
  <2> HIDE DEF named
  <2> QED
    BY <1>1, <1>4, KeptOnce
<1>7. ASSUME NEW n \in DOMAIN found PROVE byId(found[n]) \in R /\ byId(found[n]).id = found[n]
  <2>1. PICK i \in named : found[n] = ids[i]
    BY <1>5
  <2>2. \E r \in R : r.id = found[n]
    BY <2>1
  <2> QED
    BY <2>2
<1> HIDE DEF found, byId
<1>8. Once(climbs)
  <2>1. ASSUME NEW i \in DOMAIN found, NEW j \in DOMAIN found, byId(found[i]) = byId(found[j]) PROVE i = j
    BY <1>6, <1>7, <2>1 DEF Once
  <2> QED
    BY <2>1 DEF Once
<1>9. climbs \in Seq(ClimbRows)
  <2>1. \A n \in DOMAIN found : byId(found[n]) \in ClimbRows
    BY <1>2, <1>7
  <2> DEFINE k == Cardinality(named)
  <2> HIDE DEF named, k
  <2>2. k \in Nat /\ DOMAIN found = 1..k
    BY <1>5 DEF k
  <2>3. climbs \in [1..k -> ClimbRows]
    BY <2>1, <2>2
  <2> HIDE DEF climbs
  <2> QED
    BY <2>2, <2>3
<1> QED
  BY <1>3, <1>8, <1>9 DEF ids

\* What is shown newest first, or in the circuit's order.
PlainList == List!Shown(List!Parse(listShown), "newest")

LEMMA PlainListIs ==
    ASSUME ListInv
    PROVE  /\ PlainList \in Seq(ClimbRows) /\ Once(PlainList)
           /\ \A sort : List!Shown(List!Parse(listShown), sort) = List!SortRoutes(PlainList, sort)
           /\ ~List!HasFilters(List!Parse(listShown)) => PlainList # <<>>
<1> DEFINE f == List!Parse(listShown)
           climbs == IF f.circuit \in circuits THEN List!ApplyCircuit(WallClimbs, CircuitOrder[f.circuit])
                     ELSE WallClimbs
           here == {i \in DOMAIN climbs : List!Matches(climbs[i], f)}
<1>1. \A sort : List!Shown(f, sort) = List!SortRoutes(Kept(climbs, here), sort)
  BY ListKeeps DEF List!Shown
<1>2. PlainList = Kept(climbs, here)
  BY <1>1 DEF PlainList, List!SortRoutes
<1>3. climbs \in Seq(ClimbRows) /\ Once(climbs)
  <2>1. f.circuit \in circuits => f.circuit \in WallCircuits
    BY DEF ListInv, ListTyped
  <2>2. WallClimbs \in Seq(ClimbRows) /\ Once(WallClimbs)
    BY ClimbsHaveIds DEF Once, ClimbRows
  <2> QED
    BY <2>1, <2>2, CircuitApplies
<1>4. here \in SUBSET DOMAIN climbs
  OBVIOUS
<1>5. Kept(climbs, here) \in Seq(ClimbRows) /\ Once(Kept(climbs, here))
  <2> HIDE DEF climbs, here
  <2> QED
    BY <1>3, <1>4, KeptIs, KeptOnce
<1>6. ASSUME ~List!HasFilters(f) PROVE Kept(climbs, here) # <<>>
  <2>1. f.holds = {} /\ f.min = 0 /\ f.max = 0 /\ f.circuit = None /\ ~f.other
    BY <1>6 DEF List!HasFilters
  <2>2. f.circuit \notin circuits
    BY <2>1, NoneIsNoCircuit DEF ListInv, ListTyped
  <2>3. climbs = WallClimbs
    BY <2>2
  <2>4. \A i \in DOMAIN climbs : i \in here
    BY <2>1 DEF List!Matches, List!IsWithinRange
  <2>5. 1 \in DOMAIN climbs
    <3>1. WallClimbs # <<>> /\ WallClimbs \in Seq(ClimbRows)
      BY ClimbsHaveIds DEF ClimbRows
    <3> QED
      BY <2>3, <3>1
  <2> HIDE DEF climbs, here
  <2>6. \E n \in 1..Cardinality(here) : Ascending(here)[n] = 1
    BY <1>3, <1>4, <2>4, <2>5, KeptIs
  <2>7. DOMAIN Kept(climbs, here) # {}
    BY <1>3, <1>4, <2>6, KeptIs
  <2> QED
    BY <2>7
<1> QED
  BY <1>1, <1>2, <1>5, <1>6

LEMMA EmptyListIsRight == ListInv => List!EmptyListCanBeCleared
<1> SUFFICES ASSUME ListInv, \A sort \in List!Sorts : List!Shown(List!Parse(listShown), sort) = <<>>
             PROVE  List!HasFilters(List!Parse(listShown))
  BY DEF List!EmptyListCanBeCleared
<1>1. PlainList = <<>>
  BY DEF PlainList, List!Sorts
<1> QED
  BY <1>1, PlainListIs

LEMMA GradesAreNumbers ==
    ASSUME NEW list \in Seq(ClimbRows)
    PROVE  \A i \in DOMAIN list : list[i].grade \in Nat
<1>1. \A i \in DOMAIN list : list[i] \in ClimbRows
  OBVIOUS
<1>2. \A row \in ClimbRows : row.grade \in 0..MaxGrade
  BY DEF ClimbRows
<1> QED
  BY <1>1, <1>2, ListBounds

\* The order of two places of a list.
IsBefore(list, sort, i, j) ==
    LET x == list[i].grade  y == list[j].grade
    IN  IF x = y THEN i < j
        ELSE y = 0 \/ (x # 0 /\ IF sort = "grade_asc" THEN x < y ELSE y < x)

LEMMA SortedIs ==
    ASSUME NEW list \in Seq(ClimbRows), NEW sort, sort # "newest"
    PROVE  \E p \in [DOMAIN list -> DOMAIN list] :
               /\ List!SortRoutes(list, sort) = [i \in DOMAIN list |-> list[p[i]]]
               /\ \A x \in DOMAIN list : \E i \in DOMAIN list : p[i] = x
               /\ \A i, j \in DOMAIN list : i < j <=> IsBefore(list, sort, p[i], p[j])
<1> DEFINE D == DOMAIN list
           n == Len(list)
           ahead == [j \in D |-> {i \in D : IsBefore(list, sort, i, j)}]
           p == Arranged(D, ahead)
<1>1. List!SortRoutes(list, sort) = [i \in DOMAIN p |-> list[p[i]]]
  BY ListKeeps DEF List!SortRoutes, IsBefore
<1>2. D = 1..n /\ n \in Nat /\ \A i \in D : list[i].grade \in Nat
  BY GradesAreNumbers
<1> HIDE DEF D, n
<1>3. IsFiniteSet(D) /\ Cardinality(D) = n
  <2>1. IsFiniteSet(1..n) /\ Cardinality(1..n) = IF 1 > n THEN 0 ELSE n - 1 + 1
    BY <1>2, FS_Interval
  <2>2. Cardinality(1..n) = n
    BY <1>2, <2>1
  <2> QED
    BY <1>2, <2>1, <2>2
<1>4. \A i, j \in D : i \in ahead[j] <=> IsBefore(list, sort, i, j)
  OBVIOUS
<1>5. \A i \in D : ahead[i] \subseteq D /\ i \notin ahead[i]
  BY <1>2 DEF IsBefore
<1>6. \A i, j \in D : i \in ahead[j] \/ j \in ahead[i] \/ i = j
  <2> SUFFICES ASSUME NEW i \in D, NEW j \in D
               PROVE  IsBefore(list, sort, i, j) \/ IsBefore(list, sort, j, i) \/ i = j
    BY <1>4
  <2>1. i \in Int /\ j \in Int /\ list[i].grade \in Nat /\ list[j].grade \in Nat
    BY <1>2
  <2> QED
    BY <2>1 DEF IsBefore
<1>7. \A i, j \in D : i \in ahead[j] => ahead[i] \subseteq ahead[j]
  <2> SUFFICES ASSUME NEW i \in D, NEW j \in D, NEW k \in D,
                      IsBefore(list, sort, i, j), IsBefore(list, sort, k, i)
               PROVE  IsBefore(list, sort, k, j)
    BY <1>4, <1>5
  <2>1. /\ i \in Int /\ j \in Int /\ k \in Int
        /\ list[i].grade \in Nat /\ list[j].grade \in Nat /\ list[k].grade \in Nat
    BY <1>2
  <2> QED
    BY <2>1 DEF IsBefore
<1> HIDE DEF ahead
<1>8. /\ p \in [D -> D] /\ (\A x \in D : \E i \in D : p[i] = x)
      /\ \A i, j \in D : i < j <=> p[i] \in ahead[p[j]]
  <2>1. /\ p \in [1..n -> D] /\ (\A x \in D : \E i \in 1..n : p[i] = x)
        /\ \A i, j \in 1..n : i < j <=> p[i] \in ahead[p[j]]
    BY <1>3, <1>5, <1>6, <1>7, ArrangedIs
  <2> QED
    BY <1>2, <2>1
<1> HIDE DEF p
<1>9. \A i, j \in D : i < j <=> IsBefore(list, sort, p[i], p[j])
  BY <1>4, <1>8
<1>10. List!SortRoutes(list, sort) = [i \in D |-> list[p[i]]]
  BY <1>1, <1>8
<1> QED
  BY <1>8, <1>9, <1>10 DEF D

LEMMA OrderIsRight == ListInv => List!ListIsInOrder
<1> SUFFICES ASSUME ListInv, NEW sort \in List!Sorts \ {"newest"}
             PROVE  LET place(r, list) == CHOOSE i \in DOMAIN list : list[i] = r
                        plain == PlainList
                        list == List!Shown(List!Parse(listShown), sort)
                    IN  /\ Len(list) = Len(plain) /\ List!ToSet(list) = List!ToSet(plain)
                        /\ \A i, j \in DOMAIN list : i < j =>
                            /\ list[i].grade = 0 => list[j].grade = 0
                            /\ list[j].grade # 0 =>
                                   IF sort = "grade_asc" THEN list[i].grade <= list[j].grade
                                                         ELSE list[j].grade <= list[i].grade
                            /\ list[i].grade = list[j].grade => place(list[i], plain) < place(list[j], plain)
  BY DEF List!ListIsInOrder, PlainList
<1> DEFINE plain == PlainList
           list == List!Shown(List!Parse(listShown), sort)
           place(r) == CHOOSE i \in DOMAIN plain : plain[i] = r
           D == DOMAIN plain
<1>1. plain \in Seq(ClimbRows) /\ Once(plain) /\ list = List!SortRoutes(plain, sort)
  BY PlainListIs
<1> HIDE DEF plain, list
<1>2. PICK p \in [D -> D] :
          /\ list = [i \in D |-> plain[p[i]]]
          /\ \A x \in D : \E i \in D : p[i] = x
          /\ \A i, j \in D : i < j <=> IsBefore(plain, sort, p[i], p[j])
  BY <1>1, SortedIs
<1>3. D = 1..Len(plain) /\ Len(plain) \in Nat /\ \A i \in D : plain[i].grade \in Nat
  BY <1>1, GradesAreNumbers
<1>4. Len(list) = Len(plain) /\ DOMAIN list = D
  BY <1>2, <1>3
<1>5. List!ToSet(list) = List!ToSet(plain)
  BY <1>2, <1>4 DEF List!ToSet
<1>6. ASSUME NEW i \in D PROVE place(list[i]) = p[i] /\ p[i] \in D /\ list[i] = plain[p[i]]
  <2>1. p[i] \in D /\ list[i] = plain[p[i]]
    BY <1>2
  <2> QED
    BY <1>1, <2>1 DEF Once
<1>7. ASSUME NEW i \in D, NEW j \in D, i < j
      PROVE  /\ list[i].grade = 0 => list[j].grade = 0
             /\ list[j].grade # 0 =>
                    IF sort = "grade_asc" THEN list[i].grade <= list[j].grade
                                          ELSE list[j].grade <= list[i].grade
             /\ list[i].grade = list[j].grade => place(list[i]) < place(list[j])
  <2>1. IsBefore(plain, sort, p[i], p[j])
    BY <1>2, <1>7
  <2>2. list[i].grade \in Nat /\ list[j].grade \in Nat
    BY <1>3, <1>6
  <2>3. LET x == list[i].grade  y == list[j].grade
        IN  IF x = y THEN p[i] < p[j]
            ELSE y = 0 \/ (x # 0 /\ IF sort = "grade_asc" THEN x < y ELSE y < x)
    BY <1>6, <2>1 DEF IsBefore
  <2> HIDE DEF place
  <2> QED
    BY <1>6, <2>2, <2>3
<1> QED
  BY <1>4, <1>5, <1>7 DEF plain, list

-----------------------------------------------------------------------------

\* Whatever climbs, circuits and logbook there are, and whatever filters and wall are chosen,
\* what the pages show is what there is.
THEOREM ViewsMatch == PagesSpec => []ViewsMatchTheData
<1>1. PagesSpec => []PagesIInv
  BY PagesBegin, PagesStep, PTL DEF PagesSpec
<1>2. PagesIInv => ViewsMatchTheData
  BY OrderIsRight, EmptyListIsRight, PyramidIsRight, MonthsAreRight, StreaksAreRight, ColoursAreRight
  DEF PagesIInv, ViewsMatchTheData
<1> QED
  BY <1>1, <1>2, PTL

=============================================================================
