------------------------------- MODULE Arrays -------------------------------
(***************************************************************************)
(* Sorting and filtering, as the pages do it (Array.prototype.sort and     *)
(* filter), by the place of each element: that is how many come before it. *)
(***************************************************************************)
EXTENDS Integers, FiniteSets

\* The elements of a set in an order, of which ahead[x] are those before x.
Arranged(S, ahead) ==
    [n \in 1..Cardinality(S) |-> CHOOSE x \in S : Cardinality(ahead[x]) = n - 1]

\* Numbers in their own order.
Ascending(S) == Arranged(S, [n \in S |-> {m \in S : m < n}])

\* What a list has at some of its places.
Kept(list, places) ==
    LET kept == Ascending(places)
    IN  [n \in DOMAIN kept |-> list[kept[n]]]

=============================================================================
