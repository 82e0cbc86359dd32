------------------------------ MODULE MCWallResets ------------------------------
(* Small instances of WallResets for TLC. *)
EXTENDS WallResets, TLC

CONSTANTS i1, i2, i3, a, b, d, e, c1, c2, r1

\* Two holds on each of two images.
Pairs == (a :> i1) @@ (b :> i1) @@ (d :> i2) @@ (e :> i2)

\* Detected holds of one image are interchangeable.
SameHome == Permutations({a, b}) \cup Permutations({d, e})

\* One hold on each of two images, and an image without holds.
Firsts == (a :> i1) @@ (d :> i2)

\* Requests are interchangeable.
SameKind == Permutations(Clients)

=============================================================================
