------------------------------ MODULE MCAccounts ------------------------------
(* Small instances of Accounts for TLC. *)
EXTENDS Accounts, TLC

CONSTANTS u1, u2, p1, p2, p3, s1, s2, ann, bob, box1, box2

\* One account.  Ann registers it with a password; it is bob's address.
OneBox == u1 :> box1
AnnAndBob == (p1 :> ann) @@ (p2 :> bob) @@ (p3 :> ann) @@ (s1 :> bob) @@ (s2 :> ann)
BothAtU == (s1 :> u1) @@ (s2 :> u1)

\* Two accounts, each the address of one person's identity.
TwoBoxes == (u1 :> box1) @@ (u2 :> box2)
ByAnn == (p1 :> ann) @@ (s1 :> bob) @@ (s2 :> ann)
OneEach == (s1 :> u1) @@ (s2 :> u2)

Alike == Permutations(Requests) \cup Permutations(Tokens)

=============================================================================
