--------------------------- MODULE MCClientSession ---------------------------
(* Small instances of ClientSession for TLC. *)
EXTENDS ClientSession, TLC

CONSTANTS t1, t2, r1, r2, r3

OneEach == r1 :> t1 @@ r2 :> t2
OneOnly == r1 :> t1

=============================================================================
