------------------------------ MODULE MCCircuits ------------------------------
(* Small instances of Circuits for TLC. *)
EXTENDS Circuits, TLC

CONSTANTS a1, b1, b2, b3

\* Routes of the owner are interchangeable, and so are those of others.
SameSetter == Permutations(Own) \cup Permutations(Routes \ Own)

=============================================================================
