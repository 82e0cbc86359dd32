----------------------------- MODULE MCWallCamera -----------------------------
(* Instances of WallCamera for TLC. *)
EXTENDS WallCamera, TLC

=============================================================================
