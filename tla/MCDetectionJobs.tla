---------------------------- MODULE MCDetectionJobs ----------------------------
(* Small instances of DetectionJobs for TLC. *)
EXTENDS DetectionJobs, TLC

\* Safety runs only: worker processes are interchangeable.
Interchangeable == Permutations(Workers)

=============================================================================
