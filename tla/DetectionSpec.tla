----------------------------- MODULE DetectionSpec -----------------------------
(***************************************************************************)
(* What hold detection promises to the rest of Spraywall, without workers, *)
(* leases, attempts or crashes.  Every uploaded wall image has one job.    *)
(* The job waits until its detected holds are stored or it is given up;    *)
(* the holds are stored in one indivisible step, and never a second time.  *)
(* Removing the image removes its holds and ends the job's story.          *)
(***************************************************************************)
EXTENDS Naturals

CONSTANT Jobs

VARIABLES
    fate,       \* what an observer of the job's image knows about the job
    results     \* how many sets of detected holds are stored for the image

vars == <<fate, results>>

Fates == {"none", "waiting", "done", "failed", "removed"}

TypeOK ==
    /\ fate \in [Jobs -> Fates]
    /\ results \in [Jobs -> Nat]

Init ==
    /\ fate \in [Jobs -> {"none", "waiting"}]
    /\ results = [j \in Jobs |-> 0]

Submit(j) ==
    /\ fate[j] = "none"
    /\ fate' = [fate EXCEPT ![j] = "waiting"]
    /\ UNCHANGED results

Deliver(j) ==
    /\ fate[j] = "waiting"
    /\ fate' = [fate EXCEPT ![j] = "done"]
    /\ results' = [results EXCEPT ![j] = 1]

\* One sweep may give up several jobs at once.
GiveUp(S) ==
    /\ \A j \in S : fate[j] = "waiting"
    /\ fate' = [j \in Jobs |-> IF j \in S THEN "failed" ELSE fate[j]]
    /\ UNCHANGED results

Remove(j) ==
    /\ fate[j] \in {"waiting", "done", "failed"}
    /\ fate' = [fate EXCEPT ![j] = "removed"]
    /\ results' = [results EXCEPT ![j] = 0]

Next ==
    \/ \E j \in Jobs : Submit(j) \/ Deliver(j) \/ Remove(j)
    \/ \E S \in SUBSET Jobs : GiveUp(S)

Spec == Init /\ [][Next]_vars

=============================================================================
