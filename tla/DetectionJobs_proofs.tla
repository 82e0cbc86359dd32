-------------------------- MODULE DetectionJobs_proofs --------------------------
(***************************************************************************)
(* Proofs about DetectionJobs, for any number of workers, jobs and         *)
(* attempts and for leases and back-offs of any length.                    *)
(***************************************************************************)
EXTENDS DetectionJobs, TLAPS

\* A back-off is a whole number of ticks and stays within its cap.
LEMMA BackoffInRange ==
    ASSUME NEW n \in 1..MaxAttempts
    PROVE  RetryBackoff(n) \in 0..BackoffMaxTicks
<1> DEFINE p == 2 ^ (n - 1)
<1>1. p \in Nat
  BY PowersAreNat
<1>2. BackoffTicks \in Nat /\ BackoffMaxTicks \in Nat
  BY ConstantsOK
<1> HIDE DEF p
<1>3. BackoffTicks * p \in Nat
  BY <1>1, <1>2
<1>4. RetryBackoff(n) = IF BackoffTicks * p < BackoffMaxTicks
                        THEN BackoffTicks * p ELSE BackoffMaxTicks
  BY DEF RetryBackoff, p
<1> QED
  BY <1>2, <1>3, <1>4

-----------------------------------------------------------------------------
(* The inductive invariant.  ResultsOnceIffDone alone is not inductive: that *)
(* a stale worker cannot commit rests on tokens never being shared, which    *)
(* rests on a held token being an attempt already counted in the row.        *)

\* The token in a row is that of its latest attempt, and only a row that is
\* being processed has one; rows and images come and go together.
RowsOK ==
    \A j \in Jobs :
        /\ token[j] # 0 => status[j] = "processing" /\ token[j] = attempts[j]
        /\ status[j] = "absent" <=> image[j] = "none"
        /\ status[j] = "deleted" => image[j] = "gone"

\* A busy worker holds the token of an attempt its job has counted; one that
\* discards its job has seen the image gone.
WorkersOK ==
    \A w \in Workers :
        /\ pc[w] = "idle" => job[w] = NoJob /\ beat[w] = "off"
        /\ pc[w] # "idle" => /\ job[w] \in Jobs
                             /\ status[job[w]] # "absent"
                             /\ held[w] \in 1..attempts[job[w]]
        /\ pc[w] = "discarding" => image[job[w]] = "gone"

IInv ==
    /\ TypeOK
    /\ RowsOK
    /\ WorkersOK
    /\ TokensNotShared
    /\ ResultsOnceIffDone
    /\ NoPrematureFailure

\* A step of one worker's own control: it forgets its job, or goes on with it.
OwnStep(w) ==
    /\ pc' = [pc EXCEPT ![w] = pc'[w]]
    /\ job' = [job EXCEPT ![w] = job'[w]]
    /\ held' = [held EXCEPT ![w] = held'[w]]
    /\ beat' = [beat EXCEPT ![w] = beat'[w]]
    /\ lost' = [lost EXCEPT ![w] = lost'[w]]
    /\ \/ pc'[w] = "idle" /\ job'[w] = NoJob /\ held'[w] = 0 /\ beat'[w] = "off"
          /\ lost'[w] = FALSE
       \/ /\ pc[w] # "idle" /\ job'[w] = job[w] /\ held'[w] = held[w]
          /\ pc'[w] \in {"inferring", "inferred", "writing", "failing", "discarding"}
          /\ beat'[w] \in {beat[w], "off"}
          /\ lost'[w] \in BOOLEAN
          /\ pc'[w] = "discarding" => image[job[w]] = "gone"

\* Leaving poll_and_process is a step of the worker's own control.
LEMMA ForgetIsOwnStep ==
    ASSUME TypeOK, NEW w \in Workers, Forget(w)
    PROVE  OwnStep(w)
BY DEF Forget, Goto, OwnStep, TypeOK

\* So is leaving the with-block for one of the exception handlers.
LEMMA RaiseIsOwnStep ==
    ASSUME TypeOK, NEW w \in Workers, pc[w] # "idle",
           \/ Raise(w, "failing")
           \/ Raise(w, "discarding") /\ image[job[w]] = "gone"
    PROVE  OwnStep(w)
BY DEF Raise, Goto, OwnStep, TypeOK

\* So is going on to the next stage of the job.
LEMMA GotoIsOwnStep ==
    ASSUME TypeOK, NEW w \in Workers, pc[w] # "idle",
           NEW p \in {"inferring", "inferred", "writing"}, Goto(w, p),
           UNCHANGED <<job, held, beat>>,
           \E b \in BOOLEAN : lost' = [lost EXCEPT ![w] = b]
    PROVE  OwnStep(w)
BY DEF Goto, OwnStep, TypeOK

\* A step of a worker's own control keeps the process variables well typed.
LEMMA OwnStepTypes ==
    ASSUME TypeOK, NEW w \in Workers, OwnStep(w)
    PROVE  /\ pc' \in [Workers -> {"idle", "claimed", "inferring", "inferred",
                                   "writing", "failing", "discarding"}]
           /\ job' \in [Workers -> Jobs \cup {NoJob}]
           /\ held' \in [Workers -> 0..MaxAttempts]
           /\ beat' \in [Workers -> {"off", "starting", "beating", "stopped"}]
           /\ lost' \in [Workers -> BOOLEAN]
<1> USE ConstantsOK DEF TypeOK
<1>1. /\ pc'[w] \in {"idle", "claimed", "inferring", "inferred",
                     "writing", "failing", "discarding"}
      /\ job'[w] \in Jobs \cup {NoJob}
      /\ held'[w] \in 0..MaxAttempts
      /\ beat'[w] \in {"off", "starting", "beating", "stopped"}
  BY DEF OwnStep
<1>2. lost'[w] \in BOOLEAN
  BY DEF OwnStep
<1>3. pc' = [pc EXCEPT ![w] = pc'[w]] /\ job' = [job EXCEPT ![w] = job'[w]]
  BY DEF OwnStep
<1>4. /\ held' = [held EXCEPT ![w] = held'[w]]
      /\ beat' = [beat EXCEPT ![w] = beat'[w]]
      /\ lost' = [lost EXCEPT ![w] = lost'[w]]
  BY DEF OwnStep
<1> QED
  BY <1>1, <1>2, <1>3, <1>4

\* The parts of the invariant about workers survive it as long as no row loses
\* an attempt or vanishes, and no image reappears.
LEMMA OwnStepWorkers ==
    ASSUME IInv, NEW w \in Workers, OwnStep(w),
           UNCHANGED attempts,
           \A j \in Jobs : status[j] # "absent" => status'[j] # "absent",
           \A j \in Jobs : image[j] = "gone" => image'[j] = "gone"
    PROVE  WorkersOK' /\ TokensNotShared'
<1> USE DEF IInv, TypeOK
<1>1. \A v \in Workers \ {w} : /\ pc'[v] = pc[v] /\ job'[v] = job[v]
                               /\ held'[v] = held[v] /\ beat'[v] = beat[v]
  BY DEF OwnStep
<1>2. \/ pc'[w] = "idle" /\ job'[w] = NoJob /\ beat'[w] = "off"
      \/ /\ pc[w] # "idle" /\ job'[w] = job[w] /\ held'[w] = held[w]
         /\ pc'[w] # "idle"
         /\ pc'[w] = "discarding" => image[job[w]] = "gone"
  BY DEF OwnStep
<1>3. WorkersOK'
  BY <1>1, <1>2 DEF WorkersOK
<1>4. TokensNotShared'
  BY <1>1, <1>2, ConstantsOK DEF TokensNotShared, WorkersOK
<1> QED
  BY <1>3, <1>4

\* A step that touches no table keeps the whole invariant.
LEMMA ControlStep ==
    ASSUME IInv, NEW w \in Workers, UNCHANGED tables, OwnStep(w)
    PROVE  IInv'
<1> USE DEF IInv, tables, rows
<1>1. TypeOK'
  BY OwnStepTypes DEF TypeOK
<1>2. RowsOK' /\ ResultsOnceIffDone' /\ NoPrematureFailure'
  BY DEF RowsOK, ResultsOnceIffDone, NoPrematureFailure
<1>3. WorkersOK' /\ TokensNotShared'
  BY OwnStepWorkers
<1> QED
  BY <1>1, <1>2, <1>3

\* The invariant holds at first, legacy rows in 'processing' included.
LEMMA InitIInv == Init => IInv
BY ConstantsOK DEF Init, IInv, TypeOK, Statuses, RowsOK, WorkersOK, TokensNotShared,
                   ResultsOnceIffDone, NoPrematureFailure

\* A row that is swept is not owned under a live lease, and stays what it was
\* but for its status and lease.
LEMMA SweepTypes ==
    ASSUME TypeOK
    PROVE  /\ Swept(status, "failed") \in [Jobs -> Statuses]
           /\ Swept(token, 0) \in [Jobs -> 0..MaxAttempts]
           /\ Swept(lease, 0) \in [Jobs -> 0..LeaseTicks]
BY ConstantsOK DEF TypeOK, Statuses, Swept

\* Claiming a job, with the sweep before it, keeps the invariant: the token
\* drawn is higher than any token still held for the job.
LEMMA ClaimStep ==
    ASSUME IInv, NEW w \in Workers, ClaimJob(w)
    PROVE  IInv'
<1>1. PICK j \in Eligible :
        /\ image[j] = "present"
        /\ status' = [Swept(status, "failed") EXCEPT ![j] = "processing"]
        /\ attempts' = [attempts EXCEPT ![j] = @ + 1]
        /\ token' = [Swept(token, 0) EXCEPT ![j] = attempts[j] + 1]
        /\ lease' = [Swept(lease, 0) EXCEPT ![j] = LeaseTicks]
        /\ job' = [job EXCEPT ![w] = j]
        /\ held' = [held EXCEPT ![w] = attempts[j] + 1]
  BY DEF ClaimJob
<1>2. /\ pc[w] = "idle"
      /\ pc' = [pc EXCEPT ![w] = "claimed"]
      /\ beat' = [beat EXCEPT ![w] = "starting"]
      /\ UNCHANGED <<wait, image, batches, lost>>
  BY DEF ClaimJob, SweepReady, Goto
<1>3. /\ j \in Jobs /\ attempts[j] + 1 \in 1..MaxAttempts /\ attempts[j] \in Nat
      /\ status[j] \in {"pending", "processing"}
      /\ j \notin Exhausted
  BY ConstantsOK DEF Eligible, Exhausted, Expired, IInv, TypeOK
<1>4. /\ \A i \in Jobs \ {j} : attempts'[i] = attempts[i]
      /\ attempts'[j] = attempts[j] + 1
  BY <1>1, <1>3 DEF IInv, TypeOK
<1>5. /\ \A i \in Exhausted : status'[i] = "failed" /\ token'[i] = 0
      /\ \A i \in Jobs \ Exhausted : i # j => status'[i] = status[i] /\ token'[i] = token[i]
      /\ status'[j] = "processing" /\ token'[j] = attempts[j] + 1
      /\ \A i \in Exhausted : /\ i \in Jobs /\ attempts[i] = MaxAttempts
                              /\ status[i] \in {"pending", "processing"}
  <2> USE DEF IInv
  <2>1. \A i \in Exhausted : /\ i \in Jobs /\ attempts[i] = MaxAttempts
                             /\ status[i] \in {"pending", "processing"}
    BY ConstantsOK DEF Exhausted, Expired, TypeOK
  <2>2. /\ \A i \in Jobs \ {j} : /\ status'[i] = Swept(status, "failed")[i]
                                 /\ token'[i] = Swept(token, 0)[i]
        /\ status'[j] = "processing" /\ token'[j] = attempts[j] + 1
    BY <1>1, <1>3, SweepTypes
  <2>3. \A i \in Jobs :
          /\ Swept(status, "failed")[i] = IF i \in Exhausted THEN "failed" ELSE status[i]
          /\ Swept(token, 0)[i] = IF i \in Exhausted THEN 0 ELSE token[i]
    BY DEF Swept
  <2> QED
    BY <1>3, <2>1, <2>2, <2>3
<1>6. TypeOK'
  <2> USE ConstantsOK DEF IInv, TypeOK
  <2>1. status' \in [Jobs -> Statuses]
    BY <1>1, SweepTypes DEF Statuses
  <2>2. /\ attempts' \in [Jobs -> 0..MaxAttempts]
        /\ token' \in [Jobs -> 0..MaxAttempts]
        /\ lease' \in [Jobs -> 0..LeaseTicks]
    BY <1>1, <1>3, SweepTypes
  <2>3. /\ job' \in [Workers -> Jobs \cup {NoJob}]
        /\ held' \in [Workers -> 0..MaxAttempts]
    BY <1>1, <1>3
  <2> QED
    BY <1>2, <2>1, <2>2, <2>3
<1>7. RowsOK'
  BY <1>2, <1>3, <1>4, <1>5 DEF IInv, RowsOK
<1>8. WorkersOK'
  <2> SUFFICES ASSUME NEW v \in Workers
               PROVE  /\ pc'[v] = "idle" => job'[v] = NoJob /\ beat'[v] = "off"
                      /\ pc'[v] # "idle" => /\ job'[v] \in Jobs
                                            /\ status'[job'[v]] # "absent"
                                            /\ held'[v] \in 1..attempts'[job'[v]]
                      /\ pc'[v] = "discarding" => image'[job'[v]] = "gone"
    BY DEF WorkersOK
  <2>1. CASE v = w
    BY <2>1, <1>1, <1>2, <1>3, <1>4, <1>5 DEF IInv, TypeOK
  <2>2. CASE v # w
    <3>1. /\ pc'[v] = pc[v] /\ job'[v] = job[v] /\ held'[v] = held[v]
          /\ beat'[v] = beat[v]
      BY <2>2, <1>1, <1>2 DEF IInv, TypeOK
    <3>2. ASSUME pc[v] # "idle"
          PROVE  /\ job[v] \in Jobs /\ status'[job[v]] # "absent"
                 /\ held[v] \in 1..attempts'[job[v]]
      BY <3>2, <1>3, <1>4, <1>5 DEF IInv, TypeOK, WorkersOK
    <3> QED
      BY <3>1, <3>2, <1>2 DEF IInv, WorkersOK
  <2> QED
    BY <2>1, <2>2
<1>9. TokensNotShared'
  <2>1. \A v \in Workers \ {w} : job[v] = j => held[v] # attempts[j] + 1
    BY ConstantsOK, <1>3 DEF IInv, TypeOK, WorkersOK
  <2> QED
    BY <2>1, <1>1, <1>3 DEF IInv, TypeOK, TokensNotShared
<1>10. ResultsOnceIffDone'
  BY <1>2, <1>3, <1>5 DEF IInv, ResultsOnceIffDone
<1>11. NoPrematureFailure'
  BY <1>2, <1>3, <1>4, <1>5 DEF IInv, NoPrematureFailure
<1> QED
  BY <1>6, <1>7, <1>8, <1>9, <1>10, <1>11 DEF IInv

\* A claim that takes nothing: the sweep, and at most one orphan, are failed.
LEMMA SweepStep ==
    ASSUME IInv, NEW w \in Workers, FailOrphan(w) \/ ClaimNothing(w)
    PROVE  IInv'
<1> DEFINE Failed(i) == i \in Exhausted \/ (status'[i] = "failed" /\ image[i] # "present"
                                             /\ status[i] \in {"pending", "processing"})
<1>1. UNCHANGED <<attempts, wait, image, batches, pc, job, held, beat, lost>>
  BY DEF FailOrphan, ClaimNothing, procs, heartbeat
<1>2. /\ status' \in [Jobs -> Statuses]
      /\ token' \in [Jobs -> 0..MaxAttempts]
      /\ lease' \in [Jobs -> 0..LeaseTicks]
  BY ConstantsOK, SweepTypes DEF FailOrphan, ClaimNothing, Statuses, IInv
<1>3. \A i \in Jobs : \/ status'[i] = status[i] /\ token'[i] = token[i]
                      \/ status'[i] = "failed" /\ token'[i] = 0 /\ Failed(i)
  <2>1. \A i \in Jobs :
          /\ Swept(status, "failed")[i] = IF i \in Exhausted THEN "failed" ELSE status[i]
          /\ Swept(token, 0)[i] = IF i \in Exhausted THEN 0 ELSE token[i]
    BY DEF Swept
  <2>2. CASE ClaimNothing(w)
    BY <2>1, <2>2 DEF ClaimNothing
  <2>3. CASE FailOrphan(w)
    <3>1. PICK j \in Eligible :
            /\ image[j] # "present"
            /\ status' = [Swept(status, "failed") EXCEPT ![j] = "failed"]
            /\ token' = [Swept(token, 0) EXCEPT ![j] = 0]
      BY <2>3 DEF FailOrphan
    <3>2. j \in Jobs /\ status[j] \in {"pending", "processing"}
      BY DEF Eligible, Expired
    <3> QED
      BY <2>1, <3>1, <3>2, SweepTypes DEF IInv
  <2> QED
    BY <2>2, <2>3
<1>4. \A i \in Exhausted : /\ i \in Jobs /\ attempts[i] = MaxAttempts
                           /\ status[i] \in {"pending", "processing"}
  BY ConstantsOK DEF Exhausted, Expired, IInv, TypeOK
<1> HIDE DEF Failed
<1>5. \A i \in Jobs : Failed(i) => /\ status[i] \in {"pending", "processing"}
                                   /\ attempts[i] = MaxAttempts \/ image[i] # "present"
  BY <1>4 DEF Failed
<1>6. TypeOK'
  BY <1>1, <1>2 DEF IInv, TypeOK
<1>7. RowsOK' /\ NoPrematureFailure' /\ ResultsOnceIffDone'
  BY <1>1, <1>3, <1>5 DEF IInv, RowsOK, NoPrematureFailure, ResultsOnceIffDone
<1>8. WorkersOK' /\ TokensNotShared'
  BY <1>1, <1>3 DEF IInv, WorkersOK, TokensNotShared
<1> QED
  BY <1>6, <1>7, <1>8 DEF IInv

\* The heartbeat touches a lease and its own state only.
LEMMA HeartbeatStep ==
    ASSUME IInv, NEW w \in Workers, RenewLease(w) \/ HeartbeatError(w)
    PROVE  IInv'
<1> USE DEF IInv
<1>1. UNCHANGED <<status, attempts, token, wait, image, batches, pc, job, held>>
  BY DEF RenewLease, HeartbeatError, tables, rows
<1>2. /\ \/ lease' = lease
         \/ lease' = [lease EXCEPT ![job[w]] = LeaseTicks]
      /\ \E b \in {"beating", "stopped"} : beat' = [beat EXCEPT ![w] = b]
      /\ lost' = lost \/ lost' = [lost EXCEPT ![w] = TRUE]
      /\ beat[w] \in {"starting", "beating"}
  BY DEF RenewLease, HeartbeatError, tables, rows
<1>3. lease' \in [Jobs -> 0..LeaseTicks]
  BY <1>2, ConstantsOK DEF TypeOK
<1>4. /\ beat' \in [Workers -> {"off", "starting", "beating", "stopped"}]
      /\ \A v \in Workers : beat'[v] # "off" => beat[v] # "off"
  BY <1>2 DEF TypeOK
<1>5. lost' \in [Workers -> BOOLEAN]
  BY <1>2 DEF TypeOK
<1>6. TypeOK' /\ RowsOK'
  BY <1>1, <1>3, <1>4, <1>5 DEF TypeOK, RowsOK
<1>7. WorkersOK'
  BY <1>1, <1>4 DEF WorkersOK
<1>8. TokensNotShared' /\ ResultsOnceIffDone' /\ NoPrematureFailure'
  BY <1>1 DEF TokensNotShared, ResultsOnceIffDone, NoPrematureFailure
<1> QED
  BY <1>6, <1>7, <1>8

\* A processed row is given back: what Release leaves of the invariant.
LEMMA ReleaseStep ==
    ASSUME IInv, NEW j \in Jobs, status[j] = "processing",
           NEW outcome \in {"pending", "done", "failed", "deleted"},
           NEW pause \in 0..BackoffMaxTicks, Release(j, outcome, pause)
    PROVE  /\ status' \in [Jobs -> Statuses]
           /\ attempts' = attempts
           /\ token' \in [Jobs -> 0..MaxAttempts]
           /\ lease' \in [Jobs -> 0..LeaseTicks]
           /\ wait' \in [Jobs -> 0..BackoffMaxTicks]
           /\ \A i \in Jobs \ {j} : status'[i] = status[i] /\ token'[i] = token[i]
           /\ status'[j] = outcome /\ token'[j] = 0
BY ConstantsOK DEF Release, IInv, TypeOK, Statuses

\* Storing the results keeps the invariant: the fence makes it the first time.
LEMMA CommitStep ==
    ASSUME IInv, NEW w \in Workers, CommitResults(w)
    PROVE  IInv'
<1> DEFINE j == job[w]
<1>1. /\ pc[w] = "writing" /\ j \in Jobs /\ status[j] = "processing"
      /\ image[j] = "present" /\ Release(j, "done", 0)
      /\ batches' = [batches EXCEPT ![j] = @ + 1]
      /\ image' = image
  BY DEF CommitResults, Owns, IInv, WorkersOK
<1>2. OwnStep(w)
  BY ForgetIsOwnStep, RaiseIsOwnStep, <1>1 DEF CommitResults, IInv
<1> HIDE DEF j
<1>3. 0 \in 0..BackoffMaxTicks
  BY ConstantsOK
<1>4. /\ status' \in [Jobs -> Statuses]
      /\ attempts' = attempts
      /\ token' \in [Jobs -> 0..MaxAttempts]
      /\ lease' \in [Jobs -> 0..LeaseTicks]
      /\ wait' \in [Jobs -> 0..BackoffMaxTicks]
      /\ \A i \in Jobs \ {j} : status'[i] = status[i] /\ token'[i] = token[i]
      /\ status'[j] = "done" /\ token'[j] = 0
  BY <1>1, <1>3, ReleaseStep
<1>5. /\ batches' \in [Jobs -> Nat]
      /\ batches'[j] = 1
      /\ \A i \in Jobs \ {j} : batches'[i] = batches[i]
  BY <1>1 DEF IInv, TypeOK, ResultsOnceIffDone
<1>6. TypeOK'
  BY <1>1, <1>2, <1>4, <1>5, OwnStepTypes DEF IInv, TypeOK
<1>7. RowsOK' /\ ResultsOnceIffDone' /\ NoPrematureFailure'
  BY <1>1, <1>4, <1>5 DEF IInv, RowsOK, ResultsOnceIffDone, NoPrematureFailure
<1>8. WorkersOK' /\ TokensNotShared'
  BY <1>1, <1>2, <1>4, OwnStepWorkers
<1> QED
  BY <1>6, <1>7, <1>8 DEF IInv

\* The handlers of poll_and_process: the row is given back, or left to expire.
LEMMA HandlerStep ==
    ASSUME IInv, NEW w \in Workers, RecordFailure(w) \/ MarkDiscarded(w)
    PROVE  IInv'
<1> DEFINE j == job[w]
<1>1. /\ pc[w] # "idle" /\ j \in Jobs /\ image' = image /\ batches' = batches
      /\ Forget(w)
      /\ attempts[j] \in 0..MaxAttempts
      /\ held[w] \in 1..attempts[j]
  BY DEF RecordFailure, MarkDiscarded, IInv, WorkersOK, TypeOK
<1>2. OwnStep(w)
  BY <1>1, ForgetIsOwnStep DEF IInv
<1>3. CASE UNCHANGED rows
  BY <1>1, <1>2, <1>3, ControlStep DEF tables
<1>4. CASE \E outcome \in {"pending", "failed"}, pause \in 0..BackoffMaxTicks :
             /\ Owns(w, j)
             /\ Release(j, outcome, pause)
             /\ outcome = "failed" => attempts[j] = MaxAttempts \/ image[j] = "gone"
  <2>1. PICK outcome \in {"pending", "failed"}, pause \in 0..BackoffMaxTicks :
             /\ Owns(w, j)
             /\ Release(j, outcome, pause)
             /\ outcome = "failed" => attempts[j] = MaxAttempts \/ image[j] = "gone"
    BY <1>4
  <2> HIDE DEF j
  <2>2. status[j] = "processing"
    BY <2>1 DEF Owns
  <2>3. /\ status' \in [Jobs -> Statuses]
        /\ attempts' = attempts
        /\ token' \in [Jobs -> 0..MaxAttempts]
        /\ lease' \in [Jobs -> 0..LeaseTicks]
        /\ wait' \in [Jobs -> 0..BackoffMaxTicks]
        /\ \A i \in Jobs \ {j} : status'[i] = status[i] /\ token'[i] = token[i]
        /\ status'[j] = outcome /\ token'[j] = 0
    BY <1>1, <2>1, <2>2, ReleaseStep
  <2>4. TypeOK'
    BY <1>1, <1>2, <2>3, OwnStepTypes DEF IInv, TypeOK
  <2>5. RowsOK' /\ ResultsOnceIffDone' /\ NoPrematureFailure'
    BY <1>1, <2>1, <2>2, <2>3 DEF IInv, RowsOK, ResultsOnceIffDone, NoPrematureFailure
  <2>6. WorkersOK' /\ TokensNotShared'
    BY <1>1, <1>2, <2>2, <2>3, OwnStepWorkers
  <2> QED
    BY <2>4, <2>5, <2>6 DEF IInv
<1>5. ASSUME RecordFailure(w), ~UNCHANGED rows
      PROVE  \E outcome \in {"pending", "failed"}, pause \in 0..BackoffMaxTicks :
                /\ Owns(w, j)
                /\ Release(j, outcome, pause)
                /\ outcome = "failed" => attempts[j] = MaxAttempts \/ image[j] = "gone"
  <2>1. Owns(w, j) /\ held[w] = attempts[j]
    BY <1>1, <1>5 DEF RecordFailure, Owns, IInv, RowsOK
  <2>2. 0 \in 0..BackoffMaxTicks
    BY ConstantsOK
  <2>3. CASE held[w] < MaxAttempts /\ Release(j, "pending", RetryBackoff(held[w]))
    <3>1. RetryBackoff(held[w]) \in 0..BackoffMaxTicks
      BY <1>1, <2>3, ConstantsOK, BackoffInRange
    <3> QED
      BY <2>1, <2>3, <3>1
  <2>4. CASE held[w] >= MaxAttempts /\ Release(j, "failed", 0)
    BY <1>1, <2>1, <2>2, <2>4, ConstantsOK
  <2> QED
    BY <1>5, <2>3, <2>4 DEF RecordFailure
<1>6. ASSUME MarkDiscarded(w), ~UNCHANGED rows
      PROVE  \E outcome \in {"pending", "failed"}, pause \in 0..BackoffMaxTicks :
                /\ Owns(w, j)
                /\ Release(j, outcome, pause)
                /\ outcome = "failed" => attempts[j] = MaxAttempts \/ image[j] = "gone"
  BY <1>6, ConstantsOK DEF MarkDiscarded, IInv, WorkersOK
<1> QED
  BY <1>3, <1>4, <1>5, <1>6

\* Inserting a job and deleting an image keep the invariant.
LEMMA ServerStep ==
    ASSUME IInv, NEW j \in Jobs, CreateDetectionJob(j) \/ DeleteImage(j)
    PROVE  IInv'
<1> USE DEF IInv
<1>1. UNCHANGED <<attempts, pc, job, held, beat, lost>>
  BY DEF CreateDetectionJob, DeleteImage, Release, rows, procs, heartbeat
<1>2. /\ image' \in [Jobs -> {"none", "present", "gone"}]
      /\ batches' \in [Jobs -> Nat]
      /\ \A i \in Jobs \ {j} : image'[i] = image[i] /\ batches'[i] = batches[i]
      /\ \/ status[j] = "absent" /\ image[j] = "none" /\ image'[j] = "present"
            /\ batches'[j] = batches[j]
         \/ image[j] = "present" /\ image'[j] = "gone" /\ batches'[j] = 0
  BY DEF CreateDetectionJob, DeleteImage, TypeOK, RowsOK
<1>3. /\ status' \in [Jobs -> Statuses]
      /\ token' \in [Jobs -> 0..MaxAttempts]
      /\ lease' \in [Jobs -> 0..LeaseTicks]
      /\ wait' \in [Jobs -> 0..BackoffMaxTicks]
  BY ConstantsOK DEF CreateDetectionJob, DeleteImage, Release, TypeOK, Statuses, rows
<1>4. /\ \A i \in Jobs \ {j} : status'[i] = status[i] /\ token'[i] = token[i]
      /\ \/ status'[j] = "pending" /\ token'[j] = token[j] /\ status[j] = "absent"
            /\ image'[j] = "present"
         \/ status'[j] = "deleted" /\ token'[j] = 0 /\ image'[j] = "gone"
         \/ status'[j] = status[j] /\ token'[j] = token[j] /\ image'[j] = "gone"
  BY DEF CreateDetectionJob, DeleteImage, Release, TypeOK, rows
<1>5. TypeOK'
  BY <1>1, <1>2, <1>3 DEF TypeOK
<1>6. RowsOK' /\ ResultsOnceIffDone' /\ NoPrematureFailure'
  BY <1>1, <1>2, <1>4 DEF RowsOK, ResultsOnceIffDone, NoPrematureFailure
<1>7. WorkersOK' /\ TokensNotShared'
  <2>1. \A i \in Jobs : /\ status[i] # "absent" => status'[i] # "absent"
                        /\ image[i] = "gone" => image'[i] = "gone"
    BY <1>2, <1>4 DEF RowsOK
  <2> QED
    BY <1>1, <2>1 DEF WorkersOK, TokensNotShared
<1> QED
  BY <1>5, <1>6, <1>7

\* The passing of time keeps the invariant.
LEMMA TickStep == ASSUME IInv, Tick PROVE IInv'
<1> USE DEF IInv
<1>1. UNCHANGED <<status, attempts, token, image, batches, pc, job, held, beat, lost>>
  BY DEF Tick, procs, heartbeat
<1>2. lease' \in [Jobs -> 0..LeaseTicks] /\ wait' \in [Jobs -> 0..BackoffMaxTicks]
  BY ConstantsOK DEF Tick, Countdown, TypeOK
<1>3. TypeOK'
  BY <1>1, <1>2 DEF TypeOK
<1> QED
  BY <1>1, <1>3 DEF RowsOK, WorkersOK, TokensNotShared, ResultsOnceIffDone, NoPrematureFailure

\* The steps of process_job outside the transactions that change the tables.
LEMMA ProcessStep ==
    ASSUME IInv, NEW w \in Workers,
           \/ StartProcessing(w) \/ Infer(w) \/ BeginWrite(w) \/ AbortResults(w)
           \/ Crash(w)
    PROVE  IInv'
<1> USE DEF IInv
<1>1. UNCHANGED tables
  BY DEF StartProcessing, Infer, BeginWrite, AbortResults, Crash
<1>2. pc[w] # "idle" /\ job[w] \in Jobs /\ image[job[w]] # "none"
  BY DEF StartProcessing, Infer, BeginWrite, AbortResults, Crash, WorkersOK, RowsOK, TypeOK
<1>3. image[job[w]] # "present" => image[job[w]] = "gone"
  BY <1>2 DEF TypeOK
<1>4. ASSUME Forget(w) PROVE OwnStep(w)
  BY <1>4, ForgetIsOwnStep
<1>5. ASSUME Raise(w, "failing") PROVE OwnStep(w)
  BY <1>2, <1>5, RaiseIsOwnStep
<1>6. ASSUME Raise(w, "discarding"), image[job[w]] = "gone" PROVE OwnStep(w)
  BY <1>2, <1>6, RaiseIsOwnStep
<1>7. ASSUME \E p \in {"inferring", "inferred", "writing"} : Goto(w, p),
             UNCHANGED <<job, held, beat>>,
             \E b \in BOOLEAN : lost' = [lost EXCEPT ![w] = b]
      PROVE  OwnStep(w)
  BY <1>2, <1>7, GotoIsOwnStep
<1>8. \/ Forget(w) \/ Raise(w, "failing")
      \/ Raise(w, "discarding") /\ image[job[w]] = "gone"
      \/ /\ \E p \in {"inferring", "inferred", "writing"} : Goto(w, p)
         /\ UNCHANGED <<job, held, beat>>
         /\ \E b \in BOOLEAN : lost' = [lost EXCEPT ![w] = b]
  <2>1. lost = [lost EXCEPT ![w] = lost[w]] /\ lost[w] \in BOOLEAN
    BY DEF TypeOK
  <2>2. CASE StartProcessing(w)
    BY <1>2, <1>3, <2>1, <2>2 DEF StartProcessing
  <2>3. CASE Infer(w)
    BY <2>1, <2>3 DEF Infer, heartbeat
  <2>4. CASE BeginWrite(w)
    BY <1>2, <1>3, <2>1, <2>4 DEF BeginWrite, heartbeat, RowsOK
  <2>5. CASE AbortResults(w) \/ Crash(w)
    BY <1>3, <2>5 DEF AbortResults, Crash
  <2> QED
    BY <2>2, <2>3, <2>4, <2>5
<1>9. OwnStep(w)
  BY <1>4, <1>5, <1>6, <1>7, <1>8
<1> QED
  BY <1>1, <1>9, ControlStep

\* The invariant is inductive.
LEMMA NextIInv == IInv /\ [Next]_vars => IInv'
<1> SUFFICES ASSUME IInv, [Next]_vars PROVE IInv'
  OBVIOUS
<1>1. ASSUME NEW w \in Workers, Run(w) PROVE IInv'
  BY <1>1, ClaimStep, SweepStep, ProcessStep, CommitStep, HandlerStep DEF Run
<1>2. ASSUME NEW w \in Workers, RenewLease(w) \/ HeartbeatError(w) PROVE IInv'
  BY <1>2, HeartbeatStep
<1>3. ASSUME NEW w \in Workers, Crash(w) PROVE IInv'
  BY <1>3, ProcessStep
<1>4. ASSUME NEW j \in Jobs, CreateDetectionJob(j) \/ DeleteImage(j) PROVE IInv'
  BY <1>4, ServerStep
<1>5. CASE Tick
  BY <1>5, TickStep
<1>6. CASE UNCHANGED vars
  BY <1>6 DEF vars, tables, rows, procs, heartbeat, IInv, TypeOK, RowsOK, WorkersOK,
              TokensNotShared, ResultsOnceIffDone, NoPrematureFailure
<1> QED
  BY <1>1, <1>2, <1>3, <1>4, <1>5, <1>6 DEF Next

\* The invariant holds in every reachable state.
LEMMA SpecIInv == Spec => []IInv
BY InitIInv, NextIInv, PTL DEF Spec
-----------------------------------------------------------------------------
\* The tables, control points and tokens of the worker protocol stay well
\* formed, for any number of workers and jobs.
THEOREM TypeCorrect == Spec => []TypeOK
BY SpecIInv, PTL DEF IInv

\* write_results stores the holds of an image at most once, and exactly when it
\* marks the job done: whatever crashes, expires or is retried.
THEOREM ResultsAreStoredOnce == Spec => []ResultsOnceIffDone
BY SpecIInv, PTL DEF IInv

\* claim_job never gives two workers that still hold the same job one token.
THEOREM TokensAreFresh == Spec => []TokensNotShared
BY SpecIInv, PTL DEF IInv

\* Every attempt that MAX_ATTEMPTS allows is made before a job whose image
\* exists is given up.
THEOREM AttemptsAreExhausted == Spec => []NoPrematureFailure
BY SpecIInv, PTL DEF IInv

-----------------------------------------------------------------------------
(* Refinement: DetectionJobs implements DetectionSpec.                       *)

F == [j \in Jobs |-> Fate(j)]

\* What the refinement mapping says of a job, by its row and its image.
LEMMA FateOf ==
    ASSUME NEW j \in Jobs, TypeOK
    PROVE  /\ image[j] = "gone" => Fate(j) = "removed"
           /\ image[j] # "gone" /\ status[j] = "absent" => Fate(j) = "none"
           /\ image[j] # "gone" /\ status[j] \in {"pending", "processing"}
                => Fate(j) = "waiting"
           /\ image[j] # "gone" /\ status[j] \in {"done", "failed", "deleted"}
                => Fate(j) = status[j]
BY DEF Fate, TypeOK, Statuses

\* The same after a step.
LEMMA FatePrimed ==
    ASSUME NEW j \in Jobs, TypeOK'
    PROVE  /\ image'[j] = "gone" => Fate(j)' = "removed"
           /\ image'[j] # "gone" /\ status'[j] = "absent" => Fate(j)' = "none"
           /\ image'[j] # "gone" /\ status'[j] \in {"pending", "processing"}
                => Fate(j)' = "waiting"
           /\ image'[j] # "gone" /\ status'[j] \in {"done", "failed", "deleted"}
                => Fate(j)' = status'[j]
BY DEF Fate, TypeOK, Statuses

\* A step leaves the fate of a job alone if its row and image stay, if both
\* states have the image gone, or if the row only moves between waiting states.
LEMMA FateKept ==
    ASSUME TypeOK, TypeOK', NEW j \in Jobs, image'[j] = image[j],
           \/ status'[j] = status[j]
           \/ image[j] = "gone"
           \/ /\ status[j] \in {"pending", "processing"}
              /\ status'[j] \in {"pending", "processing"}
    PROVE  Fate(j)' = Fate(j)
<1>1. image[j] \in {"none", "present", "gone"} /\ status[j] \in Statuses
  BY DEF TypeOK
<1> QED
  BY <1>1, FateOf, FatePrimed DEF Statuses

\* Some waiting jobs fail in this step, and nothing else happens to any fate.
GivesUp(S) ==
    /\ batches' = batches
    /\ \A i \in Jobs : IF i \in S THEN Fate(i) = "waiting" /\ Fate(i)' = "failed"
                                  ELSE Fate(i)' = Fate(i)

\* DetectionSpec lets any set of waiting jobs be given up at once.
LEMMA GivesUpIsAllowed ==
    ASSUME NEW S \in SUBSET Jobs, GivesUp(S)
    PROVE  Abstract!Next
<1>1. Abstract!GiveUp(S)
  BY DEF GivesUp, Abstract!GiveUp
<1> QED
  BY <1>1 DEF Abstract!Next

\* One job's fate changes and its results with it.
LEMMA OneFateChanges ==
    ASSUME TypeOK, NEW j \in Jobs,
           \A i \in Jobs \ {j} : Fate(i)' = Fate(i) /\ batches'[i] = batches[i],
           batches' \in [Jobs -> Nat],
           \/ Fate(j) = "none" /\ Fate(j)' = "waiting" /\ batches'[j] = batches[j]
           \/ Fate(j) = "waiting" /\ Fate(j)' = "done" /\ batches'[j] = 1
           \/ /\ Fate(j) \in {"waiting", "done", "failed"}
              /\ Fate(j)' = "removed" /\ batches'[j] = 0
    PROVE  Abstract!Next
<1>1. F' = [F EXCEPT ![j] = Fate(j)']
  BY DEF F
<1>2. batches' = [batches EXCEPT ![j] = batches'[j]]
  BY DEF TypeOK
<1>3. batches'[j] = batches[j] => batches' = batches
  BY <1>2 DEF TypeOK
<1>4. F[j] = Fate(j)
  BY DEF F
<1>5. Abstract!Submit(j) \/ Abstract!Deliver(j) \/ Abstract!Remove(j)
  BY <1>1, <1>2, <1>3, <1>4 DEF F, Abstract!Submit, Abstract!Deliver, Abstract!Remove
<1> QED
  BY <1>5 DEF Abstract!Next

\* A claim gives up the exhausted jobs it sweeps, and changes no other fate.
LEMMA SweepGivesUp ==
    ASSUME IInv, TypeOK', NEW w \in Workers, ClaimJob(w) \/ FailOrphan(w) \/ ClaimNothing(w)
    PROVE  Abstract!Next
<1> DEFINE S == {i \in Exhausted : image[i] # "gone"}
<1>1. image' = image /\ batches' = batches
  BY DEF ClaimJob, FailOrphan, ClaimNothing
<1>2. \A i \in Exhausted : i \in Jobs /\ status[i] \in {"pending", "processing"}
  BY DEF Exhausted, Expired
<1>3. \A i \in Jobs : Swept(status, "failed")[i] = IF i \in Exhausted THEN "failed" ELSE status[i]
  BY DEF Swept
<1>4. \A i \in Exhausted : status'[i] = "failed"
  <2>1. CASE ClaimNothing(w)
    BY <1>2, <1>3, <2>1 DEF ClaimNothing
  <2>2. CASE FailOrphan(w)
    BY <1>2, <1>3, <2>2, SweepTypes DEF FailOrphan, IInv
  <2>3. CASE ClaimJob(w)
    <3>1. PICK j \in Eligible : status' = [Swept(status, "failed") EXCEPT ![j] = "processing"]
      BY <2>3 DEF ClaimJob
    <3>2. j \in Jobs /\ j \notin Exhausted
      BY ConstantsOK DEF Eligible, Exhausted, IInv, TypeOK
    <3> QED
      BY <1>2, <1>3, <3>1, <3>2, SweepTypes DEF IInv
  <2> QED
    BY <2>1, <2>2, <2>3
<1>5. \A i \in Jobs \ Exhausted :
        \/ status'[i] = status[i]
        \/ image[i] = "gone"
        \/ status[i] \in {"pending", "processing"} /\ status'[i] = "processing"
  <2>1. CASE ClaimNothing(w)
    BY <1>3, <2>1 DEF ClaimNothing
  <2>2. CASE FailOrphan(w)
    <3>1. PICK j \in Eligible : /\ image[j] # "present"
                                /\ status' = [Swept(status, "failed") EXCEPT ![j] = "failed"]
      BY <2>2 DEF FailOrphan
    <3>2. j \in Jobs /\ image[j] = "gone"
      BY <3>1 DEF Eligible, Expired, IInv, TypeOK, RowsOK
    <3> QED
      BY <1>3, <3>1, <3>2, SweepTypes DEF IInv
  <2>3. CASE ClaimJob(w)
    <3>1. PICK j \in Eligible : status' = [Swept(status, "failed") EXCEPT ![j] = "processing"]
      BY <2>3 DEF ClaimJob
    <3>2. j \in Jobs /\ status[j] \in {"pending", "processing"}
      BY DEF Eligible, Expired
    <3> QED
      BY <1>3, <3>1, <3>2, SweepTypes DEF IInv
  <2> QED
    BY <2>1, <2>2, <2>3
<1>6. \A i \in S : Fate(i) = "waiting" /\ Fate(i)' = "failed"
  BY <1>1, <1>2, <1>4, FateOf, FatePrimed DEF IInv
<1>7. \A i \in Jobs \ S : Fate(i)' = Fate(i)
  BY <1>1, <1>5, FateKept DEF IInv
<1>8. GivesUp(S) /\ S \in SUBSET Jobs
  BY <1>1, <1>2, <1>6, <1>7 DEF GivesUp
<1> QED
  BY <1>8, GivesUpIsAllowed

\* A step that leaves rows' status, images and results alone stutters.
LEMMA SameFates ==
    ASSUME UNCHANGED <<status, image, batches>>
    PROVE  UNCHANGED Abstract!vars
BY DEF Abstract!vars, Fate

\* An initial state maps to an initial state of DetectionSpec.
LEMMA AbstractInit == Init => Abstract!Init
<1> SUFFICES ASSUME Init PROVE Abstract!Init
  OBVIOUS
<1>1. \A j \in Jobs : Fate(j) \in {"none", "waiting"}
  BY DEF Init, Fate
<1>2. batches = [j \in Jobs |-> 0]
  BY DEF Init
<1> QED
  BY <1>1, <1>2 DEF Abstract!Init

\* Every step maps to a step of DetectionSpec or to a stutter.
LEMMA AbstractStep == IInv /\ TypeOK' /\ [Next]_vars => [Abstract!Next]_Abstract!vars
<1> SUFFICES ASSUME IInv, TypeOK', [Next]_vars PROVE [Abstract!Next]_Abstract!vars
  OBVIOUS
<1> USE DEF IInv
<1>1. ASSUME NEW w \in Workers, ClaimJob(w) \/ FailOrphan(w) \/ ClaimNothing(w)
      PROVE  Abstract!Next
  BY <1>1, SweepGivesUp
<1>2. ASSUME NEW w \in Workers,
             \/ StartProcessing(w) \/ Infer(w) \/ BeginWrite(w) \/ AbortResults(w)
             \/ Crash(w) \/ RenewLease(w) \/ HeartbeatError(w)
      PROVE  UNCHANGED Abstract!vars
  <2>1. UNCHANGED <<status, image, batches>>
    BY <1>2 DEF StartProcessing, Infer, BeginWrite, AbortResults, Crash, RenewLease,
                HeartbeatError, tables, rows
  <2> QED
    BY <2>1, SameFates
<1>3. ASSUME NEW w \in Workers, CommitResults(w) PROVE Abstract!Next
  <2>1. PICK j \in Jobs :
          /\ status[j] = "processing" /\ image[j] = "present"
          /\ image' = image
          /\ status' = [status EXCEPT ![j] = "done"]
          /\ batches' = [batches EXCEPT ![j] = @ + 1]
    BY <1>3 DEF CommitResults, Owns, Release, WorkersOK
  <2>2. batches' \in [Jobs -> Nat] /\ batches'[j] = 1
    BY <2>1 DEF TypeOK, ResultsOnceIffDone
  <2>3. \A i \in Jobs \ {j} : Fate(i)' = Fate(i) /\ batches'[i] = batches[i]
    BY <2>1, FateKept DEF TypeOK
  <2>4. Fate(j) = "waiting" /\ Fate(j)' = "done"
    <3>1. status'[j] = "done" /\ image'[j] # "gone"
      BY <2>1 DEF TypeOK
    <3> QED
      BY <2>1, <3>1, FateOf, FatePrimed
  <2> QED
    BY <2>1, <2>2, <2>3, <2>4, OneFateChanges
<1>4. ASSUME NEW w \in Workers, RecordFailure(w) \/ MarkDiscarded(w)
      PROVE  Abstract!Next \/ UNCHANGED Abstract!vars
  <2>1. PICK j \in Jobs : j = job[w] /\ image' = image /\ batches' = batches
    BY <1>4 DEF RecordFailure, MarkDiscarded, WorkersOK
  <2>2. CASE UNCHANGED rows
    BY <2>1, <2>2, SameFates DEF rows
  <2>3. ASSUME status[j] = "processing", NEW outcome \in {"pending", "failed"},
               status' = [status EXCEPT ![j] = outcome]
        PROVE  Abstract!Next
    <3>1. status'[j] = outcome
      BY <2>1, <2>3 DEF TypeOK
    <3>2. \A i \in Jobs \ {j} : Fate(i)' = Fate(i)
      BY <2>1, <2>3, FateKept DEF TypeOK
    <3>3. CASE outcome = "failed" /\ image[j] # "gone"
      <4>1. Fate(j) = "waiting" /\ Fate(j)' = "failed"
        BY <2>1, <2>3, <3>1, <3>3, FateOf, FatePrimed
      <4>2. GivesUp({j})
        BY <2>1, <3>2, <4>1 DEF GivesUp
      <4> QED
        BY <2>1, <4>2, GivesUpIsAllowed
    <3>4. CASE outcome = "pending" \/ image[j] = "gone"
      <4>1. Fate(j)' = Fate(j)
        BY <2>1, <2>3, <3>1, <3>4, FateKept
      <4>2. GivesUp({})
        BY <2>1, <3>2, <4>1 DEF GivesUp
      <4> QED
        BY <4>2, GivesUpIsAllowed
    <3> QED
      BY <3>3, <3>4
  <2>4. \/ UNCHANGED rows
        \/ /\ status[j] = "processing"
           /\ \E outcome \in {"pending", "failed"} : status' = [status EXCEPT ![j] = outcome]
    BY <1>4, <2>1 DEF RecordFailure, MarkDiscarded, Owns, Release
  <2> QED
    BY <2>2, <2>3, <2>4
<1>5. ASSUME NEW j \in Jobs, CreateDetectionJob(j) PROVE Abstract!Next
  <2>1. /\ status[j] = "absent" /\ image[j] = "none" /\ batches' = batches
        /\ status' = [status EXCEPT ![j] = "pending"]
        /\ image' = [image EXCEPT ![j] = "present"]
    BY <1>5 DEF CreateDetectionJob, RowsOK
  <2>2. \A i \in Jobs \ {j} : Fate(i)' = Fate(i) /\ batches'[i] = batches[i]
    BY <2>1, FateKept DEF TypeOK
  <2>3. status'[j] = "pending" /\ image'[j] # "gone"
    BY <2>1 DEF TypeOK
  <2>4. Fate(j) = "none" /\ Fate(j)' = "waiting"
    BY <2>1, <2>3, FateOf, FatePrimed
  <2> QED
    BY <2>1, <2>2, <2>4, OneFateChanges DEF TypeOK
<1>6. ASSUME NEW j \in Jobs, DeleteImage(j) PROVE Abstract!Next
  <2>1. /\ image[j] = "present"
        /\ image' = [image EXCEPT ![j] = "gone"]
        /\ batches' = [batches EXCEPT ![j] = 0]
        /\ status' = status \/ status' = [status EXCEPT ![j] = "deleted"]
    BY <1>6 DEF DeleteImage, Release, rows
  <2>2. \A i \in Jobs \ {j} : Fate(i)' = Fate(i) /\ batches'[i] = batches[i]
    BY <2>1, FateKept DEF TypeOK
  <2>3. image'[j] = "gone" /\ batches'[j] = 0 /\ batches' \in [Jobs -> Nat]
    BY <2>1 DEF TypeOK
  <2>4. Fate(j)' = "removed"
    BY <2>3, FatePrimed
  <2>5. status[j] \in {"pending", "processing", "done", "failed"}
    BY <2>1 DEF RowsOK, TypeOK, Statuses
  <2>6. Fate(j) \in {"waiting", "done", "failed"}
    BY <2>1, <2>5, FateOf
  <2> QED
    BY <2>2, <2>3, <2>4, <2>6, OneFateChanges
<1>7. ASSUME Tick \/ UNCHANGED vars PROVE UNCHANGED Abstract!vars
  <2>1. UNCHANGED <<status, image, batches>>
    BY <1>7 DEF Tick, vars, tables, rows
  <2> QED
    BY <2>1, SameFates
<1> QED
  BY <1>1, <1>2, <1>3, <1>4, <1>5, <1>6, <1>7 DEF Next, Run

\* Leases, retries and crashes are invisible: the worker protocol implements
\* DetectionSpec, in which a job is delivered once, in one step, or given up.
THEOREM DetectionRefinement == Spec => ImplementsDetectionSpec
<1>1. Init => Abstract!Init
  BY AbstractInit
<1>2. IInv /\ IInv' /\ [Next]_vars => [Abstract!Next]_Abstract!vars
  BY AbstractStep DEF IInv
<1> QED
  BY <1>1, <1>2, SpecIInv, PTL DEF Spec, ImplementsDetectionSpec, Abstract!Spec

-----------------------------------------------------------------------------
(* What a step may never do.                                                 *)

\* A step that takes a job from the hands of a live lease is its owner's own, or it deletes
\* the image.
TakenByOwner(j) ==
    /\ status[j] = "processing" /\ lease[j] > 0
    /\ status'[j] # "processing" \/ token'[j] # token[j]
    => \/ image'[j] # "present"
       \/ \E w \in Workers : job[w] = j /\ held[w] = token[j] /\ pc'[w] # pc[w]

\* A claim counts a job whose turn it is.
CountedInTurn(j) ==
    attempts'[j] # attempts[j] =>
        /\ status[j] = "pending" => wait[j] = 0
        /\ status[j] = "processing" => lease[j] = 0
        /\ ~Locked(j)

\* A sweep, and the claim after it, leave alone what a live lease protects.
LEMMA LiveIsNotTaken ==
    ASSUME NEW j \in Jobs, status[j] = "processing", lease[j] > 0
    PROVE  /\ j \notin Exhausted /\ j \notin Eligible
           /\ Swept(status, "failed")[j] = status[j] /\ Swept(token, 0)[j] = token[j]
<1>1. j \notin Exhausted /\ j \notin Eligible
  BY DEF Exhausted, Eligible, Expired
<1> QED
  BY <1>1 DEF Swept

LEMMA ClaimsAreInTurn ==
    ASSUME IInv, NEW w \in Workers, ClaimJob(w) \/ FailOrphan(w) \/ ClaimNothing(w), NEW j \in Jobs
    PROVE  TakenByOwner(j) /\ CountedInTurn(j)
<1>1. TypeOK
  BY DEF IInv
<1>2. CASE ClaimJob(w)
  <2>1. PICK k \in Eligible :
          /\ status' = [Swept(status, "failed") EXCEPT ![k] = "processing"]
          /\ attempts' = [attempts EXCEPT ![k] = @ + 1]
          /\ token' = [Swept(token, 0) EXCEPT ![k] = attempts[k] + 1]
    BY <1>2 DEF ClaimJob
  <2>2. TakenByOwner(j)
    <3> SUFFICES ASSUME status[j] = "processing", lease[j] > 0
                 PROVE  status'[j] = status[j] /\ token'[j] = token[j]
      BY DEF TakenByOwner
    <3>1. j # k /\ Swept(status, "failed")[j] = status[j] /\ Swept(token, 0)[j] = token[j]
      BY LiveIsNotTaken
    <3> QED
      BY <1>1, <2>1, <3>1, SweepTypes
  <2>3. CountedInTurn(j)
    <3> SUFFICES ASSUME attempts'[j] # attempts[j]
                 PROVE  j \in Eligible
      BY <1>1, ConstantsOK DEF CountedInTurn, Eligible, Expired
    <3> QED
      BY <1>1, <2>1 DEF TypeOK
  <2> QED
    BY <2>2, <2>3
<1>3. CASE FailOrphan(w) \/ ClaimNothing(w)
  <2>1. attempts' = attempts
    BY <1>3 DEF FailOrphan, ClaimNothing
  <2>2. TakenByOwner(j)
    <3> SUFFICES ASSUME status[j] = "processing", lease[j] > 0
                 PROVE  status'[j] = status[j] /\ token'[j] = token[j]
      BY DEF TakenByOwner
    <3>1. j \notin Eligible /\ Swept(status, "failed")[j] = status[j] /\ Swept(token, 0)[j] = token[j]
      BY LiveIsNotTaken
    <3>2. CASE ClaimNothing(w)
      BY <3>1, <3>2 DEF ClaimNothing
    <3>3. CASE FailOrphan(w)
      <4>1. PICK k \in Eligible :
              /\ status' = [Swept(status, "failed") EXCEPT ![k] = "failed"]
              /\ token' = [Swept(token, 0) EXCEPT ![k] = 0]
        BY <3>3 DEF FailOrphan
      <4> QED
        BY <1>1, <3>1, <4>1, SweepTypes
    <3> QED
      BY <1>3, <3>2, <3>3
  <2> QED
    BY <2>1, <2>2 DEF CountedInTurn
<1> QED
  BY <1>2, <1>3

\* Where a worker releases a row, it owns it and moves on.
LEMMA ReleaseByOwner ==
    ASSUME IInv, NEW w \in Workers, Owns(w, job[w]), pc'[w] # pc[w],
           NEW outcome, NEW pause, Release(job[w], outcome, pause), NEW j \in Jobs
    PROVE  TakenByOwner(j) /\ CountedInTurn(j)
<1>1. attempts' = attempts
  BY DEF Release
<1>2. CASE j = job[w]
  <2>1. job[w] = j /\ held[w] = token[j] /\ pc'[w] # pc[w]
    BY <1>2 DEF Owns
  <2> QED
    BY <1>1, <2>1 DEF TakenByOwner, CountedInTurn
<1>3. CASE j # job[w]
  <2>1. status'[j] = status[j] /\ token'[j] = token[j]
    BY <1>3 DEF Release, IInv, TypeOK
  <2> QED
    BY <1>1, <2>1 DEF TakenByOwner, CountedInTurn
<1> QED
  BY <1>2, <1>3

LEMMA KeptIsKept ==
    ASSUME UNCHANGED <<status, attempts, token>>, NEW j \in Jobs
    PROVE  TakenByOwner(j) /\ CountedInTurn(j)
BY DEF TakenByOwner, CountedInTurn

LEMMA ServerTakes ==
    ASSUME IInv, NEW i \in Jobs, CreateDetectionJob(i) \/ DeleteImage(i), NEW j \in Jobs
    PROVE  TakenByOwner(j) /\ CountedInTurn(j)
<1> USE DEF IInv, TypeOK
<1>1. attempts' = attempts
  BY DEF CreateDetectionJob, DeleteImage, Release, rows
<1>2. CASE j # i
  <2>1. status'[j] = status[j] /\ token'[j] = token[j]
    BY <1>2 DEF CreateDetectionJob, DeleteImage, Release, rows
  <2> QED
    BY <1>1, <2>1 DEF TakenByOwner, CountedInTurn
<1>3. CASE j = i /\ CreateDetectionJob(i)
  <2>1. status[j] = "absent"
    BY <1>3 DEF CreateDetectionJob
  <2> QED
    BY <1>1, <2>1 DEF TakenByOwner, CountedInTurn
<1>4. CASE j = i /\ DeleteImage(i)
  <2>1. image'[j] = "gone"
    BY <1>4 DEF DeleteImage
  <2> QED
    BY <1>1, <2>1 DEF TakenByOwner, CountedInTurn
<1> QED
  BY <1>2, <1>3, <1>4

LEMMA WorkerTakes ==
    ASSUME IInv, NEW w \in Workers, CommitResults(w) \/ RecordFailure(w) \/ MarkDiscarded(w), NEW j \in Jobs
    PROVE  TakenByOwner(j) /\ CountedInTurn(j)
<1>1. CASE UNCHANGED rows
  BY <1>1, KeptIsKept DEF rows
<1>2. ASSUME ~UNCHANGED rows
      PROVE  Owns(w, job[w]) /\ \E outcome, pause : Release(job[w], outcome, pause)
  <2>1. CASE CommitResults(w)
    BY <2>1 DEF CommitResults
  <2>2. CASE RecordFailure(w)
    BY <1>2, <2>2 DEF RecordFailure
  <2>3. CASE MarkDiscarded(w)
    BY <1>2, <2>3 DEF MarkDiscarded
  <2> QED
    BY <2>1, <2>2, <2>3
<1>3. pc[w] \in {"writing", "failing", "discarding"} /\ pc'[w] # pc[w]
  <2>1. pc \in [Workers -> {"idle", "claimed", "inferring", "inferred", "writing", "failing", "discarding"}]
    BY DEF IInv, TypeOK
  <2>2. CASE CommitResults(w)
    BY <2>1, <2>2 DEF CommitResults, Forget, Raise, Goto
  <2>3. CASE RecordFailure(w)
    BY <2>1, <2>3 DEF RecordFailure, Forget, Goto
  <2>4. CASE MarkDiscarded(w)
    BY <2>1, <2>4 DEF MarkDiscarded, Forget, Goto
  <2> QED
    BY <2>2, <2>3, <2>4
<1> QED
  BY <1>1, <1>2, <1>3, ReleaseByOwner

LEMMA StepsTakeInTurn ==
    ASSUME IInv, [Next]_vars, NEW j \in Jobs
    PROVE  TakenByOwner(j) /\ CountedInTurn(j)
<1>1. ASSUME NEW w \in Workers, Run(w) PROVE TakenByOwner(j) /\ CountedInTurn(j)
  <2>1. CASE ClaimJob(w) \/ FailOrphan(w) \/ ClaimNothing(w)
    BY <2>1, ClaimsAreInTurn
  <2>2. CASE CommitResults(w) \/ RecordFailure(w) \/ MarkDiscarded(w)
    BY <2>2, WorkerTakes
  <2>3. CASE StartProcessing(w) \/ Infer(w) \/ BeginWrite(w) \/ AbortResults(w)
    <3>1. UNCHANGED <<status, attempts, token>>
      BY <2>3 DEF StartProcessing, Infer, BeginWrite, AbortResults, tables, rows
    <3> QED
      BY <3>1, KeptIsKept
  <2> QED
    BY <1>1, <2>1, <2>2, <2>3 DEF Run
<1>2. CASE \/ \E w \in Workers : RenewLease(w) \/ HeartbeatError(w) \/ Crash(w)
           \/ Tick \/ UNCHANGED vars
  <2>1. UNCHANGED <<status, attempts, token>>
    BY <1>2 DEF RenewLease, HeartbeatError, Crash, Tick, tables, rows, vars
  <2> QED
    BY <2>1, KeptIsKept
<1> QED
  BY <1>1, <1>2, ServerTakes DEF Next

\* While a lease is live, its job leaves the hands of the worker that holds its token only
\* by that worker's own result, failure or discard, or with its image.
THEOREM LeasesAreExclusive == Spec => LiveLeaseIsExclusive
<1>1. ASSUME IInv, [Next]_vars PROVE \A j \in Jobs : TakenByOwner(j)
  BY <1>1, StepsTakeInTurn
<1>2. IInv /\ [Next]_vars =>
        [\A j \in Jobs :
             /\ status[j] = "processing" /\ lease[j] > 0
             /\ status'[j] # "processing" \/ token'[j] # token[j]
             => \/ image'[j] # "present"
                \/ \E w \in Workers :
                      job[w] = j /\ held[w] = token[j] /\ pc'[w] # pc[w]]_vars
  BY <1>1 DEF TakenByOwner
<1> QED
  BY <1>2, SpecIInv, PTL DEF Spec, LiveLeaseIsExclusive

\* A job that rests after a failure, or whose lease is live, or whose results are being
\* written, is claimed by nobody.
THEOREM ClaimsAreTimely == Spec => ClaimsWaitTheirTurn
<1>1. ASSUME IInv, [Next]_vars PROVE \A j \in Jobs : CountedInTurn(j)
  BY <1>1, StepsTakeInTurn
<1>2. IInv /\ [Next]_vars =>
        [\A j \in Jobs :
             attempts'[j] # attempts[j] =>
                /\ status[j] = "pending" => wait[j] = 0
                /\ status[j] = "processing" => lease[j] = 0
                /\ ~Locked(j)]_vars
  BY <1>1 DEF CountedInTurn
<1> QED
  BY <1>2, SpecIInv, PTL DEF Spec, ClaimsWaitTheirTurn

=============================================================================
