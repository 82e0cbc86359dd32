----------------------------- MODULE DetectionJobs -----------------------------
(***************************************************************************)
(* The detection queue: rows of the table detection_jobs, the worker       *)
(* processes that claim them under a lease (worker/main.py), the heartbeat *)
(* thread that renews the lease, and the server's side of the table (a job *)
(* is inserted with its image and deleted with it).                        *)
(*                                                                         *)
(* Every action is one database transaction or one step between two        *)
(* transactions of a worker.  Time is counted in ticks: lease[j] is what   *)
(* is left of lease_expires_at (0 when it is NULL or in the past), wait[j] *)
(* what is left until next_attempt_at.  A claim draws a fresh uuid4 as its *)
(* lease_token; here it is the number of the attempt, 0 standing for NULL: *)
(* attempt_count never decreases, so it is fresh for the job as well.      *)
(***************************************************************************)
EXTENDS Naturals, FiniteSets

CONSTANTS
    Workers,            \* worker processes
    Jobs,               \* rows of detection_jobs
    Uncascaded,         \* rows of a legacy database that outlive their image
    MaxAttempts,        \* MAX_ATTEMPTS
    LeaseTicks,         \* LEASE_SECONDS
    BackoffTicks,       \* RETRY_BACKOFF_SECONDS
    BackoffMaxTicks,    \* RETRY_BACKOFF_MAX_SECONDS
    NoJob               \* not a job

ASSUME ConstantsOK ==
    /\ Uncascaded \subseteq Jobs
    /\ NoJob \notin Jobs
    /\ MaxAttempts \in Nat \ {0}
    /\ LeaseTicks \in Nat \ {0}
    /\ BackoffTicks \in Nat \ {0}
    /\ BackoffMaxTicks \in Nat
    /\ BackoffMaxTicks >= BackoffTicks

\* True in arithmetic; stated because the provers have no theory of powers.
ASSUME PowersAreNat == \A n \in 1..MaxAttempts : 2 ^ (n - 1) \in Nat

VARIABLES
    (* detection_jobs and wall_images *)
    status, attempts, token, lease, wait,
    image,      \* the wall_images row of the job
    batches,    \* result sets stored in holds for the image
    (* worker processes *)
    pc, job, held,      \* control point, claimed job and its token
    beat, lost          \* the heartbeat thread and its "lost" event

rows == <<status, attempts, token, lease, wait>>
tables == <<rows, image, batches>>
heartbeat == <<beat, lost>>
procs == <<pc, job, held, heartbeat>>
vars == <<tables, procs>>

Statuses == {"absent", "pending", "processing", "done", "failed", "deleted"}

TypeOK ==
    /\ status \in [Jobs -> Statuses]
    /\ attempts \in [Jobs -> 0..MaxAttempts]
    /\ token \in [Jobs -> 0..MaxAttempts]
    /\ lease \in [Jobs -> 0..LeaseTicks]
    /\ wait \in [Jobs -> 0..BackoffMaxTicks]
    /\ image \in [Jobs -> {"none", "present", "gone"}]
    /\ batches \in [Jobs -> Nat]
    /\ pc \in [Workers -> {"idle", "claimed", "inferring", "inferred",
                           "writing", "failing", "discarding"}]
    /\ job \in [Workers -> Jobs \cup {NoJob}]
    /\ held \in [Workers -> 0..MaxAttempts]
    /\ beat \in [Workers -> {"off", "starting", "beating", "stopped"}]
    /\ lost \in [Workers -> BOOLEAN]

\* Rows that the migration to leases found in 'processing' have no lease.
Init ==
    /\ status \in [Jobs -> {"absent", "processing"}]
    /\ attempts = [j \in Jobs |-> 0]
    /\ token = [j \in Jobs |-> 0]
    /\ lease = [j \in Jobs |-> 0]
    /\ wait = [j \in Jobs |-> 0]
    /\ image = [j \in Jobs |-> IF status[j] = "absent" THEN "none" ELSE "present"]
    /\ batches = [j \in Jobs |-> 0]
    /\ pc = [w \in Workers |-> "idle"]
    /\ job = [w \in Workers |-> NoJob]
    /\ held = [w \in Workers |-> 0]
    /\ beat = [w \in Workers |-> "off"]
    /\ lost = [w \in Workers |-> FALSE]

-----------------------------------------------------------------------------
(* Helpers *)

\* write_results holds the row lock of its job from its first check to its
\* commit; every other statement that needs the row waits for it.
Locked(j) == \E w \in Workers : pc[w] = "writing" /\ job[w] = j

OwnsAnyToken(w, j) == job[w] = j /\ status[j] = "processing" /\ lease[j] > 0   \* mutant

\* The guard of every statement that touches a claimed row: WHERE id = ...
\* AND status = 'processing' AND lease_token = ... AND lease_expires_at > now.
Owns(w, j) ==
    /\ job[w] = j
    /\ status[j] = "processing"
    /\ token[j] = held[w]
    /\ lease[j] > 0

RetryBackoff(n) ==
    LET doubled == BackoffTicks * 2 ^ (n - 1)
    IN IF doubled < BackoffMaxTicks THEN doubled ELSE BackoffMaxTicks

Goto(w, point) == pc' = [pc EXCEPT ![w] = point]

\* poll_and_process returns: the worker forgets the job, the thread stops.
Forget(w) ==
    /\ Goto(w, "idle")
    /\ job' = [job EXCEPT ![w] = NoJob]
    /\ held' = [held EXCEPT ![w] = 0]
    /\ beat' = [beat EXCEPT ![w] = "off"]
    /\ lost' = [lost EXCEPT ![w] = FALSE]

\* An exception leaves the with-block: __exit__ stops the heartbeat first.
Raise(w, handler) ==
    /\ Goto(w, handler)
    /\ beat' = [beat EXCEPT ![w] = "off"]
    /\ UNCHANGED <<job, held, lost>>

\* A finished or returned row: no lease; pause is the time to its next attempt.
Release(j, outcome, pause) ==
    /\ status' = [status EXCEPT ![j] = outcome]
    /\ token' = [token EXCEPT ![j] = 0]
    /\ lease' = [lease EXCEPT ![j] = 0]
    /\ wait' = [wait EXCEPT ![j] = pause]
    /\ UNCHANGED attempts

-----------------------------------------------------------------------------
(* The server: a job is inserted in the transaction of its upload, and      *)
(* deleted with its image (reset discarded or superseded, wall deleted).    *)

CreateDetectionJob(j) ==
    /\ status[j] = "absent"
    /\ status' = [status EXCEPT ![j] = "pending"]
    /\ image' = [image EXCEPT ![j] = "present"]
    /\ UNCHANGED <<attempts, token, lease, wait, batches, procs>>

DeleteImage(j) ==
    /\ image[j] = "present"
    /\ image' = [image EXCEPT ![j] = "gone"]
    /\ batches' = [batches EXCEPT ![j] = 0]
    /\ \/ /\ j \in Uncascaded
          /\ UNCHANGED rows
       \/ /\ j \notin Uncascaded
          /\ ~Locked(j)
          /\ Release(j, "deleted", 0)
    /\ UNCHANGED procs

-----------------------------------------------------------------------------
(* claim_job *)

Expired(j) == status[j] = "processing" /\ lease[j] = 0

ExhaustedEarly ==                                                       \* mutant
    {j \in Jobs : attempts[j] >= MaxAttempts - 1 /\ (status[j] = "pending" \/ Expired(j))}

ExhaustedPending == {j \in Jobs : attempts[j] >= MaxAttempts /\ status[j] = "pending"}  \* mutant

Exhausted ==
    {j \in Jobs : attempts[j] >= MaxAttempts /\ (status[j] = "pending" \/ Expired(j))}

EligibleAtOnce ==                                                       \* mutant
    {j \in Jobs : /\ attempts[j] < MaxAttempts
                  /\ status[j] = "pending" \/ Expired(j)
                  /\ ~Locked(j)}

Eligible ==
    {j \in Jobs : /\ attempts[j] < MaxAttempts
                  /\ (status[j] = "pending" /\ wait[j] = 0) \/ Expired(j)
                  /\ ~Locked(j)}                            \* SKIP LOCKED

\* The first statement of claim_job waits for a locked row it must update.
SweepReady(w) == pc[w] = "idle" /\ \A j \in Exhausted : ~Locked(j)

\* Rows after the sweep, with f[j] replaced by x for the swept rows.
Swept(f, x) == [j \in Jobs |-> IF j \in Exhausted THEN x ELSE f[j]]

ClaimJobSameToken(w) ==                                                 \* mutant
    /\ SweepReady(w)
    /\ \E j \in Eligible : LET drawn == IF token[j] # 0 THEN token[j] ELSE attempts[j] + 1 IN
        /\ image[j] = "present"
        /\ status' = [Swept(status, "failed") EXCEPT ![j] = "processing"]
        /\ attempts' = [attempts EXCEPT ![j] = @ + 1]
        /\ token' = [Swept(token, 0) EXCEPT ![j] = drawn]
        /\ lease' = [Swept(lease, 0) EXCEPT ![j] = LeaseTicks]
        /\ job' = [job EXCEPT ![w] = j]
        /\ held' = [held EXCEPT ![w] = drawn]
    /\ Goto(w, "claimed")
    /\ beat' = [beat EXCEPT ![w] = "starting"]
    /\ UNCHANGED <<wait, image, batches, lost>>

\* ORDER BY next_attempt_at is left open: any eligible row may come first.
ClaimJob(w) ==
    /\ SweepReady(w)
    /\ \E j \in Eligible :
        /\ image[j] = "present"
        /\ status' = [Swept(status, "failed") EXCEPT ![j] = "processing"]
        /\ attempts' = [attempts EXCEPT ![j] = @ + 1]
        /\ token' = [Swept(token, 0) EXCEPT ![j] = attempts[j] + 1]
        /\ lease' = [Swept(lease, 0) EXCEPT ![j] = LeaseTicks]
        /\ job' = [job EXCEPT ![w] = j]
        /\ held' = [held EXCEPT ![w] = attempts[j] + 1]
    /\ Goto(w, "claimed")
    /\ beat' = [beat EXCEPT ![w] = "starting"]
    /\ UNCHANGED <<wait, image, batches, lost>>

\* The selected row has no image: it is failed and nothing is returned.
FailOrphan(w) ==
    /\ SweepReady(w)
    /\ \E j \in Eligible :
        /\ image[j] # "present"
        /\ status' = [Swept(status, "failed") EXCEPT ![j] = "failed"]
        /\ token' = [Swept(token, 0) EXCEPT ![j] = 0]
        /\ lease' = [Swept(lease, 0) EXCEPT ![j] = 0]
    /\ UNCHANGED <<attempts, wait, image, batches, procs>>

\* Nothing to claim; the sweep is committed all the same.
ClaimNothing(w) ==
    /\ SweepReady(w)
    /\ Eligible = {}
    /\ status' = Swept(status, "failed")
    /\ token' = Swept(token, 0)
    /\ lease' = Swept(lease, 0)
    /\ UNCHANGED <<attempts, wait, image, batches, procs>>

-----------------------------------------------------------------------------
(* LeaseHeartbeat *)

RenewLease(w) ==
    /\ beat[w] \in {"starting", "beating"}
    /\ ~Locked(job[w])
    /\ \/ /\ Owns(w, job[w])
          /\ lease' = [lease EXCEPT ![job[w]] = LeaseTicks]
          /\ beat' = [beat EXCEPT ![w] = "beating"]
          /\ UNCHANGED lost
       \/ /\ ~Owns(w, job[w])
          /\ beat' = [beat EXCEPT ![w] = "stopped"]
          /\ lost' = [lost EXCEPT ![w] = TRUE]
          /\ UNCHANGED lease
    /\ UNCHANGED <<status, attempts, token, wait, image, batches, pc, job, held>>

\* No connection, or the renewal raised: the thread ends.
HeartbeatError(w) ==
    /\ beat[w] \in {"starting", "beating"}
    /\ beat' = [beat EXCEPT ![w] = "stopped"]
    /\ lost' = [lost EXCEPT ![w] = TRUE]
    /\ UNCHANGED <<tables, pc, job, held>>

-----------------------------------------------------------------------------
(* process_job *)

\* __enter__ waits for the first renewal, at most ten seconds; then the image
\* is looked up before any work is done.
StartProcessing(w) ==
    /\ pc[w] = "claimed"
    /\ \/ /\ image[job[w]] = "present"
          /\ Goto(w, "inferring")
          /\ lost' = [lost EXCEPT ![w] = @ \/ beat[w] = "starting"]
          /\ UNCHANGED <<job, held, beat>>
       \/ /\ image[job[w]] # "present"
          /\ Raise(w, "discarding")
       \/ Raise(w, "failing")                        \* the lookup failed
    /\ UNCHANGED tables

\* Download, inference, and for a partial reset alignment and matching (whose
\* own exceptions are swallowed).
Infer(w) ==
    /\ pc[w] = "inferring"
    /\ \/ Goto(w, "inferred") /\ UNCHANGED <<job, held, heartbeat>>
       \/ Raise(w, "failing")
    /\ UNCHANGED tables

\* assert_owned, then write_results up to its locks and checks.  A job row
\* deleted with its wall raises DiscardedJobError, one deleted with its image
\* alone LeaseLostError.
BeginWrite(w) ==
    /\ pc[w] = "inferred"
    /\ ~Locked(job[w])
    /\ \/ /\ lost[w] \/ ~Owns(w, job[w])
          /\ Forget(w)
       \/ /\ ~lost[w]
          /\ \/ status[job[w]] = "deleted"
             \/ Owns(w, job[w]) /\ image[job[w]] # "present"
          /\ Raise(w, "discarding")
       \/ /\ ~lost[w]
          /\ Owns(w, job[w])
          /\ image[job[w]] = "present"
          /\ Goto(w, "writing")
          /\ UNCHANGED <<job, held, heartbeat>>
       \/ ~lost[w] /\ Raise(w, "failing")            \* database error
    /\ UNCHANGED tables

CommitResultsUnfenced(w) ==                                             \* mutant
    /\ pc[w] = "writing"
    /\ image[job[w]] = "present"
    /\ IF Owns(w, job[w]) THEN Release(job[w], "done", 0) ELSE UNCHANGED rows
    /\ batches' = [batches EXCEPT ![job[w]] = @ + 1]
    /\ Forget(w)
    /\ UNCHANGED image

\* The inserts and the fenced UPDATE ... 'done'.  The commit may succeed
\* without the worker learning of it.
CommitResults(w) ==
    /\ pc[w] = "writing"
    /\ Owns(w, job[w])
    /\ image[job[w]] = "present"
    /\ Release(job[w], "done", 0)
    /\ batches' = [batches EXCEPT ![job[w]] = @ + 1]
    /\ Forget(w) \/ Raise(w, "failing")
    /\ UNCHANGED image

\* The transaction rolls back: the lease ran out before the last UPDATE, the
\* image is gone, or the database reported an error (a deadlock, a match whose
\* old hold was deleted).
AbortResults(w) ==
    /\ pc[w] = "writing"
    /\ \/ ~Owns(w, job[w]) /\ Forget(w)
       \/ image[job[w]] # "present" /\ Raise(w, "discarding")
       \/ Raise(w, "failing")
    /\ UNCHANGED tables

RecordFailureUnfenced(w) ==                                             \* mutant
    /\ pc[w] = "failing"
    /\ ~Locked(job[w])
    /\ status[job[w]] # "deleted"
    /\ \/ held[w] < MaxAttempts /\ Release(job[w], "pending", RetryBackoff(held[w]))
       \/ held[w] >= MaxAttempts /\ Release(job[w], "failed", 0)
       \/ UNCHANGED rows
    /\ Forget(w)
    /\ UNCHANGED <<image, batches>>

RecordFailure(w) ==
    /\ pc[w] = "failing"
    /\ ~Locked(job[w])
    /\ \/ /\ Owns(w, job[w])
          /\ \/ /\ held[w] < MaxAttempts
                /\ Release(job[w], "pending", RetryBackoff(held[w]))
             \/ /\ held[w] >= MaxAttempts
                /\ Release(job[w], "failed", 0)
       \/ UNCHANGED rows          \* no longer owned, or the database failed
    /\ Forget(w)
    /\ UNCHANGED <<image, batches>>

MarkDiscarded(w) ==
    /\ pc[w] = "discarding"
    /\ ~Locked(job[w])
    /\ \/ Owns(w, job[w]) /\ Release(job[w], "failed", 0)
       \/ UNCHANGED rows
    /\ Forget(w)
    /\ UNCHANGED <<image, batches>>

\* The process dies; its connections and locks die with it, and the container
\* is restarted into the poll loop.
Crash(w) ==
    /\ pc[w] # "idle"
    /\ Forget(w)
    /\ UNCHANGED tables

-----------------------------------------------------------------------------
Countdown(f) == [j \in Jobs |-> IF f[j] > 0 THEN f[j] - 1 ELSE 0]

Tick ==
    /\ \E j \in Jobs : lease[j] > 0 \/ wait[j] > 0
    /\ lease' = Countdown(lease)
    /\ wait' = Countdown(wait)
    /\ UNCHANGED <<status, attempts, token, image, batches, procs>>

\* The main thread of a worker process.
Run(w) ==
    \/ ClaimJob(w) \/ FailOrphan(w) \/ ClaimNothing(w)
    \/ StartProcessing(w) \/ Infer(w)
    \/ BeginWrite(w) \/ CommitResults(w) \/ AbortResults(w)
    \/ RecordFailure(w) \/ MarkDiscarded(w)

Next ==
    \/ \E w \in Workers : Run(w) \/ RenewLease(w) \/ HeartbeatError(w) \/ Crash(w)
    \/ \E j \in Jobs : CreateDetectionJob(j) \/ DeleteImage(j)
    \/ Tick

\* Workers poll forever and time passes; uploads, deletions, crashes and the
\* heartbeat (a thread that may stall) are promised nothing.
Fairness == WF_vars(Tick) /\ \A w \in Workers : WF_vars(Run(w))

Spec == Init /\ [][Next]_vars

FairSpec == Spec /\ Fairness

-----------------------------------------------------------------------------
(* Properties *)

\* Crashes, expired leases, retries and commits of unknown outcome never store
\* the holds of an image twice, never store them without the job being done,
\* and never report the job done without them (write_results).
ResultsOnceIffDone ==
    \A j \in Jobs :
        batches[j] = IF status[j] = "done" /\ image[j] = "present" THEN 1 ELSE 0

\* However late a worker wakes up, the token it holds is not the token another
\* worker was given for the same job (claim_job draws a fresh lease_token).
TokensNotShared ==
    \A v, w \in Workers :
        v # w /\ job[v] = job[w] /\ job[v] # NoJob => held[v] # held[w]

\* A job whose image is still there fails for good only after MAX_ATTEMPTS
\* claims: no crash, lost lease or discarded reset burns the remaining ones.
NoPrematureFailure ==
    \A j \in Jobs :
        status[j] = "failed" /\ image[j] = "present" => attempts[j] = MaxAttempts

\* While a lease is live, a job leaves the hands of its owner only by the
\* owner's own result, failure or discard, or because its image is deleted;
\* a worker that lost the lease changes nothing (FOR UPDATE and the lease
\* conditions of every statement).
LiveLeaseIsExclusive ==
    [][\A j \in Jobs :
         /\ status[j] = "processing" /\ lease[j] > 0
         /\ status'[j] # "processing" \/ token'[j] # token[j]
         => \/ image'[j] # "present"
            \/ \E w \in Workers :
                  job[w] = j /\ held[w] = token[j] /\ pc'[w] # pc[w]]_vars

\* After a failure the job rests until next_attempt_at; only an expired lease
\* is reclaimed at once, and no claim ever takes a row out of a result
\* transaction that is still open (SKIP LOCKED).
ClaimsWaitTheirTurn ==
    [][\A j \in Jobs :
         attempts'[j] # attempts[j] =>
            /\ status[j] = "pending" => wait[j] = 0
            /\ status[j] = "processing" => lease[j] = 0
            /\ ~Locked(j)]_vars

\* Whatever crashes, every job that exists is eventually done, failed or
\* deleted: expired leases are reclaimed and attempts run out (claim_job).
EveryJobSettles ==
    \A j \in Jobs :
        status[j] \in {"pending", "processing"}
            ~> status[j] \notin {"pending", "processing"}

-----------------------------------------------------------------------------
(* DetectionSpec is what the rest of the system sees of this protocol. *)

Fate(j) ==
    IF image[j] = "gone" THEN "removed"
    ELSE IF status[j] = "absent" THEN "none"
    ELSE IF status[j] \in {"pending", "processing"} THEN "waiting"
    ELSE status[j]

Abstract == INSTANCE DetectionSpec
    WITH fate <- [j \in Jobs |-> Fate(j)], results <- batches

\* The leased, crashing, retrying workers implement at-most-once delivery.
ImplementsDetectionSpec == Abstract!Spec

=============================================================================
