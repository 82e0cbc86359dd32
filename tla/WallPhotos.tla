----------------------------- MODULE WallPhotos -----------------------------
(***************************************************************************)
(* The stored photos of a wall: uploads, discarded resets and the deletion *)
(* of a wall (server/internal/wall/handler.go, reset.go), and the queue of *)
(* objects that could not be deleted yet.                                  *)
(*                                                                         *)
(* A photo is an object of the store and a row of the database, and no     *)
(* transaction spans the two.  An upload stores its object first, under a  *)
(* key of its own, and takes it back when no row comes to name it; a row   *)
(* that goes has its object deleted after the commit.  A transaction on    *)
(* the wall's row is one step, as its lock makes it.                       *)
(***************************************************************************)
EXTENDS Naturals, FiniteSets

CONSTANTS
    MaxUploads, \* bounds the uploads; also the keys, which are numbered
    MaxFaults   \* bounds the faults of the store and of the database

VARIABLES
    wall,     \* its row is there
    rows,     \* of its images: their key and status
    objects,  \* keys that are stored
    queue,    \* of storage_deletions: its keys
    due,      \* those whose next_attempt_at has come
    taken,    \* those whose row a server has locked
    requests, \* under way
    made,     \* how many uploads there have been
    open,     \* uploads whose commit got no answer, and has not ended
    faults,   \* how many there have been
    left,     \* history: keys that nobody is left to delete
    late      \* history: a commit ended after its outcome was looked up

vars == <<wall, rows, objects, queue, due, taken, requests, made, open, faults, left, late>>

KeysOf(rs) == {r.key : r \in rs}
Pending == {r \in rows : r.status = "pending"}
Active == {r \in rows : r.status = "active"}

Init ==
    /\ wall = TRUE
    /\ rows \in {{}, {[key |-> 0, status |-> "active"]}}
    /\ objects = KeysOf(rows)
    /\ queue = {} /\ due = {} /\ taken = {}
    /\ requests = {} /\ made = 0 /\ open = {}
    /\ faults = 0 /\ left = {} /\ late = FALSE

Fault == faults < MaxFaults /\ faults' = faults + 1                    \* bound

\* A request goes on to a step, with keys to delete, or ends.
Become(q, step, junk) == requests' = (requests \ {q}) \cup {[q EXCEPT !.step = step, !.junk = junk]}
End(q) == requests' = requests \ {q}

-----------------------------------------------------------------------------
(* Uploading.                                                              *)

UploadImage ==
    /\ wall
    /\ made < MaxUploads                                               \* bound
    /\ \E mode \in {"full", "partial"} :
        /\ mode = "partial" => Active # {}
        /\ requests' = requests \cup
            {[key |-> made + 1, mode |-> mode, parent |-> Active, step |-> "new", junk |-> {}]}
    /\ made' = made + 1
    /\ UNCHANGED <<wall, rows, objects, queue, due, taken, open, faults, left, late>>

Store(q) ==
    /\ q.step = "new"
    /\ objects' = objects \cup {q.key}
    /\ Become(q, "stored", {})
    /\ UNCHANGED <<rows, queue, due, open, faults, left, late>>

\* An upload that failed may have stored the object all the same.
StoreFails(q) ==
    /\ q.step = "new"
    /\ Fault
    /\ objects' \in {objects, objects \cup {q.key}}
    /\ left' = left \cup (objects' \ objects)
    /\ End(q)
    /\ UNCHANGED <<rows, queue, due, open, late>>

\* An open transaction has the lock of the wall.
Unlocked == open = {}

\* The wall's row is there, and a partial upload's parent is still the active image.
Saveable(q) == wall /\ (q.mode = "partial" => Active = q.parent)

\* What the transaction makes of the images: it removes the pending ones, and a full
\* upload deactivates the others.
Saved(q) ==
    LET kept == rows \ Pending
    IN  IF q.mode = "partial"
        THEN kept \cup {[key |-> q.key, status |-> "pending"]}
        ELSE {[r EXCEPT !.status = "old"] : r \in kept} \cup {[key |-> q.key, status |-> "active"]}

Save(q) ==
    /\ q.step = "stored" /\ Unlocked /\ Saveable(q)
    /\ rows' = Saved(q)
    /\ Become(q, "cleaning", KeysOf(Pending))
    /\ UNCHANGED <<objects, queue, due, open, faults, left, late>>

\* rollbackUpload.
Rollback(q) ==
    /\ q.step = "stored" /\ Unlocked
    /\ IF Saveable(q) THEN Fault ELSE UNCHANGED faults
    /\ Become(q, "cleaning", {q.key})
    /\ UNCHANGED <<rows, objects, queue, due, open, left, late>>

\* The answer of the commit is lost.
CommitLost(q) ==
    /\ q.step = "stored" /\ Unlocked /\ Saveable(q)
    /\ Fault
    /\ open' = {q}
    /\ Become(q, "checking", {})
    /\ UNCHANGED <<rows, objects, queue, due, left, late>>

\* It ends in the database: nobody deletes the objects of the pending images it removed.
CommitEnds ==
    /\ \E q \in open :
        \/ UNCHANGED <<rows, left, late>>
        \/ /\ rows' = Saved(q)
           /\ left' = left \cup KeysOf(Pending)
           /\ late' = (late \/ q.key \notin objects \/ q.key \in queue
                            \/ \E p \in requests : q.key \in p.junk)
    /\ open' = {}
    /\ UNCHANGED <<wall, objects, queue, due, taken, requests, made, faults>>

DropUnknown(q) ==                                                      \* mutant
    /\ q.step = "checking"
    /\ Become(q, "cleaning", {q.key})
    /\ UNCHANGED <<rows, objects, queue, due, open, faults, left, late>>

\* The object is kept, unless the row is known to be absent.
CheckOutcome(q) ==
    /\ q.step = "checking"
    /\ IF q.key \in KeysOf(rows)
       THEN End(q) /\ UNCHANGED left
       ELSE \/ Become(q, "cleaning", {q.key}) /\ UNCHANGED left
            \/ End(q) /\ left' = left \cup {q.key}
    /\ UNCHANGED <<rows, objects, queue, due, open, faults, late>>

-----------------------------------------------------------------------------
(* Deleting.                                                               *)

\* deleteStorageObjectBestEffort: an object that cannot be deleted is queued.  A delete
\* that failed may have deleted it all the same.
CleanUp(q) ==
    /\ q.step = "cleaning"
    /\ \/ q.junk = {} /\ End(q) /\ UNCHANGED <<objects, queue, due, faults, left>>
       \/ \E k \in q.junk :
            /\ Become(q, "cleaning", q.junk \ {k})
            /\ \/ objects' = objects \ {k} /\ UNCHANGED <<queue, due, faults, left>>
               \/ /\ Fault
                  /\ objects' \in {objects, objects \ {k}}
                  /\ \/ queue' = queue \cup {k} /\ due' = due \cup {k} /\ UNCHANGED left
                     \/ left' = left \cup {k} /\ UNCHANGED <<queue, due>>
    /\ UNCHANGED <<rows, open, late>>

\* Its part in this: the pending image becomes the active one.
ApplyReset ==
    /\ Unlocked
    /\ Pending # {}
    /\ rows' = {[r EXCEPT !.status = CASE r.status = "pending" -> "active"
                                       [] OTHER -> "old"] : r \in rows}
    /\ UNCHANGED <<wall, objects, queue, due, taken, requests, made, open, faults, left, late>>

\* If the answer of the database is lost, the row is gone and its object stays.
DiscardReset ==
    /\ Unlocked
    /\ \E r \in Pending :
        /\ rows' = rows \ {r}
        /\ \/ /\ requests' = requests \cup
                    {[key |-> r.key, mode |-> "discard", parent |-> {}, step |-> "discarding", junk |-> {r.key}]}
              /\ UNCHANGED <<faults, left>>
           \/ /\ Fault
              /\ left' = left \cup {r.key}
              /\ UNCHANGED requests
    /\ UNCHANGED <<wall, objects, queue, due, taken, made, open, late>>

\* Deleted once, and not queued.
DeleteDiscarded(q) ==
    /\ q.step = "discarding"
    /\ End(q)
    /\ \/ objects' = objects \ q.junk /\ UNCHANGED <<faults, left>>
       \/ /\ Fault
          /\ objects' \in {objects, objects \ q.junk}
          /\ left' = left \cup q.junk
    /\ UNCHANGED <<rows, queue, due, open, late>>

\* wallStorageKeys and queueStoredImages, in the transaction that deletes the rows.
DeleteWall ==
    /\ wall /\ Unlocked
    /\ wall' = FALSE /\ rows' = {}
    /\ queue' = queue \cup KeysOf(rows) /\ due' = due \cup KeysOf(rows)
    /\ UNCHANGED <<objects, taken, requests, made, open, faults, left, late>>

-----------------------------------------------------------------------------
(* RunStorageDeleteQueue, in every server.                                 *)

\* FOR UPDATE SKIP LOCKED.
TakeNext ==
    /\ \E k \in due \ taken : taken' = taken \cup {k}
    /\ UNCHANGED <<wall, rows, objects, queue, due, requests, made, open, faults, left, late>>

ForgetFailed(k) ==                                                     \* mutant
    /\ k \in taken
    /\ taken' = taken \ {k}
    /\ queue' = queue \ {k} /\ due' = due \ {k}
    /\ \/ objects' = objects \ {k} /\ UNCHANGED faults
       \/ objects' = objects /\ Fault
    /\ UNCHANGED <<wall, rows, requests, made, open, left, late>>

\* The row goes after the object.  A failure puts it off by a minute; a commit that
\* fails leaves it as it was.
DeleteStored(k) ==
    /\ k \in taken
    /\ taken' = taken \ {k}
    /\ \/ objects' = objects \ {k} /\ queue' = queue \ {k} /\ due' = due \ {k} /\ UNCHANGED faults
       \/ /\ Fault
          /\ objects' \in {objects, objects \ {k}}
          /\ due' \in {due, due \ {k}}
          /\ UNCHANGED queue
    /\ UNCHANGED <<wall, rows, requests, made, open, left, late>>

MinutePasses ==
    /\ due # queue
    /\ due' = queue
    /\ UNCHANGED <<wall, rows, objects, queue, taken, requests, made, open, faults, left, late>>

\* A server stops: its requests end where they are, and the rows it has locked are free.
\* (With its commit unanswered, the transaction may still end either way.)
Restart ==
    /\ Fault
    /\ requests' = {} /\ taken' = {}
    /\ left' = left \cup UNION {q.junk \cup {q.key} : q \in requests}
    /\ UNCHANGED <<wall, rows, objects, queue, due, made, open, late>>

Serve ==
    /\ \E q \in requests :
        \/ Store(q) \/ StoreFails(q) \/ Save(q) \/ Rollback(q) \/ CommitLost(q) \/ CheckOutcome(q)
        \/ CleanUp(q) \/ DeleteDiscarded(q)
    /\ UNCHANGED <<wall, taken, made>>

DrainQueue == \E k \in taken : DeleteStored(k)

Next ==
    \/ UploadImage \/ ApplyReset \/ DiscardReset \/ DeleteWall
    \/ Serve \/ CommitEnds
    \/ TakeNext \/ DrainQueue \/ MinutePasses
    \/ Restart

Spec == Init /\ [][Next]_vars

\* The queue is drained in a loop, and a minute passes.
Fairness == WF_vars(TakeNext) /\ WF_vars(DrainQueue) /\ WF_vars(MinutePasses)

-----------------------------------------------------------------------------

Keys == 0..MaxUploads

TypeOK ==
    /\ wall \in BOOLEAN
    /\ \A r \in rows : r.key \in Keys /\ r.status \in {"active", "old", "pending"}
    /\ objects \subseteq Keys /\ due \subseteq queue /\ queue \subseteq Keys /\ taken \subseteq due
    /\ made \in 0..MaxUploads /\ Cardinality(open) <= 1

\* Whatever fails, and however uploads, resets and the queue's deletes interleave, the
\* photo that a row names is stored, and at most one is active and one pending.  (But for
\* a commit that ends after its row was found absent: the object is deleted, and then the
\* row is there.)
PhotoIsStored ==
    /\ ~late => KeysOf(rows) \subseteq objects
    /\ Cardinality(Active) <= 1 /\ Cardinality(Pending) <= 1

\* An object that no row names is to be deleted by a request that is under way or by the
\* queue, unless it is one that the code gives up.
NothingIsForgotten ==
    objects \subseteq KeysOf(rows) \cup queue \cup left
                      \cup UNION {q.junk \cup {q.key} : q \in requests}

\* What is queued is deleted, across failures and restarts.
QueueDrains == \A k \in Keys : k \in queue ~> k \notin objects

=============================================================================
