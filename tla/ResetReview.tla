----------------------------- MODULE ResetReview -----------------------------
(***************************************************************************)
(* The page where a setter reviews a partial reset                         *)
(* (web/src/pages/ResetReview.tsx) and the requests it makes               *)
(* (server/internal/wall/reset.go).                                        *)
(*                                                                         *)
(* Nothing locks the page: any hold may be tapped while edits, the apply   *)
(* and the discard are under way.  The server reads the diff in several    *)
(* statements, outside a transaction: the matches, the holds, the status.  *)
(***************************************************************************)
EXTENDS Naturals, FiniteSets

CONSTANTS
    Old,      \* holds of the active photo
    New,      \* ids of holds on the new one
    MaxCalls, \* bounds the requests
    None

VARIABLES
    detection, review, match, hold,  \* the server's rows
    read,      \* None, or the diff being fetched
    due,       \* the diff is to be fetched again
    shown,     \* None, or the diff on the screen
    selection, \* None, or the selected hold
    calls,     \* requests under way
    made,      \* how many there have been
    place,     \* of the user: the page, elsewhere, or the wall after a decision
    torn,      \* history: detection finished while a diff was being read
    lost       \* history: a request was served, and answered with an error

serverVars == <<detection, review, match, hold>>
pageVars == <<selection, place>>
vars == <<serverVars, read, due, shown, pageVars, calls, made, torn, lost>>

Kinds == {"removed", "kept", "new"}
Edits == {"match", "restore", "delete"}

Present == {n \in New : hold[n] = "present"}

\* A reset has been uploaded; the worker is on it, and the page has just been opened.
Init ==
    /\ detection = "processing" /\ review = "pending"
    /\ match = [o \in Old |-> None]
    /\ hold = [n \in New |-> "unused"]
    /\ read = None /\ due = TRUE
    /\ shown = None
    /\ selection = None
    /\ calls = {} /\ made = 0
    /\ place = "page"
    /\ torn = FALSE /\ lost = FALSE

-----------------------------------------------------------------------------
(* Fetching the diff.                                                      *)

IsDetecting(status) == status = "processing"

\* After a write, while detection runs, and whenever the window gets the focus.
Fetch ==
    /\ read = None
    /\ place = "page"
    /\ read' = [matches |-> None, holds |-> None]
    /\ due' = FALSE
    /\ UNCHANGED <<serverVars, shown, pageVars, calls, made, torn, lost>>

ReadMatches ==
    /\ read # None /\ read.matches = None
    /\ read' = IF review = "pending" THEN [read EXCEPT !.matches = match] ELSE None
    /\ UNCHANGED <<serverVars, due, shown, pageVars, calls, made, torn, lost>>

ReadHolds ==
    /\ read # None /\ read.matches # None /\ read.holds = None
    /\ read' = [read EXCEPT !.holds = Present]
    /\ UNCHANGED <<serverVars, due, shown, pageVars, calls, made, torn, lost>>

ReadStatus ==
    /\ read # None /\ read.holds # None
    /\ shown' = [matches |-> read.matches, holds |-> read.holds, status |-> detection]
    /\ read' = None
    /\ UNCHANGED <<serverVars, due, pageVars, calls, made, torn, lost>>

\* The worker writes the holds, their matches and the status together.
WorkerFinishes ==
    /\ review = "pending" /\ detection = "processing"
    /\ \/ /\ detection' = "done"
          /\ \E found \in SUBSET New :
                /\ hold' = [n \in New |-> IF n \in found THEN "present" ELSE hold[n]]
                /\ match' \in {m \in [Old -> found \cup {None}] :
                        \A o, p \in Old : o # p /\ m[o] = m[p] => m[o] = None}
       \/ detection' = "failed" /\ UNCHANGED <<hold, match>>
    /\ torn' = (torn \/ read # None)
    /\ UNCHANGED <<review, read, due, shown, pageVars, calls, made, lost>>

-----------------------------------------------------------------------------
(* The marks on the photo, and what tapping them does.                     *)

MatchedOf(d, n) == {o \in Old : d.matches[o] = n}

\* renderHold, for each hold of the diff: an old one that has no match, or a
\* new one with its match if it has one.
Marks(d) ==
    {[kind |-> "removed", hold |-> o, old |-> None] : o \in {o \in Old : d.matches[o] = None}}
    \cup {[kind |-> "new", hold |-> n, old |-> None] : n \in {n \in d.holds : MatchedOf(d, n) = {}}}
    \cup {[kind |-> "kept", hold |-> n, old |-> CHOOSE o \in MatchedOf(d, n) : TRUE] :
            n \in {n \in d.holds : MatchedOf(d, n) # {}}}

\* The newest request of its kind is under way.
IsPending(op) == \E c \in calls : c.op = op /\ c.newest

Send(op, old, new) ==
    /\ place = "page" /\ made < MaxCalls                              \* bound
    /\ made' = made + 1
    /\ calls' = {IF c.op = op THEN [c EXCEPT !.newest = FALSE] ELSE c : c \in calls}
                \cup {[id |-> made', op |-> op, old |-> old, new |-> new,
                       step |-> "sent", newest |-> TRUE]}

Select(s) ==
    /\ place = "page" /\ shown # None
    /\ selection' = s
    /\ UNCHANGED <<serverVars, read, due, shown, place, calls, made, torn, lost>>

ClearSelection ==
    /\ selection' = None
    /\ UNCHANGED <<serverVars, read, due, shown, place, torn, lost>>

PairSwapped(a, b) ==                                                   \* mutant
    [old |-> IF a.kind = "kept" THEN a.old ELSE a.hold, new |-> b.hold]

\* The old and the new hold that two taps pair.
Pair(a, b) ==
    [old |-> CASE a.kind = "removed" -> a.hold [] a.kind = "new" -> b.hold [] OTHER -> a.old,
     new |-> IF a.kind = "new" THEN a.hold ELSE b.hold]

Pairs(a, b) == <<a.kind, b.kind>> \in {<<"removed", "new">>, <<"new", "removed">>, <<"kept", "new">>}

SelectHold ==
    /\ shown # None
    /\ \E mark \in Marks(shown) :
        IF selection # None /\ Pairs(selection, mark)
        THEN /\ Send("match", Pair(selection, mark).old, Pair(selection, mark).new)
             /\ ClearSelection
        ELSE Select(mark)

MarkChanged ==
    /\ selection # None /\ selection.kind = "kept" /\ ~IsPending("match")
    /\ Send("match", selection.old, None)
    /\ ClearSelection

RestoreHold ==
    /\ selection # None /\ selection.kind = "removed" /\ ~IsPending("restore")
    /\ Send("restore", selection.hold, None)
    /\ ClearSelection

DiscardSelectedHold ==
    /\ selection # None /\ selection.kind \in {"new", "kept"} /\ ~IsPending("delete")
    /\ Send("delete", None, selection.hold)
    /\ ClearSelection

\* The panel is closed, or the old photo is shown, on which nothing can be tapped
\* until the new one is back.
TogglePhoto ==
    /\ place = "page" /\ selection # None
    /\ ClearSelection
    /\ UNCHANGED <<calls, made>>

Apply ==
    /\ shown # None /\ shown.status = "done" /\ ~IsPending("apply")
    /\ Send("apply", None, None)
    /\ UNCHANGED <<serverVars, read, due, shown, pageVars, torn, lost>>

Discard ==
    /\ shown # None /\ ~IsPending("discard")
    /\ Send("discard", None, None)
    /\ UNCHANGED <<serverVars, read, due, shown, pageVars, torn, lost>>

Back ==
    /\ place = "page"
    /\ place' = "elsewhere"
    /\ read' = None
    /\ UNCHANGED <<serverVars, due, shown, selection, calls, made, torn, lost>>

-----------------------------------------------------------------------------
(* The requests on the server: each is one transaction.                    *)

Served(c) == calls' = (calls \ {c}) \cup {[c EXCEPT !.step = "served"]}

\* upsertMatch: both holds give up the match they had.
Upsert(old, new) == [o \in Old |-> IF o = old THEN new ELSE IF match[o] = new THEN None ELSE match[o]]

UpdateResetMatch(c) ==
    /\ c.op = "match"
    /\ review = "pending"
    /\ \/ c.new = None /\ match' = [match EXCEPT ![c.old] = None]
       \/ c.new \in Present /\ match' = Upsert(c.old, c.new)
    /\ UNCHANGED <<detection, review, hold>>

\* The alignment is there once detection is done; the copy is a row of its own.
RestoreResetHold(c) ==
    /\ c.op = "restore"
    /\ review = "pending" /\ detection = "done"
    /\ \E n \in New :
        /\ hold[n] = "unused"
        /\ hold' = [hold EXCEPT ![n] = "present"]
        /\ match' = Upsert(c.old, n)
    /\ UNCHANGED <<detection, review>>

DeleteResetHold(c) ==
    /\ c.op = "delete"
    /\ review = "pending"
    /\ c.new \in Present
    /\ hold' = [hold EXCEPT ![c.new] = "deleted"]
    /\ match' = [o \in Old |-> IF match[o] = c.new THEN None ELSE match[o]]
    /\ UNCHANGED <<detection, review>>

ApplyReset(c) ==
    /\ c.op = "apply"
    /\ review = "pending" /\ detection = "done"
    /\ review' = "applied"
    /\ UNCHANGED <<detection, match, hold>>

DiscardAnyReset(c) ==                                                  \* mutant
    /\ c.op = "discard"
    /\ review # "discarded"
    /\ review' = "discarded"
    /\ UNCHANGED <<detection, match, hold>>

DiscardReset(c) ==
    /\ c.op = "discard"
    /\ review = "pending"
    /\ review' = "discarded"
    /\ UNCHANGED <<detection, match, hold>>

Serves(c) ==
    UpdateResetMatch(c) \/ RestoreResetHold(c) \/ DeleteResetHold(c) \/ ApplyReset(c) \/ DiscardReset(c)

\* The request is done and so answered; or it is done, but the answer is lost
\* or says that the photo of a discarded reset could not be deleted.
Serve ==
    \E c \in {c \in calls : c.step = "sent"} :
        /\ Serves(c)
        /\ \/ Served(c) /\ UNCHANGED lost
           \/ calls' = calls \ {c} /\ lost' = TRUE
        /\ UNCHANGED <<read, due, shown, pageVars, made, torn>>

\* A refusal or a failure: nothing is written, and the page shows the error.
Refuse ==
    \E c \in {c \in calls : c.step = "sent"} :
        /\ calls' = calls \ {c}
        /\ UNCHANGED <<serverVars, read, due, shown, pageVars, made, torn, lost>>

AnswerJoined ==                                                        \* mutant
    \E c \in {c \in calls : c.step = "served"} :
        /\ calls' = calls \ {c}
        /\ due' = (read = None)
        /\ place' = IF place = "page" /\ c.op \notin Edits THEN "wall" ELSE place
        /\ UNCHANGED <<serverVars, read, shown, selection, made, torn, lost>>

\* invalidateResetQueries: a fetch under way is dropped and another one due.
\* A decision takes the user back to the wall.
Answer ==
    \E c \in {c \in calls : c.step = "served"} :
        /\ calls' = calls \ {c}
        /\ due' = TRUE
        /\ read' = None
        /\ place' = IF place = "page" /\ c.op \notin Edits THEN "wall" ELSE place
        /\ UNCHANGED <<serverVars, shown, selection, made, torn, lost>>

Next ==
    \/ Fetch \/ ReadMatches \/ ReadHolds \/ ReadStatus \/ WorkerFinishes
    \/ SelectHold \/ MarkChanged \/ RestoreHold \/ DiscardSelectedHold \/ TogglePhoto
    \/ Apply \/ Discard \/ Back
    \/ Serve \/ Refuse \/ Answer

Spec == Init /\ [][Next]_vars

-----------------------------------------------------------------------------

Diffs == [matches : [Old -> New \cup {None}], holds : SUBSET New,
          status : {"processing", "done", "failed"}]

TypeOK ==
    /\ detection \in {"processing", "done", "failed"}
    /\ review \in {"pending", "applied", "discarded"}
    /\ match \in [Old -> New \cup {None}]
    /\ hold \in [New -> {"unused", "present", "deleted"}]
    /\ shown \in Diffs \cup {None}
    /\ place \in {"page", "elsewhere", "wall"}

\* Every match that is asked for joins an old hold to a new one, whichever of
\* them was tapped first and whatever the diff has become since.
RequestsPairOldAndNew ==
    \A c \in calls :
        /\ c.op \in {"match", "restore"} => c.old \in Old
        /\ c.op = "match" => c.new \in New \cup {None}
        /\ c.op = "delete" => c.new \in New

\* Nothing is under way or to come that would change what the page shows.
Settled ==
    /\ place = "page" /\ review = "pending"
    /\ shown # None /\ ~IsDetecting(shown.status)
    /\ read = None /\ ~due /\ calls = {}

UpToDate ==
    shown.matches = match /\ shown.holds = Present /\ shown.status = detection

\* Whatever edits raced each other and the fetches of the diff, a page that has
\* settled shows the reset as it is, so that what the setter then applies is
\* what they see.  (Not after an edit whose answer is an error, which is not
\* followed by a fetch, and not after a diff that the detection overtook: the
\* server reads its status last, so such a diff may say "done" without the holds.)
SettledPageIsUpToDate == Settled /\ ~lost /\ ~torn => UpToDate

\* Applying and discarding may both be under way: only one of them is done, and
\* it is the one that the answer reports and that takes the user to the wall.
DecisionsStand ==
    /\ \A c \in calls : c.step = "served" =>
        /\ c.op = "apply" => review = "applied"
        /\ c.op = "discard" => review = "discarded"
    /\ place = "wall" => review # "pending"

=============================================================================
