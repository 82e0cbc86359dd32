------------------------------- MODULE Avatars -------------------------------
(***************************************************************************)
(* The picture of an account: its section of the profile page              *)
(* (web/src/pages/Profile.tsx), the handlers that set and remove it        *)
(* (server/internal/user/avatar.go) and the copy of the identity           *)
(* provider's picture at sign-in (server/internal/oidc/handler.go).        *)
(*                                                                         *)
(* A handler reads the row, stores the new object under a key of its own,  *)
(* updates the row and deletes the object that the row named when it was   *)
(* read.  None of this is in a transaction.                                *)
(***************************************************************************)
EXTENDS Naturals, FiniteSets

CONSTANTS
    MaxRequests, \* bounds the requests; also the keys, which are numbered
    MaxUnknown,  \* bounds the updates whose outcome is not known
    None

VARIABLES
    key, source, \* of the row: None or the object's key; "upload", "oidc" or None
    objects,     \* keys that are stored
    calls,       \* requests under way
    made,        \* how many there have been
    me,          \* on the page: None, or the key it shows
    preparing,   \* a file has been chosen and is being scaled down
    unknown,     \* history: updates whose outcome was not known
    leaks        \* history: a request that overlapped another one, or an object
                 \* that could not be deleted

rowVars == <<key, source, objects>>
pageVars == <<me, preparing>>
vars == <<rowVars, calls, made, pageVars, unknown, leaks>>

Init ==
    /\ \/ key = None /\ source = None /\ objects = {}
       \/ key = 0 /\ source \in {"upload", "oidc"} /\ objects = {0}
    /\ calls = {} /\ made = 0
    /\ me = key /\ preparing = FALSE
    /\ unknown = 0 /\ leaks = FALSE

-----------------------------------------------------------------------------
(* The requests.  Each has the row as it was when its handler read it.     *)

Request(by, op) ==
    /\ made < MaxRequests                                              \* bound
    /\ made' = made + 1
    /\ calls' = calls \cup {[id |-> made', by |-> by, op |-> op, old |-> key, step |-> "read"]}
    /\ leaks' = (leaks \/ calls # {})

Step(c, step) == calls' = (calls \ {c}) \cup {[c EXCEPT !.step = step]}

StoreUnderOldKey(c) ==                                                 \* mutant
    /\ c.step = "read" /\ c.op # "clear"
    /\ objects' = objects \cup {IF c.old = None THEN c.id ELSE c.old}
    /\ calls' = (calls \ {c}) \cup {[c EXCEPT !.step = "stored", !.id = IF c.old = None THEN c.id ELSE c.old]}
    /\ UNCHANGED <<key, source, unknown, leaks>>

Store(c) ==
    /\ c.step = "read" /\ c.op # "clear"
    /\ objects' = objects \cup {c.id}
    /\ Step(c, "stored")
    /\ UNCHANGED <<key, source, unknown, leaks>>

StoreFails(c) ==
    /\ c.step = "read" /\ c.op # "clear"
    /\ Step(c, "refused")
    /\ UNCHANGED <<rowVars, unknown, leaks>>

Updatable(c) == c.step = IF c.op = "clear" THEN "read" ELSE "stored"

Updated(c) ==
    /\ key' = IF c.op = "clear" THEN None ELSE c.id
    /\ source' = CASE c.op = "clear" -> None [] c.op = "set" -> "upload" [] OTHER -> "oidc"

UpdateUserAvatar(c) ==
    /\ Updatable(c)
    /\ Updated(c)
    /\ Step(c, "updated")
    /\ UNCHANGED <<objects, unknown, leaks>>

\* The new object goes; it is unknown when the update was done nevertheless.
UpdateFails(c) ==
    /\ Updatable(c)
    /\ \/ UNCHANGED <<key, source, unknown>>
       \/ unknown < MaxUnknown /\ Updated(c) /\ unknown' = unknown + 1
    /\ objects' = IF c.op = "clear" THEN objects ELSE objects \ {c.id}
    /\ leaks' = (leaks \/ unknown' # unknown)
    /\ Step(c, "refused")

KeepOld(c) ==                                                          \* mutant
    /\ c.step = "updated"
    /\ objects' = IF c.op = "clear" THEN objects ELSE objects \ {c.old}
    /\ Step(c, "done")
    /\ UNCHANGED <<key, source, unknown, leaks>>

DeleteOld(c) ==
    /\ c.step = "updated"
    /\ objects' = objects \ {c.old}
    /\ Step(c, "done")
    /\ UNCHANGED <<key, source, unknown, leaks>>

\* Only logged.
DeleteFails(c) ==
    /\ c.step = "updated"
    /\ leaks' = TRUE
    /\ Step(c, "done")
    /\ UNCHANGED <<rowVars, unknown>>

Serve ==
    /\ \E c \in calls :
        \/ Store(c) \/ StoreFails(c) \/ UpdateUserAvatar(c) \/ UpdateFails(c)
        \/ DeleteOld(c) \/ DeleteFails(c)
    /\ UNCHANGED <<made, pageVars>>

\* syncPicture, when the account signs in elsewhere, and its other devices.
SyncPicture ==
    /\ source # "upload"
    /\ Request("other", "sync")
    /\ UNCHANGED <<rowVars, pageVars, unknown>>

OtherDevice ==
    /\ \E op \in {"set", "clear"} : Request("other", op)
    /\ UNCHANGED <<rowVars, pageVars, unknown>>

-----------------------------------------------------------------------------
(* The page.                                                               *)

Mine(c) == c.by = "page"

Busy == preparing \/ \E c \in calls : Mine(c)

ChooseFile ==
    /\ ~Busy
    /\ preparing' = TRUE
    /\ UNCHANGED <<rowVars, calls, made, me, unknown, leaks>>

\* The picture is scaled down, or left as it is; one that stays too large is refused.
Prepared ==
    /\ preparing
    /\ preparing' = FALSE
    /\ Request("page", "set") \/ UNCHANGED <<calls, made, leaks>>
    /\ UNCHANGED <<rowVars, me, unknown>>

RemovePicture ==
    /\ me # None /\ ~Busy
    /\ Request("page", "clear")
    /\ UNCHANGED <<rowVars, pageVars, unknown>>

\* The answer has the row as the request left it; an error changes nothing.
Answer ==
    \E c \in calls :
        /\ c.step \in {"done", "refused"}
        /\ calls' = calls \ {c}
        /\ me' = CASE ~Mine(c) \/ c.step = "refused" -> me
                   [] c.op = "clear" -> None
                   [] OTHER -> c.id
        /\ UNCHANGED <<rowVars, made, preparing, unknown, leaks>>

Next ==
    \/ Serve \/ SyncPicture \/ OtherDevice
    \/ ChooseFile \/ Prepared \/ RemovePicture \/ Answer

Spec == Init /\ [][Next]_vars

-----------------------------------------------------------------------------

Keys == 0..MaxRequests

TypeOK ==
    /\ key \in Keys \cup {None} /\ source \in {"upload", "oidc", None}
    /\ (key = None) = (source = None)
    /\ objects \subseteq Keys
    /\ me \in Keys \cup {None} /\ preparing \in BOOLEAN

\* Devices and sign-ins may set and remove the picture in any order, and each
\* deletes what the row named when it began: the picture that the row names now
\* is always there.  (But for an update that is done although it is reported as
\* failed: the object is deleted, and the row names it.)
PictureIsStored == unknown = 0 /\ key # None => key \in objects

\* Requests that do not overlap leave no object behind.
NothingIsLeft == calls = {} /\ ~leaks => objects = {key} \ {None}

=============================================================================
