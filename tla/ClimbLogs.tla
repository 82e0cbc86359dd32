------------------------------ MODULE ClimbLogs ------------------------------
(***************************************************************************)
(* A climber's history of one climb: the log drawer of the climb's page    *)
(* (web/src/pages/RouteDetail.tsx with ClimbLogForm and FilterDrawer) and  *)
(* the transactions that write the entries (server/internal/route/logs.go).*)
(*                                                                         *)
(* The climber may write from another device, or through the old "send"    *)
(* endpoint, at the same time.  An entry's place in the history is its     *)
(* calendar date, then the start of the transaction that made it.          *)
(***************************************************************************)
EXTENDS Naturals, FiniteSets

CONSTANTS
    Dates,       \* calendar dates that are entered, numbers
    MaxRequests, \* bounds the requests
    None

VARIABLES
    rows,     \* the entries committed
    lock,     \* None, or the request whose transaction holds the climber's row
    requests, \* under way
    made,     \* how many there have been
    reset,    \* the climb is a draft, or a reset has left it behind
    shown,    \* the entries on the page
    adding, editing, open, \* addingLog, the id of editingLog or None, logDrawerOpen
    choice,   \* the outcome chosen in the form that is shown
    dialog,   \* the drawer's dialog element
    event     \* its close event is queued

serverVars == <<rows, lock>>
formVars == <<adding, editing, choice>>
drawerVars == <<open, dialog, event>>
vars == <<serverVars, requests, made, reset, shown, formVars, drawerVars>>

Outcomes == {"attempt", "send", "flash"}

\* A climb that can be logged, or one that cannot any more, with an entry from
\* before there were outcomes: those are sends, some of several attempts.
Init ==
    /\ reset \in BOOLEAN
    /\ rows = IF reset THEN {[id |-> 0, date |-> 1, logged |-> 0, outcome |-> "send", many |-> TRUE]} ELSE {}
    /\ lock = None
    /\ requests = {} /\ made = 0
    /\ shown = rows
    /\ adding = FALSE /\ editing = None /\ choice = "attempt"
    /\ open = FALSE /\ dialog = "closed" /\ event = FALSE

-----------------------------------------------------------------------------
(* The transactions.                                                       *)

Before(e, f) == e.date < f.date \/ (e.date = f.date /\ e.logged < f.logged)

\* The check that ends a write: at most one flash, of one attempt, and first.
\* (Requests that start in the same microsecond, ordered by id, are left out.)
ValidFlash(history) ==
    \A f \in {e \in history : e.outcome = "flash"} :
        ~f.many /\ \A e \in history \ {f} : e.outcome # "flash" /\ Before(f, e)

\* The requests are numbered in the order in which their transactions start.
Entry(c) == [id |-> c.id, date |-> c.date, logged |-> c.id, outcome |-> c.outcome, many |-> c.many]

\* The rows after the statement of request c.
After(c) ==
    CASE c.op = "create" -> rows \cup {Entry(c)}
      [] c.op = "update" -> {IF e.id = c.entry THEN [e EXCEPT !.outcome = c.outcome, !.date = c.date] ELSE e : e \in rows}
      [] c.op = "delete" -> {e \in rows : e.id # c.entry}

Step(c, step) == requests' = (requests \ {c}) \cup {[c EXCEPT !.step = step]}

\* Only the page's requests are followed to their answer.
End(c, step) == IF c.by = "page" THEN Step(c, step) ELSE requests' = requests \ {c}

LockUserAnyway(c) ==                                                   \* mutant
    /\ c.step = "begun"
    /\ lock' = c.id
    /\ Step(c, "locked")
    /\ UNCHANGED rows

\* LockUserForClimbLogs: the climber's writes wait for one another.
LockUser(c) ==
    /\ c.step = "begun"
    /\ lock = None
    /\ lock' = c.id
    /\ Step(c, "locked")
    /\ UNCHANGED rows

\* The entry is there, a legacy entry of several attempts is not made a flash,
\* and the history that the statement leaves is valid.  Deleting checks nothing.
Acceptable(c) ==
    /\ c.op # "create" => \E e \in rows : e.id = c.entry /\ ~(c.op = "update" /\ c.outcome = "flash" /\ e.many)
    /\ c.op # "delete" => ValidFlash(After(c))

Write(c) ==
    /\ c.step = "locked"
    /\ Acceptable(c)
    /\ Step(c, "written")
    /\ UNCHANGED serverVars

Commit(c) ==
    /\ c.step = "written"
    /\ rows' = After(c)
    /\ lock' = None
    /\ End(c, "done")

\* The request is refused, or fails: its transaction is rolled back.
RollBack(c) ==
    /\ c.step \notin {"done", "refused"}
    /\ lock' = IF lock = c.id THEN None ELSE lock
    /\ End(c, "refused")
    /\ UNCHANGED rows

Serve ==
    /\ \E c \in requests :
        LockUser(c) \/ Write(c) \/ Commit(c) \/ RollBack(c)
    /\ UNCHANGED <<made, reset, shown, formVars, drawerVars>>

\* A request, and the start of its transaction: the time on the way is left out,
\* since nothing tells a request that is late from one that is made later.
Request(by, op, entry, outcome, date, many) ==
    /\ made < MaxRequests                                              \* bound
    /\ made' = made + 1
    /\ requests' = requests \cup
        {[id |-> made', by |-> by, op |-> op, entry |-> entry, outcome |-> outcome, date |-> date,
          many |-> many, step |-> IF op = "create" /\ reset THEN "refused" ELSE "begun"]}

Ids(history) == {e.id : e \in history}

\* Another device of the climber; LegacyLogSend takes a number of attempts.
Elsewhere ==
    /\ \/ ~reset /\ \E o \in Outcomes, d \in Dates, many \in BOOLEAN :
            (many => o = "send") /\ Request("other", "create", None, o, d, many)
       \/ \E i \in Ids(rows), o \in Outcomes, d \in Dates : Request("other", "update", i, o, d, FALSE)
       \/ \E i \in Ids(rows) : Request("other", "delete", i, "attempt", 1, FALSE)
    /\ \A c \in requests : c.by = "page"                                \* bound
    /\ UNCHANGED <<serverVars, reset, shown, formVars, drawerVars>>

-----------------------------------------------------------------------------
(* The drawer.                                                             *)

\* The effect on the open prop.  The dialog is modal: what is behind it cannot be tapped.
SetOpen(value) ==
    /\ open' = value
    /\ dialog' = CASE value /\ ~open -> "open"
                   [] ~value /\ open /\ dialog # "closed" -> "closing"
                   [] OTHER -> dialog

\* Done, Escape, or a tap beside the drawer.
RequestClose ==
    /\ dialog = "open"
    /\ dialog' = "closing"
    /\ UNCHANGED <<serverVars, requests, made, reset, shown, formVars, open, event>>

FinishClose ==
    /\ dialog = "closing"
    /\ dialog' = "closed"
    /\ event' = TRUE
    /\ UNCHANGED <<serverVars, requests, made, reset, shown, formVars, open>>

CloseQuietly ==                                                        \* mutant
    /\ event
    /\ event' = FALSE
    /\ UNCHANGED <<open, dialog, serverVars, requests, made, reset, shown, formVars>>

Close ==
    /\ event
    /\ event' = FALSE
    /\ SetOpen(FALSE)
    /\ UNCHANGED <<serverVars, requests, made, reset, shown, formVars>>

LogClimbAsItWas ==                                                     \* mutant
    /\ dialog = "closed"
    /\ adding' = ~reset /\ UNCHANGED <<editing, choice>>
    /\ SetOpen(TRUE)
    /\ UNCHANGED <<serverVars, requests, made, reset, shown, event>>

\* The "Log climb" button.  A form that was left open behind it keeps its values.
LogClimb ==
    /\ dialog = "closed"
    /\ editing' = None
    /\ adding' = ~reset
    /\ choice' = IF adding THEN choice ELSE "attempt"
    /\ SetOpen(TRUE)
    /\ UNCHANGED <<serverVars, requests, made, reset, shown, event>>

-----------------------------------------------------------------------------
(* The forms in it.                                                        *)

IsPending(ops) == \E c \in requests : c.by = "page" /\ c.op \in ops

Edit ==
    /\ dialog # "closed"
    /\ \E e \in shown :
        /\ e.id # editing
        /\ editing' = e.id
        /\ choice' = e.outcome
    /\ adding' = FALSE
    /\ UNCHANGED <<serverVars, requests, made, reset, shown, drawerVars>>

\* The form of a new entry, or of the entry being edited while it is listed.
FormShown == (adding /\ ~reset) \/ editing \in Ids(shown)

CanFlash == Ids(shown) \subseteq {editing}

Choose ==
    /\ dialog # "closed" /\ FormShown
    /\ choice' \in {"attempt", "send"} \cup (IF CanFlash THEN {"flash"} ELSE {})
    /\ UNCHANGED <<serverVars, requests, made, reset, shown, adding, editing, drawerVars>>

SubmitLog ==
    /\ dialog # "closed" /\ FormShown
    /\ ~IsPending({"create", "update"})
    /\ \E d \in Dates :
        IF editing # None THEN Request("page", "update", editing, choice, d, FALSE)
                          ELSE Request("page", "create", None, choice, d, FALSE)
    /\ UNCHANGED <<serverVars, reset, shown, formVars, drawerVars>>

Cancel ==
    /\ dialog # "closed" /\ FormShown
    /\ ~IsPending({"create", "update"})
    /\ \/ adding /\ adding' = FALSE /\ SetOpen(FALSE) /\ UNCHANGED editing
       \/ editing # None /\ editing' = None /\ UNCHANGED <<adding, open, dialog>>
    /\ choice' = "attempt"
    /\ UNCHANGED <<serverVars, requests, made, reset, shown, event>>

RemoveLog ==
    /\ dialog # "closed" /\ ~IsPending({"delete"})
    /\ \E e \in shown : e.id # editing /\ Request("page", "delete", e.id, "attempt", 1, FALSE)
    /\ UNCHANGED <<serverVars, reset, shown, formVars, drawerVars>>

\* What submitLog does once its mutation has succeeded; removeLog does nothing.
Succeed ==
    \E c \in requests :
        /\ c.by = "page" /\ c.step = "done"
        /\ requests' = requests \ {c}
        /\ editing' = IF c.op = "update" THEN None ELSE editing
        /\ adding' = (adding /\ c.op # "create")
        /\ choice' = IF adding' \/ editing' # None THEN choice ELSE "attempt"
        /\ IF c.op = "create" THEN SetOpen(FALSE) ELSE UNCHANGED <<open, dialog>>
        /\ UNCHANGED <<serverVars, made, reset, shown, event>>

\* A refusal, an error or no answer at all: the form stays, with the message.
\* The request of a page that has given up may still be under way.
Fail ==
    \E c \in requests :
        /\ c.by = "page"
        /\ requests' = (requests \ {c}) \cup
                       (IF c.step \in {"done", "refused"} THEN {} ELSE {[c EXCEPT !.by = "other"]})
        /\ UNCHANGED <<serverVars, made, reset, shown, formVars, drawerVars>>

Refetch ==
    /\ shown # rows
    /\ shown' = rows
    /\ UNCHANGED <<serverVars, requests, made, reset, formVars, drawerVars>>

Next ==
    \/ Serve \/ Elsewhere
    \/ RequestClose \/ FinishClose \/ Close \/ LogClimb
    \/ Edit \/ Choose \/ SubmitLog \/ Cancel \/ RemoveLog \/ Succeed \/ Fail \/ Refetch

\* The closing animation ends, and the events that are queued are delivered.
Fairness == WF_vars(FinishClose) /\ WF_vars(Close)

Spec == Init /\ [][Next]_vars /\ Fairness

-----------------------------------------------------------------------------

Entries == [id : 0..MaxRequests, date : Dates, logged : 0..MaxRequests,
            outcome : Outcomes, many : BOOLEAN]

TypeOK ==
    /\ rows \subseteq Entries /\ shown \subseteq Entries
    /\ lock \in 1..MaxRequests \cup {None}
    /\ \A e, f \in rows : e.id = f.id => e = f
    /\ \A e \in rows : e.many => e.outcome # "flash"
    /\ adding \in BOOLEAN /\ editing \in 0..MaxRequests \cup {None}
    /\ choice \in Outcomes
    /\ dialog \in {"closed", "open", "closing"} /\ open \in BOOLEAN /\ event \in BOOLEAN

\* "Flash must be first in chronological history" (openapi.yaml:1169): however
\* the devices race, and although the place of an entry is fixed by the start
\* of its transaction and not by its turn at the lock.
FlashIsFirst == ValidFlash(rows)

\* One form at a time: what is entered as a new climb never overwrites the
\* entry that was being edited before the drawer was closed and opened again.
NewEntryNeverOverwrites == adding => editing = None

\* However it is closed (a button of its own, or a save that succeeds), the
\* drawer goes away and its page knows, so that it can be opened again.
DrawerCloses == (dialog = "closing") ~> (dialog = "closed" /\ ~open)

=============================================================================
