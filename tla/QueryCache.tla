----------------------------- MODULE QueryCache -----------------------------
(***************************************************************************)
(* The query cache of one tab (web/src/lib/hooks): which queries a page    *)
(* observes, which server data each one reads, and which entries a write   *)
(* marks stale.  Entries do not influence each other, so a behaviour       *)
(* follows one of them, "key", chosen at the start.                        *)
(*                                                                         *)
(* "log" lists the writes the server has made; the data of an entry is     *)
(* known by how many of them it includes.  Every entry is stale at once    *)
(* (staleTime 0): it is fetched again whenever a page mounts it.  What the *)
(* library does (mounting, invalidating, joining a fetch) is modelled as   *)
(* this code uses it.                                                      *)
(***************************************************************************)
EXTENDS Integers, Sequences, ClientQueries

CONSTANTS
    MaxWrites,   \* bounds the writes
    MaxFailures, \* bounds the fetches that fail
    None

-----------------------------------------------------------------------------
VARIABLES
    key,       \* the query that is followed
    page,      \* the page shown
    enabled,   \* whether the page's condition for the query holds
    log,       \* the writes the server has made: uploads, ends of a detection, and others
    seen,      \* how many of them the entry's data includes
    flight,    \* NoFetch, Underway, or how many of them the answer on its way includes
    failed,    \* whether the last fetch failed
    removal,   \* the entry lacks a hold that the page has taken out of it
    mutation,  \* None, or the page's write under way
    shown,     \* the last write of this tab that the entry owes its page
    failures

vars == <<key, page, enabled, log, seen, flight, failed, removal, mutation, shown, failures>>

NoFetch == -2
Underway == -1

Active == key \in Observes[page] \cup {"me"} /\ enabled

Init ==
    /\ key \in Keys
    /\ page \in Pages
    /\ enabled = TRUE
    /\ log = <<>> /\ seen = 0
    /\ flight = IF key \in Observes[page] \cup {"me"} THEN Underway ELSE NoFetch
    /\ failed = FALSE /\ removal = FALSE
    /\ mutation = None /\ shown = 0 /\ failures = 0

-----------------------------------------------------------------------------
(* Fetching.                                                               *)

Asked(active) == IF active /\ flight = NoFetch THEN Underway ELSE flight

\* A page that mounts the query joins a fetch under way.
Navigate(p) ==
    /\ p # page
    /\ page' = p
    /\ enabled' = TRUE
    /\ flight' = Asked(key \in Observes[p] /\ ~(SamePage(page, p) /\ Active))
    /\ UNCHANGED <<key, log, seen, failed, removal, mutation, shown, failures>>

\* shouldLoadHolds, as the wall's status and the user's role change.
ToggleHolds ==
    /\ key = "holds" /\ key \in Observes[page]
    /\ enabled' = ~enabled
    /\ flight' = Asked(~enabled)
    /\ UNCHANGED <<key, page, log, seen, failed, removal, mutation, shown, failures>>

\* The window is focused again, or the network is back.
Refetch ==
    /\ Active /\ flight = NoFetch
    /\ flight' = Underway
    /\ UNCHANGED <<key, page, enabled, log, seen, failed, removal, mutation, shown, failures>>

\* The data of these tells whether a detection is running.
Reports(k) == k \in {"wall-detail", "reset-diff"}

\* Whether the first n writes leave a detection running.
Detecting(n) ==
    LET marks == {i \in 1..n : log[i] # "other"}
    IN  marks # {} /\ log[CHOOSE i \in marks : \A j \in marks : j <= i] # "detected"

\* wallDetailPollInterval and the interval of the review, of the data at hand.
Polling ==
    \/ key = "wall-detail" /\ page \in {"climbs", "feed"}
    \/ key = "reset-diff" /\ page = "review"

PollReview ==                                                          \* mutant
    /\ key = "reset-diff" /\ Polling /\ Detecting(seen)
    /\ Refetch

Poll ==
    /\ Polling /\ Detecting(seen)
    /\ Refetch

ServerReads ==
    /\ flight = Underway
    /\ flight' = Len(log)
    /\ UNCHANGED <<key, page, enabled, log, seen, failed, removal, mutation, shown, failures>>

Arrives ==
    /\ flight \in Nat
    /\ seen' = flight /\ flight' = NoFetch
    /\ failed' = FALSE /\ removal' = FALSE
    /\ UNCHANGED <<key, page, enabled, log, mutation, shown, failures>>

FetchFails ==
    /\ flight # NoFetch
    /\ failures < MaxFailures                                           \* bound
    /\ failures' = failures + 1
    /\ flight' = NoFetch /\ failed' = TRUE
    /\ UNCHANGED <<key, page, enabled, log, seen, removal, mutation, shown>>

-----------------------------------------------------------------------------
(* Writing.                                                                *)

\* Deleting a hold takes it out of the entry at once.
Begin(n) ==
    /\ mutation = None
    /\ page \in Of(n).on /\ Matters(n, key)
    /\ Len(log) < MaxWrites                                             \* bound
    /\ mutation' = [name |-> n, page |-> page, at |-> 0]
    /\ removal' = (removal \/ (n = "deleteHold" /\ key = "holds"))
    /\ UNCHANGED <<key, page, enabled, log, seen, flight, failed, shown, failures>>

CommitRetried ==                                                       \* mutant
    /\ mutation # None
    /\ log' = Append(log, "other")
    /\ mutation' = [mutation EXCEPT !.at = Len(log) + 1]
    /\ UNCHANGED <<key, page, enabled, seen, flight, failed, removal, shown, failures>>

Commit ==
    /\ mutation # None /\ mutation.at = 0
    /\ log' = Append(log, IF Reports(key) /\ mutation.name \in DOMAIN ImageWrites THEN "upload" ELSE "other")
    /\ mutation' = [mutation EXCEPT !.at = Len(log) + 1]
    /\ UNCHANGED <<key, page, enabled, seen, flight, failed, removal, shown, failures>>

Invalidated(n) == key \in Of(n).stale

\* An invalidated entry that is in use is fetched again, and a fetch under way is dropped.
Refreshed(n) == IF Invalidated(n) /\ Active THEN Underway ELSE flight

\* The entry owes the write to its page when nothing older was on its way to it.
Owed(n) ==
    IF Touches(n, key) /\ mutation.page = page /\ (flight = NoFetch \/ (Active /\ key # "me" /\ Of(n).to = {}))
    THEN mutation.at ELSE shown

\* The handlers run whether the page is still shown or not, and then it moves on.
\* A page that observes a removed query is left with what it has.
Succeed ==
    LET n == mutation.name
    IN  /\ mutation # None /\ mutation.at > 0
        /\ shown' = Owed(n)
        /\ mutation' = None
        /\ \/ /\ n \in DOMAIN ProfileWrites /\ key = "me"
              /\ seen' = mutation.at /\ removal' = FALSE /\ failed' = FALSE
              /\ UNCHANGED <<page, enabled, flight>>
           \/ /\ ~(n \in DOMAIN ProfileWrites /\ key = "me")
              /\ IF Of(n).to = {}
                 THEN /\ flight' = IF key \in Of(n).removed THEN NoFetch ELSE Refreshed(n)
                      /\ enabled' = (enabled /\ key \notin Of(n).removed)
                      /\ UNCHANGED page
                 ELSE \E p \in Of(n).to :
                      /\ page' = p /\ enabled' = TRUE
                      /\ flight' =
                            IF key \in Observes[p] /\ Refreshed(n) = NoFetch THEN Underway
                            ELSE IF key \in Of(n).removed THEN NoFetch ELSE Refreshed(n)
              /\ UNCHANGED <<seen, failed, removal>>
        /\ UNCHANGED <<key, log, failures>>

FailQuietly ==                                                         \* mutant
    /\ mutation # None
    /\ mutation' = None
    /\ UNCHANGED <<key, page, enabled, log, seen, flight, failed, removal, shown, failures>>

\* Refused, or the answer is lost.  Only deleting a hold fetches in any case.
Fail ==
    /\ mutation # None
    /\ flight' = IF mutation.name = "deleteHold" THEN Refreshed("deleteHold") ELSE flight
    /\ mutation' = None
    /\ UNCHANGED <<key, page, enabled, log, seen, failed, removal, shown, failures>>

\* The worker finishes a detection.
Detected ==
    /\ Detecting(Len(log))
    /\ Len(log) <= MaxWrites                                            \* bound
    /\ log' = Append(log, "detected")
    /\ UNCHANGED <<key, page, enabled, seen, flight, failed, removal, mutation, shown, failures>>

Next ==
    \/ \E p \in Pages : Navigate(p)
    \/ \E n \in Names : Begin(n)
    \/ ToggleHolds \/ Refetch \/ Poll \/ ServerReads \/ Arrives \/ FetchFails
    \/ Commit \/ Succeed \/ Fail \/ Detected

\* Fetches are answered and intervals fire; users, writers and the worker owe nothing.
Spec == Init /\ [][Next]_vars /\ WF_vars(ServerReads) /\ WF_vars(Arrives) /\ WF_vars(Poll)

-----------------------------------------------------------------------------
(* Properties.                                                             *)

TypeOK ==
    /\ key \in Keys /\ page \in Pages /\ enabled \in BOOLEAN
    /\ log \in Seq({"upload", "detected", "other"}) /\ Len(log) <= MaxWrites + 1
    /\ seen \in 0..Len(log)
    /\ flight \in -2..Len(log)
    /\ failed \in BOOLEAN /\ removal \in BOOLEAN
    /\ mutation = None \/ (mutation.name \in Names /\ mutation.at \in 0..Len(log))
    /\ shown \in 0..Len(log) /\ failures \in 0..MaxFailures

\* A page shows what was written from it: once nothing is on its way, every entry it
\* observes includes the write (the invalidations of mutations.ts and the pages).
OwnWritesShow ==
    Active /\ flight = NoFetch /\ ~failed => seen >= shown

\* A hold that could not be deleted comes back (deleteHold in WallDetail).
RemovalIsUndone ==
    Active /\ flight = NoFetch /\ ~failed /\ mutation = None => ~removal

\* A page that waits for a detection shows its end (refetchInterval).
DetectionIsNoticed ==
    \A i \in 1..MaxWrites + 1 :
        (i <= Len(log) /\ log[i] = "detected") /\ seen < i /\ Detecting(seen) /\ Polling /\ Active
            ~> seen >= i \/ ~Polling \/ ~Active \/ ~Detecting(seen)

=============================================================================
