---------------------------- MODULE CircuitEditor ----------------------------
(***************************************************************************)
(* The pages on which the owner of a circuit edits it                      *)
(* (web/src/pages/Circuits.tsx, and the circuits drawer of RouteDetail.tsx)*)
(* and the query of the wall's circuits that both show.                    *)
(*                                                                         *)
(* "Order and route changes save immediately": each of them replaces the   *)
(* whole list of routes by the one on the screen with one change.  So an   *)
(* older list on the screen takes back what was saved since.               *)
(***************************************************************************)
EXTENDS Naturals, Sequences, SequencesExt

CONSTANTS
    Route,      \* the routes of the wall
    Here,       \* the one whose page has the drawer
    MaxWrites,  \* bounds the owner's writes on this device
    MaxMishaps, \* bounds the writes on another device, the fetches that fail and the
                \* answers that are lost, together
    None

VARIABLES
    circuit,  \* on the server: its routes and how often it has been written
    shown,    \* the same, as last fetched
    fetch,    \* None, or the fetch under way, with the server's answer once there is one
    calls,    \* writes of this device under way
    made, others, failures, \* how many there have been
    place,    \* "circuits" or "climb"
    pending,  \* pendingDraft: None, or the list being saved
    own       \* history: the last write of this device that has succeeded

pageVars == <<place, pending>>
vars == <<circuit, shown, fetch, calls, made, others, failures, pageVars, own>>

Asked == [answer |-> None]

Lists == SeqOf(Route, Len(SetToSeq(Route)))

Init ==
    /\ circuit = [routes |-> SetToSeq(Route), version |-> 0]
    /\ shown = circuit
    /\ fetch = Asked
    /\ calls = {} /\ made = 0 /\ others = 0 /\ failures = 0
    /\ place = "circuits" /\ pending = None
    /\ own = 0

-----------------------------------------------------------------------------
(* The query.                                                              *)

\* A page has been opened, or the window has the focus again.
Refresh == fetch' = IF fetch = None THEN Asked ELSE fetch

Focus ==
    /\ fetch = None
    /\ Refresh
    /\ UNCHANGED <<circuit, shown, calls, made, others, failures, pageVars, own>>

ServerReads ==
    /\ fetch = Asked
    /\ fetch' = [answer |-> circuit]
    /\ UNCHANGED <<circuit, shown, calls, made, others, failures, pageVars, own>>

\* The writes that have waited for this fetch wait no longer.
Released == {IF c.step = "settling" THEN [c EXCEPT !.step = "settled"] ELSE c : c \in calls}

Arrives ==
    /\ fetch \notin {None, Asked}
    /\ shown' = fetch.answer
    /\ fetch' = None
    /\ calls' = Released
    /\ UNCHANGED <<circuit, made, others, failures, pageVars, own>>

FetchFails ==
    /\ others + failures < MaxMishaps /\ failures' = failures + 1               \* bound
    /\ fetch # None
    /\ fetch' = None
    /\ calls' = Released
    /\ UNCHANGED <<circuit, shown, made, others, pageVars, own>>

-----------------------------------------------------------------------------
(* What the owner does.                                                    *)

Draft == IF pending = None THEN shown.routes ELSE pending

\* A mutation of the page that is open now.
IsPending(op) == \E c \in calls : c.op = op /\ c.mounted

Editable ==
    /\ place = "circuits"
    /\ fetch = None
    /\ ~IsPending("routes")

Write(op, routes) ==
    /\ made < MaxWrites                                                \* bound
    /\ made' = made + 1
    /\ calls' = calls \cup {[id |-> made', op |-> op, routes |-> routes,
                               step |-> "sent", version |-> 0, mounted |-> TRUE]}

PersistRoutes(next) ==
    /\ Editable
    /\ Write("routes", next)
    /\ pending' = next
    /\ UNCHANGED <<circuit, shown, fetch, others, failures, place, own>>

MoveOnly ==                                                            \* mutant
    \E i, j \in DOMAIN Draft :
        /\ j = i + 1
        /\ PersistRoutes([Draft EXCEPT ![i] = Draft[j]])

Move ==
    \E i, j \in DOMAIN Draft :
        /\ j = i + 1
        /\ PersistRoutes([Draft EXCEPT ![i] = Draft[j], ![j] = Draft[i]])

\* ids.filter(id => id !== r), for a list that has no route twice (NoRouteTwice).
Without(ids, r) ==
    IF Contains(ids, r) THEN RemoveAt(ids, CHOOSE i \in DOMAIN ids : ids[i] = r) ELSE ids

RemoveRoute == \E r \in Range(Draft) : PersistRoutes(Without(Draft, r))

AddRoute == \E r \in Route \ Range(Draft) : PersistRoutes(Append(Draft, r))

\* The name, the style, the check box to share it.
SaveCircuit ==
    /\ place = "circuits" /\ ~IsPending("style")
    /\ Write("style", <<>>)
    /\ UNCHANGED <<circuit, shown, fetch, others, failures, pageVars, own>>

\* The drawer's check box asks for the opposite of what it shows.
Toggle ==
    /\ place = "climb" /\ ~IsPending("include") /\ ~IsPending("exclude")
    /\ Write(IF Contains(shown.routes, Here) THEN "exclude" ELSE "include", <<Here>>)
    /\ UNCHANGED <<circuit, shown, fetch, others, failures, pageVars, own>>

\* The page that is left goes on waiting for nothing; the one that is opened
\* starts without a draft, and its query is stale.
Navigate ==
    /\ place' = IF place = "circuits" THEN "climb" ELSE "circuits"
    /\ pending' = None
    /\ calls' = {[c EXCEPT !.mounted = FALSE] : c \in calls}
    /\ Refresh
    /\ UNCHANGED <<circuit, shown, made, others, failures, own>>

-----------------------------------------------------------------------------
(* The writes: see the module Circuits for what each does on the server.   *)

Written(op, routes) ==
    CASE op = "routes" -> routes
      [] op = "style" -> circuit.routes
      [] op = "include" -> IF Contains(circuit.routes, Here) THEN circuit.routes
                           ELSE Append(circuit.routes, Here)
      [] op = "exclude" -> Without(circuit.routes, Here)

Serve ==
    \E c \in {c \in calls : c.step = "sent"} :
        /\ circuit' = [routes |-> Written(c.op, c.routes), version |-> circuit.version + 1]
        /\ calls' = (calls \ {c}) \cup {[c EXCEPT !.step = "done", !.version = circuit'.version]}
        /\ UNCHANGED <<shown, fetch, made, others, failures, pageVars, own>>

Elsewhere ==
    /\ others + failures < MaxMishaps /\ others' = others + 1                       \* bound
    /\ circuit' = [routes |-> Reverse(circuit.routes), version |-> circuit.version + 1]
    /\ UNCHANGED <<shown, fetch, calls, made, failures, pageVars, own>>

SucceedWithoutFetch ==                                                 \* mutant
    \E c \in {c \in calls : c.step = "done"} :
        /\ own' = c.version
        /\ Refresh
        /\ calls' = (calls \ {c}) \cup {[c EXCEPT !.step = "settling"]}
        /\ UNCHANGED <<circuit, shown, made, others, failures, pageVars>>

\* onSuccess returns invalidateQueries: the mutation is pending until the fetch
\* that it starts is over.  A fetch under way is cancelled, and so no longer
\* waited for.
Succeed ==
    \E c \in {c \in calls : c.step = "done"} :
        /\ own' = IF c.version > own THEN c.version ELSE own
        /\ fetch' = Asked
        /\ calls' = (Released \ {c}) \cup {[c EXCEPT !.step = "settling"]}
        /\ UNCHANGED <<circuit, shown, made, others, failures, pageVars>>

\* What the pages do once mutateAsync returns or throws.
AfterWrite(c) ==
    /\ calls' = calls \ {c}
    /\ pending' = IF c.op = "routes" /\ c.mounted THEN None ELSE pending

Settle ==
    \E c \in {c \in calls : c.step = "settled"} :
        /\ AfterWrite(c)
        /\ UNCHANGED <<circuit, shown, fetch, made, others, failures, place, own>>

FailAndKeepDraft ==                                                    \* mutant
    /\ \E c \in {c \in calls : c.step = "sent"} : calls' = calls \ {c}
    /\ UNCHANGED <<circuit, shown, fetch, made, others, failures, pageVars, own>>

\* The write is refused, or never reaches the server.
Fail ==
    /\ \E c \in {c \in calls : c.step = "sent"} : AfterWrite(c)
    /\ UNCHANGED <<circuit, shown, fetch, made, others, failures, place, own>>

\* It is done, but the answer is lost: nothing is fetched.
LoseAnswer ==
    /\ others + failures < MaxMishaps /\ failures' = failures + 1               \* bound
    /\ \E c \in {c \in calls : c.step = "done"} : AfterWrite(c)
    /\ UNCHANGED <<circuit, shown, fetch, made, others, place, own>>

Next ==
    \/ Focus \/ ServerReads \/ Arrives \/ FetchFails
    \/ Move \/ RemoveRoute \/ AddRoute \/ SaveCircuit \/ Toggle \/ Navigate
    \/ Serve \/ Elsewhere \/ Succeed \/ Settle \/ Fail \/ LoseAnswer

\* Requests are answered, and the answers are processed.
Fairness ==
    WF_vars(ServerReads) /\ WF_vars(Arrives) /\ WF_vars(Serve) /\ WF_vars(Succeed) /\ WF_vars(Settle)

Spec == Init /\ [][Next]_vars /\ Fairness

-----------------------------------------------------------------------------

Circuits == [routes : Lists, version : 0..MaxWrites + MaxMishaps]

TypeOK ==
    /\ circuit \in Circuits /\ shown \in Circuits
    /\ fetch \in [answer : Circuits \cup {None}] \cup {None}
    /\ pending \in Lists \cup {None}
    /\ place \in {"circuits", "climb"}

\* No list that is saved or shown has a route twice, whatever is moved, added
\* and removed on lists of different ages: the server would refuse it.
NoRouteTwice ==
    /\ IsInjective(circuit.routes) /\ IsInjective(shown.routes)
    /\ pending # None => IsInjective(pending)
    /\ \A c \in calls : IsInjective(c.routes)

\* Whenever the routes can be edited, the list on the screen has every change
\* that this device has made and that has succeeded, so that saving the next
\* one takes none of them back.  (Not while a write of a page that has been
\* left is under way, nor after a fetch that failed or an answer that was lost.)
DraftHasOwnWrites ==
    Editable /\ failures = 0 /\ (\A c \in calls : c.step \in {"settling", "settled"})
        => shown.version >= own

\* A list that is being saved is shown until it is saved or has failed, and
\* then the list can be edited again: the buttons do not stay disabled.
SavesEnd == (pending # None) ~> (pending = None)

=============================================================================
