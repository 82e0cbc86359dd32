--------------------------- MODULE ClientSession ---------------------------
(***************************************************************************)
(* The session of one browser (web/src/lib/api, lib/store, queryClient.ts):*)
(* its tabs share a token pair in localStorage, and a tab whose access     *)
(* token is rejected renews the pair under a lock that the tabs share.     *)
(*                                                                         *)
(* Pairs are numbered as the server issues them; 0 is no pair.  A refresh  *)
(* token works once.  The lock is a lease in IndexedDB: it outlives a tab  *)
(* that is closed, and runs out under one that is suspended, as timers do  *)
(* not run there.  The Web Locks of a secure context do neither, and allow *)
(* fewer behaviours.                                                       *)
(***************************************************************************)
EXTENDS Integers, Sequences, FiniteSets

CONSTANTS
    Tabs, Users,
    Requests,    \* API calls, each of one tab
    TabOf,       \* the tab of each
    MaxPairs,    \* bounds the pairs the server issues
    MaxMishaps,  \* bounds the answers lost, and leases run out, under a refresh
    MaxFailures, \* bounds the refreshes that fail, and the tabs closed, at no one's cost
    None

ASSUME ConstantsOK ==
    /\ TabOf \in [Requests -> Tabs]
    /\ MaxPairs \in Nat \ {0} /\ MaxMishaps \in Nat /\ MaxFailures \in Nat
    /\ None \notin Users /\ None \notin Tabs \X {"refresh", "logout"}

Jobs == Tabs \X {"refresh", "logout"}

VARIABLES
    pairs,     \* the pairs issued: the user and the session of each
    live,      \* those whose refresh token works
    fresh,     \* those whose access token works
    store,     \* the pair in localStorage
    mem,       \* the pair in each tab's memory
    told,      \* the tabs with a storage event to come
    lock,      \* the entry in IndexedDB: None or its owner
    expired,   \* whether that entry has run out
    job,       \* what each tab does, or waits to do, under the lock
    req,       \* the API calls
    grant,     \* of each tab, the pair of a sign-in or password change on its way
    mishaps, failures

server == <<pairs, live, fresh>>
locks == <<lock, expired>>
counts == <<mishaps, failures>>
vars == <<pairs, live, fresh, store, mem, told, lock, expired, job, req, grant, mishaps, failures>>

NoJob == [step |-> "idle", rejected |-> 0, token |-> 0, answer |-> 0]
NoReq == [step |-> "idle", pair |-> 0]

\* What a job makes of its turn, or what the server answered, when not a pair.
Refreshed == -1
NotRefreshed == -2
Failed == -3

UserOf(n) == IF n = 0 THEN None ELSE pairs[n].user

Init ==
    /\ \E u \in Users : pairs = <<[user |-> u, session |-> 1]>>
    /\ live = {1} /\ fresh = {1}
    /\ store = 1 /\ mem = [t \in Tabs |-> 1] /\ told = {}
    /\ lock = None /\ expired = FALSE
    /\ job = [j \in Jobs |-> NoJob]
    /\ req = [r \in Requests |-> NoReq]
    /\ grant = [t \in Tabs |-> 0]
    /\ mishaps = 0 /\ failures = 0

\* Bound: every pair that may yet be renewed finds a number.
Room(k) == Len(pairs) + Cardinality(live \ fresh) + k <= MaxPairs

\* setTokens and clearTokens: this tab at once, the others with an event.
Write(t, n) ==
    /\ store' = n
    /\ mem' = [mem EXCEPT ![t] = n]
    /\ told' = told \cup (Tabs \ {t})

Rehydrate(t) ==
    /\ mem' = [mem EXCEPT ![t] = store]
    /\ UNCHANGED <<store, told>>

StorageEvent(t) ==
    /\ t \in told
    /\ told' = told \ {t}
    /\ mem' = [mem EXCEPT ![t] = store]
    /\ UNCHANGED <<server, store, locks, job, req, grant, counts>>

-----------------------------------------------------------------------------
(* The lock.                                                               *)

InTurn(j) == job[j].step \in {"asked", "answered", "leaving"}

Wait(j, rejected) ==
    job' = [job EXCEPT ![j] = [step |-> "waiting", rejected |-> rejected, token |-> 0, answer |-> 0]]

AcquireAnyway(j) ==                                                    \* mutant
    /\ lock' = j
    /\ expired' = FALSE

AcquireOnceFreed(j) ==                                                 \* mutant
    /\ lock = None
    /\ lock' = j
    /\ expired' = FALSE

Acquire(j) ==
    /\ lock = None \/ expired
    /\ lock' = j
    /\ expired' = FALSE

\* release, whether the task succeeded or not.
Release(j) ==
    IF lock = j THEN lock' = None /\ expired' = FALSE ELSE UNCHANGED locks

\* The heartbeat, which a suspended tab makes up for when it resumes.
Renew(j) ==
    /\ InTurn(j) /\ lock = j /\ expired
    /\ expired' = FALSE
    /\ UNCHANGED <<server, store, mem, told, lock, job, req, grant, counts>>

\* The lease of a tab that is gone runs out.
LeaseRunsOut ==
    /\ lock # None /\ ~expired /\ ~InTurn(lock)
    /\ expired' = TRUE
    /\ UNCHANGED <<server, store, mem, told, lock, job, req, grant, counts>>

\* That of a suspended tab does too, and the tab goes on when it resumes.
LeaseOverrun ==
    /\ lock # None /\ ~expired /\ InTurn(lock)
    /\ mishaps < MaxMishaps                                             \* bound
    /\ expired' = TRUE
    /\ mishaps' = mishaps + 1
    /\ UNCHANGED <<server, store, mem, told, lock, job, req, grant, failures>>

-----------------------------------------------------------------------------
(* Refreshing the pair.                                                    *)

Proceed(j, step, token, answer) ==
    job' = [job EXCEPT ![j] = [step |-> step, rejected |-> 0, token |-> token, answer |-> answer]]

\* Another tab may have renewed the pair while this one waited.
EnterRefresh(t) ==
    LET j == <<t, "refresh">>
    IN  /\ job[j].step = "waiting"
        /\ Acquire(j)
        /\ Rehydrate(t)
        /\ IF store # 0 /\ store # job[j].rejected
           THEN Proceed(j, "leaving", 0, Refreshed)
           ELSE IF store = 0
           THEN Proceed(j, "leaving", 0, NotRefreshed)
           ELSE Proceed(j, "asked", store, 0)
        /\ UNCHANGED <<server, req, grant, counts>>

\* The server renews a pair once and refuses it from then on.
ServerRefreshes(t) ==
    LET j == <<t, "refresh">>
        n == Len(pairs) + 1
    IN  /\ job[j].step = "asked"
        /\ IF job[j].token \in live
           THEN /\ pairs' = Append(pairs, pairs[job[j].token])
                /\ live' = (live \ {job[j].token}) \cup {n}
                /\ fresh' = fresh \cup {n}
                /\ Proceed(j, "answered", job[j].token, n)
           ELSE /\ Proceed(j, "answered", job[j].token, NotRefreshed)
                /\ UNCHANGED server
        /\ UNCHANGED <<store, mem, told, locks, req, grant, counts>>

\* A status that says nothing of the token, or a call that never arrived.
ServerFails(t) ==
    LET j == <<t, "refresh">>
    IN  /\ job[j].step = "asked"
        /\ failures < MaxFailures                                       \* bound
        /\ failures' = failures + 1
        /\ Proceed(j, "leaving", 0, Failed)
        /\ UNCHANGED <<server, store, mem, told, locks, req, grant, mishaps>>

AnswerIsLost(t) ==
    LET j == <<t, "refresh">>
    IN  /\ job[j].step = "answered"
        /\ mishaps < MaxMishaps                                         \* bound
        /\ mishaps' = mishaps + 1
        /\ Proceed(j, "leaving", 0, Failed)
        /\ UNCHANGED <<server, store, mem, told, locks, req, grant, failures>>

StoreTokens(t) ==
    LET j == <<t, "refresh">>
    IN  /\ job[j].step = "answered" /\ job[j].answer > 0
        /\ Write(t, job[j].answer)
        /\ Proceed(j, "leaving", 0, Refreshed)
        /\ UNCHANGED <<server, locks, req, grant, counts>>

TokenRefused(t) ==
    LET j == <<t, "refresh">>
    IN  job[j].step = "answered" /\ job[j].answer = NotRefreshed

SignOutAnyway(t) ==                                                    \* mutant
    LET j == <<t, "refresh">>
    IN  /\ TokenRefused(t)
        /\ Write(t, 0)
        /\ Proceed(j, "leaving", 0, NotRefreshed)
        /\ UNCHANGED <<server, locks, req, grant, counts>>

\* onInvalid: the pair was refused and nobody has stored another.
SignOut(t) ==
    LET j == <<t, "refresh">>
    IN  /\ TokenRefused(t) /\ store = job[j].token
        /\ Write(t, 0)
        /\ Proceed(j, "leaving", 0, NotRefreshed)
        /\ UNCHANGED <<server, locks, req, grant, counts>>

KeepOther(t) ==
    LET j == <<t, "refresh">>
    IN  /\ TokenRefused(t) /\ store # job[j].token
        /\ Rehydrate(t)
        /\ Proceed(j, "leaving", 0, NotRefreshed)
        /\ UNCHANGED <<server, locks, req, grant, counts>>

\* The calls that joined the flight go on together.
LeaveRefresh(t) ==
    LET j == <<t, "refresh">>
        joined(r) == TabOf[r] = t /\ req[r].step = "refused"
    IN  /\ job[j].step = "leaving"
        /\ Release(j)
        /\ job' = [job EXCEPT ![j] = NoJob]
        /\ req' = [r \in Requests |->
            IF ~joined(r) THEN req[r]
            ELSE IF job[j].answer = Refreshed
            THEN [step |-> "retried", pair |-> mem[t]]
            ELSE NoReq]
        /\ UNCHANGED <<server, store, mem, told, grant, counts>>

-----------------------------------------------------------------------------
(* API calls.                                                              *)

Settled(r) == req[r] = NoReq

Send(r) ==
    LET t == TabOf[r]
    IN  /\ Settled(r) /\ mem[t] # 0
        /\ req' = [req EXCEPT ![r] = [step |-> "sent", pair |-> mem[t]]]
        /\ UNCHANGED <<server, store, mem, told, locks, job, grant, counts>>

Answered(r) ==
    /\ req[r].step \in {"sent", "retried"}
    /\ req[r].pair \in fresh
    /\ req' = [req EXCEPT ![r] = NoReq]
    /\ UNCHANGED <<server, store, mem, told, locks, job, grant, counts>>

\* A rejected call starts a refresh, or joins the one under way.
Rejected(r) ==
    LET t == TabOf[r]
        j == <<t, "refresh">>
    IN  /\ req[r].step = "sent" /\ req[r].pair \notin fresh
        /\ IF mem[t] = 0
           THEN /\ req' = [req EXCEPT ![r] = NoReq]
                /\ UNCHANGED job
           ELSE /\ req' = [req EXCEPT ![r] = [step |-> "refused", pair |-> 0]]
                /\ IF job[j].step = "idle" THEN Wait(j, req[r].pair) ELSE UNCHANGED job
        /\ UNCHANGED <<server, store, mem, told, locks, grant, counts>>

\* A call is retried once.
RejectedAgain(r) ==
    /\ req[r].step = "retried" /\ req[r].pair \notin fresh
    /\ req' = [req EXCEPT ![r] = NoReq]
    /\ UNCHANGED <<server, store, mem, told, locks, job, grant, counts>>

-----------------------------------------------------------------------------
(* Signing in and out.                                                     *)

Issue(u, session) ==
    /\ pairs' = Append(pairs, [user |-> u, session |-> session])
    /\ Room(1)                                                          \* bound

\* Login, Register and the SSO callback, which a signed-in tab does not show.
SignIn(t, u) ==
    /\ mem[t] = 0 /\ grant[t] = 0
    /\ Issue(u, Len(pairs) + 1)
    /\ live' = live \cup {Len(pairs) + 1}
    /\ fresh' = fresh \cup {Len(pairs) + 1}
    /\ grant' = [grant EXCEPT ![t] = Len(pairs) + 1]
    /\ UNCHANGED <<store, mem, told, locks, job, req, counts>>

\* The server ends the user's sessions and opens another for this tab.
ChangePassword(t) ==
    LET ended == {n \in 1..Len(pairs) : pairs[n].user = UserOf(mem[t])}
    IN  /\ mem[t] \in fresh /\ grant[t] = 0
        /\ Issue(UserOf(mem[t]), Len(pairs) + 1)
        /\ live' = (live \ ended) \cup {Len(pairs) + 1}
        /\ fresh' = (fresh \ ended) \cup {Len(pairs) + 1}
        /\ grant' = [grant EXCEPT ![t] = Len(pairs) + 1]
        /\ UNCHANGED <<store, mem, told, locks, job, req, counts>>

\* The tab stores the pair without the lock.
TakeGrant(t) ==
    /\ grant[t] # 0
    /\ Write(t, grant[t])
    /\ grant' = [grant EXCEPT ![t] = 0]
    /\ UNCHANGED <<server, locks, job, req, counts>>

Logout(t) ==
    LET j == <<t, "logout">>
    IN  /\ mem[t] # 0 /\ job[j].step = "idle"
        /\ Wait(j, 0)
        /\ UNCHANGED <<server, store, mem, told, locks, req, grant, counts>>

EnterLogoutLocally(t) ==                                               \* mutant
    LET j == <<t, "logout">>
    IN  /\ job[j].step = "waiting"
        /\ job' = [job EXCEPT ![j] = NoJob]
        /\ Write(t, 0)
        /\ UNCHANGED <<server, locks, req, grant, counts>>

EnterLogout(t) ==
    LET j == <<t, "logout">>
    IN  /\ job[j].step = "waiting"
        /\ Acquire(j)
        /\ Proceed(j, IF store = 0 THEN "leaving" ELSE "asked", store, 0)
        /\ Write(t, 0)
        /\ UNCHANGED <<server, req, grant, counts>>

\* The session is revoked, or the server was out of reach.
LeaveLogout(t) ==
    LET j == <<t, "logout">>
        its == {n \in 1..Len(pairs) : job[j].token # 0 /\ pairs[n].session = pairs[job[j].token].session}
    IN  /\ \/ job[j].step = "leaving" /\ UNCHANGED live
           \/ job[j].step = "asked" /\ live' \in {live, live \ its}
        /\ Release(j)
        /\ job' = [job EXCEPT ![j] = NoJob]
        /\ UNCHANGED <<pairs, fresh, store, mem, told, req, grant, counts>>

-----------------------------------------------------------------------------
(* The environment.                                                        *)

\* Bound: what has to be renewed finds a number.
Expire(n) ==
    /\ n \in fresh
    /\ n \in live => Room(1)
    /\ fresh' = fresh \ {n}
    /\ UNCHANGED <<pairs, live, store, mem, told, locks, job, req, grant, counts>>

\* A tab is closed, or reloaded, at any point; its entry in IndexedDB stays.
CloseTab(t) ==
    LET spent == job[<<t, "refresh">>].step = "answered"
    IN  /\ IF spent
           THEN mishaps < MaxMishaps /\ mishaps' = mishaps + 1 /\ UNCHANGED failures     \* bound
           ELSE failures < MaxFailures /\ failures' = failures + 1 /\ UNCHANGED mishaps  \* bound
        /\ \E j \in Jobs : j[1] = t /\ job[j] # NoJob
        /\ job' = [j \in Jobs |-> IF j[1] = t THEN NoJob ELSE job[j]]
        /\ req' = [r \in Requests |-> IF TabOf[r] = t THEN NoReq ELSE req[r]]
        /\ grant' = [grant EXCEPT ![t] = 0]
        /\ mem' = [mem EXCEPT ![t] = store]
        /\ told' = told \ {t}
        /\ UNCHANGED <<server, store, locks>>

RefreshStep(t) ==
    \/ EnterRefresh(t) \/ ServerRefreshes(t) \/ StoreTokens(t)
    \/ SignOut(t) \/ KeepOther(t) \/ LeaveRefresh(t)

LogoutStep(t) == EnterLogout(t) \/ LeaveLogout(t)

CallStep(r) == Answered(r) \/ Rejected(r) \/ RejectedAgain(r)

Next ==
    \/ \E t \in Tabs :
        \/ RefreshStep(t) \/ LogoutStep(t) \/ StorageEvent(t)
        \/ ServerFails(t) \/ AnswerIsLost(t)
        \/ TakeGrant(t) \/ ChangePassword(t) \/ Logout(t) \/ CloseTab(t)
        \/ \E u \in Users : SignIn(t, u)
    \/ \E r \in Requests : Send(r) \/ CallStep(r)
    \/ \E j \in Jobs : Renew(j)
    \/ \E n \in 1..Len(pairs) : Expire(n)
    \/ LeaseRunsOut \/ LeaseOverrun

\* Code that is running gets on, and leases run out; users and the network owe nothing.
Fairness ==
    /\ \A t \in Tabs : WF_vars(RefreshStep(t)) /\ WF_vars(LogoutStep(t))
    /\ \A r \in Requests : WF_vars(CallStep(r))
    /\ WF_vars(LeaseRunsOut)

Spec == Init /\ [][Next]_vars /\ Fairness

-----------------------------------------------------------------------------
(* Properties.                                                             *)

Steps == {"idle", "waiting", "asked", "answered", "leaving"}
JobsUpTo(n) == [step : Steps, rejected : 0..n, token : 0..n, answer : -3..n]
CallsUpTo(n) == [step : {"idle", "sent", "refused", "retried"}, pair : 0..n]

TypeOK ==
    LET n == Len(pairs)
    IN  /\ pairs \in Seq([user : Users, session : Nat]) /\ n \in 1..MaxPairs
        /\ live \subseteq 1..n /\ fresh \subseteq 1..n
        /\ store \in 0..n
        /\ mem \in [Tabs -> 0..n]
        /\ told \subseteq Tabs
        /\ lock \in Jobs \cup {None} /\ expired \in BOOLEAN
        /\ job \in [Jobs -> JobsUpTo(n)]
        /\ req \in [Requests -> CallsUpTo(n)]
        /\ grant \in [Tabs -> 0..n]
        /\ mishaps \in 0..MaxMishaps /\ failures \in 0..MaxFailures

\* The tabs take turns at the pair unless a lease ran out under its holder
\* (withIndexedDBLock).
LockIsExclusive ==
    mishaps = 0 => \A i, j \in Jobs : InTurn(i) /\ InTurn(j) => i = j

\* The browser signs itself out only when its session is over at the server: two tabs
\* do not spend the same refresh token, whoever is closed or fails (refreshSessionWithLock).
SignOutsAreWarranted ==
    [][\A t \in Tabs : SignOut(t) =>
        \/ mishaps > 0
        \/ \A n \in live : pairs[n].session # pairs[store].session]_vars

\* After a logout in any tab no tab brings the session back: a renewed pair that
\* was on its way is stored before it or not at all (logout in queryClient.ts).
LogoutIsFinal ==
    [][store = 0 /\ store' # 0 => mishaps > 0 \/ \E t \in Tabs : grant[t] = store']_vars

\* Every call is answered in the end, also when the tab that holds the lock is closed.
EveryCallEnds == \A r \in Requests : ~Settled(r) ~> Settled(r)

=============================================================================
