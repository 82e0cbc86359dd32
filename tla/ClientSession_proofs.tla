------------------------- MODULE ClientSession_proofs -------------------------
(***************************************************************************)
(* Proofs about ClientSession, for any number of tabs, calls, users, pairs *)
(* and failures.                                                           *)
(***************************************************************************)
EXTENDS ClientSession, FiniteSetTheorems, SequenceTheorems, TLAPS

Pair == [user : Users, session : Nat]
-----------------------------------------------------------------------------
(* The bound on pairs.  The server renews without asking for room: that    *)
(* there is some rests on a renewed pair being one whose access token was  *)
(* rejected.                                                               *)

Bounded ==
    /\ Len(pairs) + Cardinality(live \ fresh) <= MaxPairs
    /\ \A t \in Tabs :
        LET j == <<t, "refresh">>
        IN  /\ job[j].step = "waiting" => job[j].rejected \notin fresh
            /\ job[j].step = "asked" => job[j].token \notin fresh

TInv == TypeOK /\ Bounded

\* What is well formed stays so when pairs are issued.
LEMMA Growth ==
    ASSUME TypeOK, NEW n \in Nat, Len(pairs) <= n
    PROVE  /\ live \subseteq 1..n /\ fresh \subseteq 1..n /\ store \in 0..n
           /\ mem \in [Tabs -> 0..n] /\ grant \in [Tabs -> 0..n]
           /\ job \in [Jobs -> JobsUpTo(n)] /\ req \in [Requests -> CallsUpTo(n)]
<1>1. Len(pairs) \in Nat
  BY DEF TypeOK
<1>2. /\ 0..Len(pairs) \subseteq 0..n /\ 1..Len(pairs) \subseteq 1..n
      /\ -3..Len(pairs) \subseteq -3..n
  BY <1>1
<1>3. JobsUpTo(Len(pairs)) \subseteq JobsUpTo(n)
  BY <1>2 DEF JobsUpTo
<1>4. CallsUpTo(Len(pairs)) \subseteq CallsUpTo(n)
  BY <1>2 DEF CallsUpTo
<1> QED
  BY <1>1, <1>2, <1>3, <1>4 DEF TypeOK

LEMMA JobsAre ==
    ASSUME NEW t \in Tabs
    PROVE  /\ <<t, "refresh">> \in Jobs /\ <<t, "logout">> \in Jobs
           /\ <<t, "refresh">> # <<t, "logout">>
           /\ \A u \in Tabs : <<t, "refresh">> # <<u, "logout">>
           /\ \A u \in Tabs : <<t, "refresh">> = <<u, "refresh">> <=> t = u
           /\ \A u \in Tabs : <<t, "logout">> = <<u, "logout">> <=> t = u
  BY DEF Jobs

\* The jobs that Proceed and Wait make.
LEMMA JobTypes ==
    ASSUME NEW n \in Nat, NEW f \in [Jobs -> JobsUpTo(n)], NEW j \in Jobs
    PROVE  /\ [f EXCEPT ![j] = NoJob] \in [Jobs -> JobsUpTo(n)]
           /\ \A s \in Steps, r \in 0..n, k \in 0..n, a \in -3..n :
                [f EXCEPT ![j] = [step |-> s, rejected |-> r, token |-> k, answer |-> a]]
                    \in [Jobs -> JobsUpTo(n)]
<1>1. NoJob \in JobsUpTo(n)
  BY DEF NoJob, JobsUpTo, Steps
<1>2. \A s \in Steps, r \in 0..n, k \in 0..n, a \in -3..n :
        [step |-> s, rejected |-> r, token |-> k, answer |-> a] \in JobsUpTo(n)
  BY DEF JobsUpTo
<1> QED
  BY <1>1, <1>2

LEMMA TInit == ASSUME Init PROVE TInv
<1>1. PICK u \in Users : pairs = <<[user |-> u, session |-> 1]>>
  BY DEF Init
<1>2. /\ pairs \in Seq([user : Users, session : Nat]) /\ Len(pairs) = 1
  BY <1>1
<1>3. live \ fresh = {} /\ Cardinality({}) = 0
  BY FS_EmptySet DEF Init
<1>4. job \in [Jobs -> JobsUpTo(1)] /\ req \in [Requests -> CallsUpTo(1)]
  BY DEF Init, JobsUpTo, CallsUpTo, Steps, NoJob, NoReq
<1>5. TypeOK
  <2>1. 1 \in 1..MaxPairs /\ 0 \in 0..1 /\ 1 \in 0..1 /\ 0 \in 0..MaxMishaps /\ 0 \in 0..MaxFailures
    BY ConstantsOK
  <2>2. live \subseteq 1..1 /\ fresh \subseteq 1..1 /\ store \in 0..1 /\ told \subseteq Tabs
        /\ mem \in [Tabs -> 0..1] /\ grant \in [Tabs -> 0..1]
    BY <2>1 DEF Init
  <2> QED
    BY <1>2, <1>4, <2>1, <2>2 DEF Init, TypeOK
<1>6. \A t \in Tabs : job[<<t, "refresh">>].step = "idle"
  BY JobsAre DEF Init, NoJob
<1> QED
  <2>1. Len(pairs) + Cardinality(live \ fresh) <= MaxPairs
    <3>1. Cardinality(live \ fresh) = 0
      BY <1>3
    <3>2. Len(pairs) = 1 /\ 1 <= MaxPairs
      BY <1>2, ConstantsOK
    <3> QED
      BY <3>1, <3>2
  <2> QED
    BY <2>1, <1>5, <1>6 DEF TInv, Bounded

\* The pairs that may yet be renewed are finitely many, and fewer when they shrink.
LEMMA Renewable ==
    ASSUME TypeOK
    PROVE  /\ IsFiniteSet(live) /\ IsFiniteSet(live \ fresh) /\ Cardinality(live \ fresh) \in Nat
           /\ \A S : S \subseteq live \ fresh =>
                /\ Cardinality(S) \in Nat /\ Cardinality(S) <= Cardinality(live \ fresh)
<1>1. IsFiniteSet(1..Len(pairs))
  BY FS_Interval DEF TypeOK
<1>2. IsFiniteSet(live) /\ IsFiniteSet(live \ fresh)
  BY <1>1, FS_Subset DEF TypeOK
<1> QED
  BY <1>2, FS_Subset, FS_CardinalityType

\* A step that leaves the server alone, and asks with pairs that were rejected.
LEMMA ServerKept ==
    ASSUME Bounded, UNCHANGED server,
           \A t \in Tabs :
                LET j == <<t, "refresh">>
                IN  \/ job'[j] = job[j]
                    \/ job'[j].step \notin {"waiting", "asked"}
                    \/ job'[j].step = "waiting" /\ job'[j].rejected \notin fresh
                    \/ job'[j].step = "asked" /\ job'[j].token \notin fresh
    PROVE  Bounded'
  BY DEF Bounded, server

LEMMA TStepRefresh ==
    ASSUME TInv, NEW t \in Tabs,
           EnterRefresh(t) \/ StoreTokens(t) \/ SignOut(t) \/ KeepOther(t) \/ LeaveRefresh(t)
           \/ ServerFails(t) \/ AnswerIsLost(t)
    PROVE  TInv'
<1> DEFINE n == Len(pairs)
           j == <<t, "refresh">>
<1>a. /\ n \in Nat /\ j \in Jobs /\ job \in [Jobs -> JobsUpTo(n)] /\ job[j] \in JobsUpTo(n)
      /\ {Refreshed, NotRefreshed, Failed} \subseteq -3..n /\ 0 \in 0..n /\ 0 \in -3..n
      /\ \A u \in Tabs : <<u, "refresh">> = j <=> u = t
      /\ \A u \in Tabs : <<u, "refresh">> \in Jobs
  <2>1. n \in Nat /\ job \in [Jobs -> JobsUpTo(n)]
    BY DEF TInv, TypeOK
  <2>2. j \in Jobs /\ \A u \in Tabs : <<u, "refresh">> \in Jobs
    BY JobsAre
  <2>3. \A u \in Tabs : <<u, "refresh">> = j <=> u = t
    BY JobsAre
  <2>4. -1 \in -3..n /\ -2 \in -3..n /\ -3 \in -3..n /\ 0 \in 0..n /\ 0 \in -3..n
    BY <2>1
  <2>5. {Refreshed, NotRefreshed, Failed} \subseteq -3..n
    BY <2>4 DEF Refreshed, NotRefreshed, Failed
  <2>6. job[j] \in JobsUpTo(n)
    BY <2>1, <2>2
  <2> QED
    BY <2>1, <2>2, <2>3, <2>4, <2>5, <2>6
<1>b. job[j].token \in 0..n /\ job[j].rejected \in 0..n /\ job[j].answer \in -3..n
  BY <1>a DEF JobsUpTo
<1>c. store \in 0..n
  BY DEF TInv, TypeOK
<1> HIDE DEF n, j
<1>1. CASE EnterRefresh(t)
  <2>1. /\ job[j].step = "waiting" /\ UNCHANGED server
        /\ \/ Proceed(j, "leaving", 0, Refreshed)
           \/ Proceed(j, "leaving", 0, NotRefreshed)
           \/ Proceed(j, "asked", store, 0) /\ store = job[j].rejected
    BY <1>1 DEF EnterRefresh, j
  <2>2. job' \in [Jobs -> JobsUpTo(n)]
    BY <2>1, <1>a, <1>b, <1>c, JobTypes DEF Proceed, Steps
  <2>3. Bounded'
    BY <2>1, <1>a, ServerKept DEF Proceed, TInv, Bounded, j
  <2> QED
    BY <1>1, <1>a, <2>2, <2>3 DEF EnterRefresh, Acquire, Rehydrate, TInv, TypeOK, server, counts, n, j
<1>2. CASE StoreTokens(t)
  <2>1. job' \in [Jobs -> JobsUpTo(n)]
    BY <1>2, <1>a, JobTypes DEF StoreTokens, Proceed, Steps, j
  <2>2. Bounded'
    BY <1>2, <1>a, ServerKept DEF StoreTokens, Proceed, TInv, j
  <2>3. job[j].answer \in 0..n
    BY <1>2, <1>b, <1>a DEF StoreTokens, j
  <2> QED
    BY <1>2, <1>a, <2>1, <2>2, <2>3 DEF StoreTokens, Write, TInv, TypeOK, server, locks, counts, n, j
<1>3. CASE SignOut(t)
  <2>1. job' \in [Jobs -> JobsUpTo(n)]
    BY <1>3, <1>a, JobTypes DEF SignOut, Proceed, Steps, j
  <2>2. Bounded'
    BY <1>3, <1>a, ServerKept DEF SignOut, Proceed, TInv, j
  <2> QED
    BY <1>3, <1>a, <2>1, <2>2 DEF SignOut, Write, TInv, TypeOK, server, locks, counts, n, j
<1>4. CASE KeepOther(t)
  <2>1. job' \in [Jobs -> JobsUpTo(n)]
    BY <1>4, <1>a, JobTypes DEF KeepOther, Proceed, Steps, j
  <2>2. Bounded'
    BY <1>4, <1>a, ServerKept DEF KeepOther, Proceed, TInv, j
  <2> QED
    BY <1>4, <1>a, <2>1, <2>2 DEF KeepOther, Rehydrate, TInv, TypeOK, server, locks, counts, n, j
<1>5. CASE LeaveRefresh(t)
  <2>1. job' = [job EXCEPT ![j] = NoJob] /\ UNCHANGED <<server, store, mem, told, grant, counts>>
    BY <1>5 DEF LeaveRefresh, j
  <2>2. job' \in [Jobs -> JobsUpTo(n)]
    BY <2>1, <1>a, JobTypes
  <2>3. Bounded'
    BY <2>1, <1>a, ServerKept DEF NoJob, TInv, j
  <2>4. mem[t] \in 0..n
    BY DEF TInv, TypeOK, n
  <2>5. NoReq \in CallsUpTo(n) /\ [step |-> "retried", pair |-> mem[t]] \in CallsUpTo(n)
    BY <2>4, <1>a DEF NoReq, CallsUpTo
  <2>6. req' \in [Requests -> CallsUpTo(n)]
    BY <1>5, <2>5 DEF LeaveRefresh, TInv, TypeOK, n
  <2>7. lock' \in Jobs \cup {None} /\ expired' \in BOOLEAN
    BY <1>5 DEF LeaveRefresh, Release, locks, TInv, TypeOK
  <2> QED
    BY <2>1, <2>2, <2>3, <2>6, <2>7 DEF TInv, TypeOK, server, counts, n
<1>6. CASE ServerFails(t)
  <2>1. job' \in [Jobs -> JobsUpTo(n)]
    BY <1>6, <1>a, JobTypes DEF ServerFails, Proceed, Steps, j
  <2>2. Bounded'
    BY <1>6, <1>a, ServerKept DEF ServerFails, Proceed, TInv, j
  <2> QED
    BY <1>6, <2>1, <2>2, ConstantsOK DEF ServerFails, TInv, TypeOK, server, locks, n, j
<1>7. CASE AnswerIsLost(t)
  <2>1. job' \in [Jobs -> JobsUpTo(n)]
    BY <1>7, <1>a, JobTypes DEF AnswerIsLost, Proceed, Steps, j
  <2>2. Bounded'
    BY <1>7, <1>a, ServerKept DEF AnswerIsLost, Proceed, TInv, j
  <2> QED
    BY <1>7, <2>1, <2>2, ConstantsOK DEF AnswerIsLost, TInv, TypeOK, server, locks, n, j
<1> QED
  BY <1>1, <1>2, <1>3, <1>4, <1>5, <1>6, <1>7

\* A pair is issued.
LEMMA Issued ==
    ASSUME TypeOK, NEW p \in [user : Users, session : Nat]
    PROVE  /\ Append(pairs, p) \in Seq([user : Users, session : Nat])
           /\ Len(Append(pairs, p)) = Len(pairs) + 1
           /\ \A i \in 1..Len(pairs) : Append(pairs, p)[i] = pairs[i]
           /\ Append(pairs, p)[Len(pairs) + 1] = p
<1>1. pairs \in Seq([user : Users, session : Nat])
  BY DEF TypeOK
<1> QED
  BY <1>1

LEMMA PairsAre ==
    ASSUME TypeOK, NEW i \in 1..Len(pairs)
    PROVE  /\ pairs[i] \in [user : Users, session : Nat]
           /\ pairs[i].user \in Users /\ pairs[i].session \in Nat
<1>1. pairs \in Seq([user : Users, session : Nat])
  BY DEF TypeOK
<1>2. pairs[i] \in [user : Users, session : Nat]
  BY <1>1, ElementOfSeq
<1> QED
  BY <1>2

LEMMA TServerRefreshes == ASSUME TInv, NEW t \in Tabs, ServerRefreshes(t) PROVE TInv'
<1> DEFINE n == Len(pairs)
           j == <<t, "refresh">>
           k == job[j].token
<1>1. /\ n \in Nat /\ n \in 1..MaxPairs /\ job \in [Jobs -> JobsUpTo(n)] /\ j \in Jobs
      /\ job[j] \in JobsUpTo(n) /\ job[j].step = "asked"
      /\ \A u \in Tabs : <<u, "refresh">> \in Jobs
      /\ \A u \in Tabs : <<u, "refresh">> = j <=> u = t
  <2>1. n \in Nat /\ n \in 1..MaxPairs /\ job \in [Jobs -> JobsUpTo(n)]
    BY DEF TInv, TypeOK
  <2>2. j \in Jobs /\ \A u \in Tabs : <<u, "refresh">> \in Jobs
    BY JobsAre
  <2>3. \A u \in Tabs : <<u, "refresh">> = j <=> u = t
    BY JobsAre
  <2>4. job[j].step = "asked"
    BY DEF ServerRefreshes
  <2> QED
    BY <2>1, <2>2, <2>3, <2>4
<1>2. k \in 0..n /\ k \notin fresh
  BY <1>1 DEF TInv, Bounded, JobsUpTo
<1>3. CASE k \notin live
  <2>1. Proceed(j, "answered", k, NotRefreshed) /\ UNCHANGED server
    BY <1>3 DEF ServerRefreshes
  <2>2. NotRefreshed \in -3..n /\ 0 \in 0..n
    BY <1>1 DEF NotRefreshed
  <2>3. job' \in [Jobs -> JobsUpTo(n)]
    BY <2>1, <2>2, <1>1, <1>2, JobTypes DEF Proceed, Steps
  <2>4. Bounded'
    BY <2>1, <1>1, ServerKept DEF Proceed, TInv
  <2> QED
    BY <2>1, <2>3, <2>4 DEF ServerRefreshes, TInv, TypeOK, server, locks, counts
<1>4. CASE k \in live
  <2> DEFINE new == n + 1
  <2>1. /\ pairs' = Append(pairs, pairs[k])
        /\ live' = (live \ {k}) \cup {new} /\ fresh' = fresh \cup {new}
        /\ Proceed(j, "answered", k, new)
        /\ UNCHANGED <<store, mem, told, lock, expired, req, grant, mishaps, failures>>
    BY <1>4 DEF ServerRefreshes, locks, counts
  <2>2. k \in 1..n /\ live \subseteq 1..n /\ fresh \subseteq 1..n
        /\ pairs \in Seq([user : Users, session : Nat])
    BY <1>4 DEF TInv, TypeOK
  <2>3. pairs[k] \in [user : Users, session : Nat]
    BY <2>2, PairsAre DEF TInv
  <2>4. pairs' \in Seq([user : Users, session : Nat]) /\ Len(pairs') = new
    BY <2>1, <2>3, Issued DEF TInv
  <2>5. k \in live \ fresh /\ new \notin live /\ new \notin fresh
    BY <1>2, <1>4, <2>2, <1>1
  <2>6. live' \ fresh' = (live \ fresh) \ {k}
    BY <2>1, <2>5
  <2>7. /\ Cardinality(live' \ fresh') = Cardinality(live \ fresh) - 1
        /\ Cardinality(live \ fresh) \in Nat
    <3>1. IsFiniteSet(live \ fresh)
      BY Renewable DEF TInv
    <3>2. Cardinality((live \ fresh) \ {k}) = Cardinality(live \ fresh) - 1
      BY <2>5, <3>1, FS_RemoveElement
    <3> QED
      BY <2>6, <3>1, <3>2, FS_CardinalityType
  <2>8. Cardinality(live' \ fresh') \in Nat
    BY <2>6, Renewable DEF TInv
  <2>9. /\ Len(pairs') + Cardinality(live' \ fresh') <= MaxPairs
        /\ new \in 1..MaxPairs
    <3>1. n + Cardinality(live \ fresh) <= MaxPairs /\ MaxPairs \in Nat
      BY ConstantsOK DEF TInv, Bounded
    <3> QED
      BY <3>1, <2>4, <2>7, <2>8, <1>1
  <2>10. /\ live \subseteq 1..new /\ fresh \subseteq 1..new /\ store \in 0..new
         /\ mem \in [Tabs -> 0..new] /\ grant \in [Tabs -> 0..new]
         /\ job \in [Jobs -> JobsUpTo(new)] /\ req \in [Requests -> CallsUpTo(new)]
    BY <1>1, Growth DEF TInv
  <2>11. job' \in [Jobs -> JobsUpTo(new)]
    <3>1. new \in Nat /\ k \in 0..new /\ new \in -3..new /\ 0 \in 0..new
      BY <1>1, <1>2
    <3> QED
      BY <3>1, <2>1, <2>10, <1>1, JobTypes DEF Proceed, Steps
  <2>12. new \in 1..new
    BY <1>1
  <2>13. TypeOK'
    BY <2>1, <2>4, <2>9, <2>10, <2>11, <2>12 DEF TInv, TypeOK
  <2>14. ASSUME NEW u \in Tabs
         PROVE  LET i == <<u, "refresh">>
                IN  /\ job'[i].step = "waiting" => job'[i].rejected \notin fresh'
                    /\ job'[i].step = "asked" => job'[i].token \notin fresh'
    <3>1. CASE u = t
      BY <3>1, <2>1, <1>1 DEF Proceed
    <3>2. CASE u # t
      <4>1. <<u, "refresh">> # j /\ job'[<<u, "refresh">>] = job[<<u, "refresh">>]
        BY <3>2, <2>1, <1>1 DEF Proceed
      <4>2. job[<<u, "refresh">>].rejected # new /\ job[<<u, "refresh">>].token # new
        BY <1>1 DEF JobsUpTo
      <4> QED
        BY <4>1, <4>2, <2>1 DEF TInv, Bounded
    <3> QED
      BY <3>1, <3>2
  <2> QED
    BY <2>9, <2>13, <2>14 DEF TInv, Bounded
<1> QED
  BY <1>3, <1>4

\* A sign-in or a password change: a new pair of a new session; maybe others end.
LEMMA Granted ==
    ASSUME TInv, NEW t \in Tabs, NEW u \in Users, NEW ended,
           Issue(u, Len(pairs) + 1),
           live' = (live \ ended) \cup {Len(pairs) + 1},
           fresh' = (fresh \ ended) \cup {Len(pairs) + 1},
           grant' = [grant EXCEPT ![t] = Len(pairs) + 1],
           UNCHANGED <<store, mem, told, locks, job, req, counts>>
    PROVE  TInv'
<1> DEFINE n == Len(pairs)
           new == n + 1
<1>1. n \in Nat /\ MaxPairs \in Nat
  BY ConstantsOK DEF TInv, TypeOK
<1>2. /\ pairs' \in Seq([user : Users, session : Nat]) /\ Len(pairs') = new
  <2>1. [user |-> u, session |-> new] \in [user : Users, session : Nat]
    BY <1>1
  <2> QED
    BY <2>1, Issued DEF Issue, TInv
<1>3. live \subseteq 1..n /\ fresh \subseteq 1..n
  BY DEF TInv, TypeOK
<1>4. live' \ fresh' \subseteq live \ fresh
  OBVIOUS
<1>5. /\ Cardinality(live \ fresh) \in Nat /\ Cardinality(live' \ fresh') \in Nat
      /\ Cardinality(live' \ fresh') <= Cardinality(live \ fresh)
  BY <1>4, Renewable DEF TInv
<1>6. n + Cardinality(live \ fresh) + 1 <= MaxPairs
  BY DEF Issue, Room
<1>7. Len(pairs') + Cardinality(live' \ fresh') <= MaxPairs /\ new \in 1..MaxPairs
  BY <1>1, <1>2, <1>5, <1>6
<1>8. /\ live \subseteq 1..new /\ fresh \subseteq 1..new /\ store \in 0..new
      /\ mem \in [Tabs -> 0..new] /\ grant \in [Tabs -> 0..new]
      /\ job \in [Jobs -> JobsUpTo(new)] /\ req \in [Requests -> CallsUpTo(new)]
  BY <1>1, Growth DEF TInv
<1>9. TypeOK'
  <2>1. new \in 1..new /\ new \in 0..new
    BY <1>1
  <2>2. grant' \in [Tabs -> 0..new] /\ live' \subseteq 1..new /\ fresh' \subseteq 1..new
    BY <1>8, <2>1
  <2> QED
    BY <1>2, <1>7, <1>8, <2>2 DEF TInv, TypeOK, locks, counts
<1>10. ASSUME NEW v \in Tabs
       PROVE  LET i == <<v, "refresh">>
              IN  /\ job'[i].step = "waiting" => job'[i].rejected \notin fresh'
                  /\ job'[i].step = "asked" => job'[i].token \notin fresh'
  <2>1. <<v, "refresh">> \in Jobs
    BY JobsAre
  <2>2. job[<<v, "refresh">>] \in JobsUpTo(n)
    BY <2>1 DEF TInv, TypeOK
  <2>3. job[<<v, "refresh">>].rejected # new /\ job[<<v, "refresh">>].token # new
    BY <1>1, <2>2 DEF JobsUpTo
  <2> QED
    BY <2>3 DEF TInv, Bounded
<1> QED
  BY <1>7, <1>9, <1>10 DEF TInv, Bounded

LEMMA TGrants ==
    ASSUME TInv, NEW t \in Tabs, ChangePassword(t) \/ TakeGrant(t) \/ \E u \in Users : SignIn(t, u)
    PROVE  TInv'
<1>1. CASE ChangePassword(t)
  <2> DEFINE ended == {n \in 1..Len(pairs) : pairs[n].user = UserOf(mem[t])}
  <2>1. mem[t] \in 1..Len(pairs)
    BY <1>1 DEF ChangePassword, TInv, TypeOK
  <2>2. UserOf(mem[t]) \in Users
    <3>1. mem[t] # 0
      BY <2>1
    <3> QED
      BY <2>1, <3>1, PairsAre DEF UserOf, TInv
  <2>3. /\ Issue(UserOf(mem[t]), Len(pairs) + 1)
        /\ live' = (live \ ended) \cup {Len(pairs) + 1}
        /\ fresh' = (fresh \ ended) \cup {Len(pairs) + 1}
        /\ grant' = [grant EXCEPT ![t] = Len(pairs) + 1]
        /\ UNCHANGED <<store, mem, told, locks, job, req, counts>>
    BY <1>1 DEF ChangePassword
  <2> HIDE DEF ended
  <2> QED
    BY <2>2, <2>3, Granted
<1>2. CASE TakeGrant(t)
  <2>1. UNCHANGED <<server, job, lock, expired, req, mishaps, failures>>
    BY <1>2 DEF TakeGrant, locks, counts
  <2>2. Bounded'
    BY <2>1, ServerKept DEF TInv
  <2>3. grant[t] \in 0..Len(pairs) /\ 0 \in 0..Len(pairs)
    BY DEF TInv, TypeOK
  <2> QED
    BY <1>2, <2>1, <2>2, <2>3 DEF TakeGrant, Write, TInv, TypeOK, server
<1>3. ASSUME NEW u \in Users, SignIn(t, u) PROVE TInv'
  <2>1. live' = (live \ {}) \cup {Len(pairs) + 1} /\ fresh' = (fresh \ {}) \cup {Len(pairs) + 1}
    BY <1>3 DEF SignIn
  <2> QED
    BY <1>3, <2>1, Granted DEF SignIn
<1> QED
  BY <1>1, <1>2, <1>3

LEMMA TLogouts ==
    ASSUME TInv, NEW t \in Tabs, Logout(t) \/ EnterLogout(t) \/ LeaveLogout(t) \/ StorageEvent(t)
    PROVE  TInv'
<1> DEFINE n == Len(pairs)
           j == <<t, "logout">>
<1>a. /\ n \in Nat /\ job \in [Jobs -> JobsUpTo(n)] /\ store \in 0..n
      /\ 0 \in 0..n /\ 0 \in -3..n
  BY DEF TInv, TypeOK
<1>b. j \in Jobs /\ \A u \in Tabs : <<u, "refresh">> \in Jobs /\ <<u, "refresh">> # j
  BY JobsAre
<1> HIDE DEF n, j
<1>1. CASE Logout(t)
  <2>1. Wait(j, 0) /\ UNCHANGED <<server, store, mem, told, lock, expired, req, grant, mishaps, failures>>
    BY <1>1 DEF Logout, locks, counts, j
  <2>2. job' \in [Jobs -> JobsUpTo(n)]
    BY <2>1, <1>a, <1>b, JobTypes DEF Wait, Steps
  <2>3. Bounded'
    BY <2>1, <1>a, <1>b, ServerKept DEF Wait, TInv
  <2> QED
    BY <2>1, <2>2, <2>3 DEF TInv, TypeOK, server, n
<1>2. CASE EnterLogout(t)
  <2>1. /\ Proceed(j, IF store = 0 THEN "leaving" ELSE "asked", store, 0)
        /\ Write(t, 0) /\ Acquire(j)
        /\ UNCHANGED <<server, req, grant, mishaps, failures>>
    BY <1>2 DEF EnterLogout, counts, j
  <2>2. job' \in [Jobs -> JobsUpTo(n)]
    BY <2>1, <1>a, <1>b, JobTypes DEF Proceed, Steps
  <2>3. Bounded'
    BY <2>1, <1>a, <1>b, ServerKept DEF Proceed, TInv
  <2> QED
    BY <2>1, <2>2, <2>3, <1>a, <1>b DEF Write, Acquire, TInv, TypeOK, server, n
<1>3. CASE LeaveLogout(t)
  <2>1. /\ job' = [job EXCEPT ![j] = NoJob] /\ Release(j)
        /\ live' \subseteq live
        /\ UNCHANGED <<pairs, fresh, store, mem, told, req, grant, mishaps, failures>>
    BY <1>3 DEF LeaveLogout, counts, j
  <2>2. job' \in [Jobs -> JobsUpTo(n)]
    BY <2>1, <1>a, <1>b, JobTypes
  <2>3. lock' \in Jobs \cup {None} /\ expired' \in BOOLEAN
    BY <2>1 DEF Release, locks, TInv, TypeOK
  <2>4. TypeOK'
    BY <2>1, <2>2, <2>3 DEF TInv, TypeOK, n
  <2>5. /\ Cardinality(live' \ fresh') \in Nat /\ Cardinality(live \ fresh) \in Nat
        /\ Cardinality(live' \ fresh') <= Cardinality(live \ fresh)
    BY <2>1, Renewable DEF TInv
  <2>6. Len(pairs') + Cardinality(live' \ fresh') <= MaxPairs
    BY <2>1, <2>5, <1>a, ConstantsOK DEF TInv, Bounded, n
  <2>7. \A u \in Tabs : job'[<<u, "refresh">>] = job[<<u, "refresh">>]
    BY <2>1, <1>a, <1>b
  <2> QED
    BY <2>1, <2>4, <2>6, <2>7 DEF TInv, Bounded
<1>4. CASE StorageEvent(t)
  <2>1. Bounded'
    BY <1>4, ServerKept DEF StorageEvent, TInv
  <2> QED
    BY <1>4, <2>1 DEF StorageEvent, TInv, TypeOK, server, locks, counts
<1> QED
  BY <1>1, <1>2, <1>3, <1>4

LEMMA TCalls ==
    ASSUME TInv, NEW r \in Requests, Send(r) \/ CallStep(r)
    PROVE  TInv'
<1> DEFINE n == Len(pairs)
           t == TabOf[r]
           j == <<t, "refresh">>
<1>a. /\ n \in Nat /\ job \in [Jobs -> JobsUpTo(n)] /\ req \in [Requests -> CallsUpTo(n)]
      /\ t \in Tabs /\ mem[t] \in 0..n /\ 0 \in 0..n /\ 0 \in -3..n
  BY ConstantsOK DEF TInv, TypeOK
<1>b. /\ j \in Jobs /\ \A u \in Tabs : <<u, "refresh">> \in Jobs
      /\ \A u \in Tabs : <<u, "refresh">> = j <=> u = t
  BY <1>a, JobsAre
<1>c. req[r] \in CallsUpTo(n) /\ req[r].pair \in 0..n /\ NoReq \in CallsUpTo(n)
  BY <1>a DEF CallsUpTo, NoReq
<1> HIDE DEF n, j, t
<1>1. CASE Send(r)
  <2>1. req' = [req EXCEPT ![r] = [step |-> "sent", pair |-> mem[t]]]
        /\ UNCHANGED <<server, store, mem, told, locks, job, grant, counts>>
    BY <1>1 DEF Send, t
  <2>2. [step |-> "sent", pair |-> mem[t]] \in CallsUpTo(n)
    BY <1>a DEF CallsUpTo
  <2>3. req' \in [Requests -> CallsUpTo(n)]
    BY <2>1, <2>2, <1>a
  <2>4. Bounded'
    BY <2>1, ServerKept DEF TInv
  <2> QED
    BY <2>1, <2>3, <2>4 DEF TInv, TypeOK, server, locks, counts, n
<1>2. CASE Answered(r) \/ RejectedAgain(r)
  <2>1. req' = [req EXCEPT ![r] = NoReq]
        /\ UNCHANGED <<server, store, mem, told, locks, job, grant, counts>>
    BY <1>2 DEF Answered, RejectedAgain
  <2>2. req' \in [Requests -> CallsUpTo(n)]
    BY <2>1, <1>a, <1>c
  <2>3. Bounded'
    BY <2>1, ServerKept DEF TInv
  <2> QED
    BY <2>1, <2>2, <2>3 DEF TInv, TypeOK, server, locks, counts, n
<1>3. CASE Rejected(r)
  <2>1. /\ req[r].pair \notin fresh
        /\ \/ req' = [req EXCEPT ![r] = NoReq]
           \/ req' = [req EXCEPT ![r] = [step |-> "refused", pair |-> 0]]
        /\ Wait(j, req[r].pair) \/ UNCHANGED job
        /\ UNCHANGED <<server, store, mem, told, locks, grant, counts>>
    BY <1>3 DEF Rejected, NoReq, j, t
  <2>2. [step |-> "refused", pair |-> 0] \in CallsUpTo(n)
    BY <1>a DEF CallsUpTo
  <2>3. req' \in [Requests -> CallsUpTo(n)]
    BY <2>1, <2>2, <1>a, <1>c
  <2>4. job' \in [Jobs -> JobsUpTo(n)]
    BY <2>1, <1>a, <1>b, <1>c, JobTypes DEF Wait, Steps
  <2>5. Bounded'
    BY <2>1, <1>a, <1>b, ServerKept DEF Wait, TInv
  <2> QED
    BY <2>1, <2>3, <2>4, <2>5 DEF TInv, TypeOK, server, locks, counts, n
<1> QED
  BY <1>1, <1>2, <1>3 DEF CallStep

LEMMA TExpire == ASSUME TInv, NEW n \in 1..Len(pairs), Expire(n) PROVE TInv'
<1>1. /\ n \in fresh /\ fresh' = fresh \ {n}
      /\ UNCHANGED <<pairs, live, store, mem, told, lock, expired, job, req, grant, mishaps, failures>>
  BY DEF Expire, locks, counts
<1>2. IsFiniteSet(live \ fresh) /\ Cardinality(live \ fresh) \in Nat
  BY Renewable DEF TInv
<1>3. Len(pairs) + Cardinality(live' \ fresh') <= MaxPairs
  <2>1. CASE n \notin live
    <3>1. live' \ fresh' = live \ fresh
      BY <2>1, <1>1
    <3> QED
      BY <3>1, <1>1 DEF TInv, Bounded
  <2>2. CASE n \in live
    <3>1. live' \ fresh' = (live \ fresh) \cup {n} /\ n \notin live \ fresh
      BY <2>2, <1>1
    <3>2. Cardinality(live' \ fresh') = Cardinality(live \ fresh) + 1
      BY <3>1, <1>2, FS_AddElement
    <3>3. Len(pairs) + Cardinality(live \ fresh) + 1 <= MaxPairs
      BY <2>2 DEF Expire, Room
    <3>4. Len(pairs) \in Nat /\ MaxPairs \in Nat
      BY ConstantsOK DEF TInv, TypeOK
    <3> QED
      BY <3>2, <3>3, <3>4, <1>2
  <2> QED
    BY <2>1, <2>2
<1>4. TypeOK'
  BY <1>1 DEF TInv, TypeOK
<1> QED
  BY <1>1, <1>3, <1>4 DEF TInv, Bounded

LEMMA TLeases ==
    ASSUME TInv, LeaseRunsOut \/ LeaseOverrun \/ (\E j \in Jobs : Renew(j)) \/ UNCHANGED vars
    PROVE  TInv'
<1>1. /\ UNCHANGED <<server, store, mem, told, lock, job, req, grant, failures>>
      /\ expired' \in BOOLEAN
      /\ mishaps' = mishaps \/ (mishaps < MaxMishaps /\ mishaps' = mishaps + 1)
  BY DEF LeaseRunsOut, LeaseOverrun, Renew, vars, server, counts, TInv, TypeOK
<1>2. Bounded'
  BY <1>1, ServerKept DEF TInv
<1>3. mishaps' \in 0..MaxMishaps
  BY <1>1, ConstantsOK DEF TInv, TypeOK
<1> QED
  BY <1>1, <1>2, <1>3 DEF TInv, TypeOK, server

LEMMA TCloseTab == ASSUME TInv, NEW t \in Tabs, CloseTab(t) PROVE TInv'
<1> DEFINE n == Len(pairs)
<1>1. /\ job' = [j \in Jobs |-> IF j[1] = t THEN NoJob ELSE job[j]]
      /\ req' = [r \in Requests |-> IF TabOf[r] = t THEN NoReq ELSE req[r]]
      /\ grant' = [grant EXCEPT ![t] = 0] /\ mem' = [mem EXCEPT ![t] = store]
      /\ told' = told \ {t}
      /\ UNCHANGED <<server, store, lock, expired>>
  BY DEF CloseTab, locks
<1>2. /\ n \in Nat /\ job \in [Jobs -> JobsUpTo(n)] /\ req \in [Requests -> CallsUpTo(n)]
      /\ store \in 0..n /\ 0 \in 0..n
  BY DEF TInv, TypeOK
<1>3. NoJob \in JobsUpTo(n) /\ NoReq \in CallsUpTo(n)
  BY <1>2 DEF NoJob, NoReq, JobsUpTo, CallsUpTo, Steps
<1>4. job' \in [Jobs -> JobsUpTo(n)] /\ req' \in [Requests -> CallsUpTo(n)]
  BY <1>1, <1>2, <1>3
<1>5. mishaps' \in 0..MaxMishaps /\ failures' \in 0..MaxFailures
  BY ConstantsOK DEF CloseTab, TInv, TypeOK
<1>6. TypeOK'
  BY <1>1, <1>2, <1>4, <1>5 DEF TInv, TypeOK, server
<1>7. \A u \in Tabs : <<u, "refresh">> \in Jobs
  BY JobsAre
<1>8. \A u \in Tabs : \/ job'[<<u, "refresh">>] = job[<<u, "refresh">>]
                      \/ job'[<<u, "refresh">>].step \notin {"waiting", "asked"}
  BY <1>1, <1>7 DEF NoJob
<1>9. Bounded'
  BY <1>1, <1>8, ServerKept DEF TInv
<1> QED
  BY <1>6, <1>9 DEF TInv

LEMMA TStep == ASSUME TInv, [Next]_vars PROVE TInv'
<1>1. ASSUME NEW t \in Tabs,
             \/ RefreshStep(t) \/ LogoutStep(t) \/ StorageEvent(t)
             \/ ServerFails(t) \/ AnswerIsLost(t)
             \/ TakeGrant(t) \/ ChangePassword(t) \/ Logout(t) \/ CloseTab(t)
             \/ \E u \in Users : SignIn(t, u)
      PROVE  TInv'
  BY <1>1, TStepRefresh, TServerRefreshes, TGrants, TLogouts, TCloseTab DEF RefreshStep, LogoutStep
<1> QED
  BY <1>1, TCalls, TExpire, TLeases DEF Next

-----------------------------------------------------------------------------
(* Turns.  While no lease has run out under a job, the one that has its    *)
(* turn owns an entry that has not; and while a tab renews the pair there  *)
(* is a session, as who ends it takes a turn for it.                       *)

Turns == mishaps = 0 => \A j \in Jobs : InTurn(j) => lock = j /\ ~expired

SessionKept ==
    mishaps = 0 =>
        \A t \in Tabs : job[<<t, "refresh">>].step \in {"asked", "answered"} => store # 0

BInv == Turns /\ SessionKept

LEMMA MishapsStay == ASSUME TInv, [Next]_vars PROVE mishaps \in Nat /\ mishaps' >= mishaps
<1>1. mishaps \in Nat
  BY ConstantsOK DEF TInv, TypeOK
<1>2. mishaps' = mishaps \/ mishaps' = mishaps + 1
  BY DEF Next, RefreshStep, LogoutStep, CallStep, EnterRefresh, ServerRefreshes, StoreTokens, SignOut,
     KeepOther, LeaveRefresh, ServerFails, AnswerIsLost, EnterLogout, LeaveLogout, Logout, StorageEvent,
     TakeGrant, ChangePassword, SignIn, CloseTab, Send, Answered, Rejected, RejectedAgain, Renew, Expire,
     LeaseRunsOut, LeaseOverrun, counts, vars
<1> QED
  BY <1>1, <1>2

\* A job that can enter finds nobody in turn.
LEMMA NobodyInTurn ==
    ASSUME Turns, mishaps = 0, lock = None \/ expired
    PROVE  \A i \in Jobs : ~InTurn(i)
  BY ConstantsOK DEF Turns, Jobs

LEMMA Alone ==
    ASSUME Turns, mishaps = 0, NEW i \in Jobs, NEW j \in Jobs, InTurn(i), InTurn(j)
    PROVE  i = j
  BY DEF Turns

\* A job that enters has its turn alone.
LEMMA Enters ==
    ASSUME TInv, BInv, mishaps = 0, NEW j \in Jobs, Acquire(j), NEW s, NEW k, NEW a, Proceed(j, s, k, a)
    PROVE  /\ \A i \in Jobs : InTurn(i)' => i = j
           /\ Turns'
<1>1. \A i \in Jobs : ~InTurn(i)
  BY NobodyInTurn DEF Acquire, BInv
<1>2. \A i \in Jobs : i # j => job'[i] = job[i]
  BY DEF Proceed, TInv, TypeOK
<1>3. \A i \in Jobs : InTurn(i)' => i = j
  BY <1>1, <1>2 DEF InTurn
<1> QED
  BY <1>3 DEF Acquire, Turns

\* A job that leaves was in turn alone.
LEMMA Leaves ==
    ASSUME TInv, BInv, mishaps = 0, NEW j \in Jobs, InTurn(j), job' = [job EXCEPT ![j] = NoJob]
    PROVE  \A i \in Jobs : ~InTurn(i)'
<1>1. \A i \in Jobs : i # j => job'[i] = job[i] /\ ~InTurn(i)
  BY Alone DEF BInv, TInv, TypeOK
<1>2. job'[j] = NoJob
  BY DEF TInv, TypeOK
<1> QED
  BY <1>1, <1>2 DEF InTurn, NoJob

\* A job goes on, or leaves, within its turn.
LEMMA GoesOn ==
    ASSUME TInv, BInv, NEW j \in Jobs, InTurn(j), NEW s, NEW k, NEW a, Proceed(j, s, k, a),
           UNCHANGED locks, mishaps' = 0 => mishaps = 0
    PROVE  Turns'
<1>1. \A i \in Jobs : i # j => job'[i] = job[i]
  BY DEF Proceed, TInv, TypeOK
<1> QED
  BY <1>1 DEF Turns, BInv, InTurn, locks

LEMMA BInit == ASSUME Init PROVE BInv
<1>1. \A j \in Jobs : job[j].step = "idle"
  BY DEF Init, NoJob
<1> QED
  BY <1>1, JobsAre DEF BInv, Turns, SessionKept, InTurn

LEMMA BStepRefresh ==
    ASSUME TInv, BInv, NEW t \in Tabs, RefreshStep(t) \/ ServerFails(t) \/ AnswerIsLost(t)
    PROVE  BInv'
<1> DEFINE j == <<t, "refresh">>
<1>a. /\ j \in Jobs /\ \A u \in Tabs : <<u, "refresh">> \in Jobs
      /\ \A u \in Tabs : <<u, "refresh">> = j <=> u = t
  BY JobsAre
<1>b. DOMAIN job = Jobs
  BY DEF TInv, TypeOK
<1>c. mishaps' = 0 => mishaps = 0
  BY ConstantsOK DEF RefreshStep, EnterRefresh, ServerRefreshes, StoreTokens, SignOut, KeepOther, LeaveRefresh,
     ServerFails, AnswerIsLost, counts, TInv, TypeOK
<1> HIDE DEF j
<1> SUFFICES ASSUME mishaps = 0, mishaps' = 0 PROVE BInv'
  BY <1>c DEF BInv, Turns, SessionKept
<1>1. CASE EnterRefresh(t)
  <2>1. /\ Acquire(j) /\ UNCHANGED store
        /\ \/ Proceed(j, "leaving", 0, Refreshed)
           \/ Proceed(j, "leaving", 0, NotRefreshed)
           \/ Proceed(j, "asked", store, 0) /\ store # 0
    BY <1>1 DEF EnterRefresh, Rehydrate, j
  <2>2. Turns' /\ \A i \in Jobs : InTurn(i)' => i = j
    BY <2>1, <1>a, Enters
  <2>3. SessionKept'
    BY <2>1, <2>2, <1>a, <1>b DEF SessionKept, InTurn, Proceed
  <2> QED
    BY <2>2, <2>3 DEF BInv
<1>2. CASE ServerRefreshes(t)
  <2>1. /\ InTurn(j) /\ job[j].step = "asked" /\ UNCHANGED <<store, locks>>
        /\ \E k, a : Proceed(j, "answered", k, a)
    BY <1>2 DEF ServerRefreshes, InTurn, j
  <2>2. Turns'
    BY <2>1, <1>a, GoesOn
  <2>3. SessionKept'
    BY <2>1, <1>a, <1>b DEF BInv, SessionKept, Proceed
  <2> QED
    BY <2>2, <2>3 DEF BInv
<1>3. CASE StoreTokens(t) \/ SignOut(t) \/ KeepOther(t) \/ ServerFails(t) \/ AnswerIsLost(t)
  <2>1. /\ InTurn(j) /\ UNCHANGED locks
        /\ \E a : Proceed(j, "leaving", 0, a)
    BY <1>3 DEF StoreTokens, SignOut, KeepOther, ServerFails, AnswerIsLost, TokenRefused, InTurn, j
  <2>2. Turns'
    BY <2>1, <1>a, GoesOn
  <2>3. \A u \in Tabs : job'[<<u, "refresh">>].step \notin {"asked", "answered"}
    <3> TAKE u \in Tabs
    <3>1. CASE u = t
      BY <3>1, <2>1, <1>a, <1>b DEF Proceed, j
    <3>2. CASE u # t
      <4>1. job'[<<u, "refresh">>] = job[<<u, "refresh">>] /\ <<u, "refresh">> # j
        BY <3>2, <2>1, <1>a, <1>b DEF Proceed
      <4>2. ~InTurn(<<u, "refresh">>)
        BY <4>1, <2>1, <1>a, Alone DEF BInv
      <4> QED
        BY <4>1, <4>2 DEF InTurn
    <3> QED
      BY <3>1, <3>2
  <2> QED
    BY <2>2, <2>3 DEF BInv, SessionKept
<1>4. CASE LeaveRefresh(t)
  <2>1. InTurn(j) /\ job' = [job EXCEPT ![j] = NoJob]
    BY <1>4 DEF LeaveRefresh, InTurn, j
  <2>2. \A i \in Jobs : ~InTurn(i)'
    BY <2>1, <1>a, Leaves
  <2> QED
    BY <2>2, <1>a DEF BInv, Turns, SessionKept, InTurn
<1> QED
  BY <1>1, <1>2, <1>3, <1>4 DEF RefreshStep

\* A step after which the same jobs are in turn, or fewer.
LEMMA BKept ==
    ASSUME BInv, UNCHANGED locks, store' = 0 => store = 0, mishaps' = 0 => mishaps = 0,
           \A i \in Jobs : job'[i] = job[i] \/ job'[i].step \in {"idle", "waiting"}
    PROVE  BInv'
  BY JobsAre DEF BInv, Turns, SessionKept, InTurn, locks

LEMMA BStep == ASSUME TInv, BInv, [Next]_vars PROVE BInv'
<1>a. DOMAIN job = Jobs
  BY DEF TInv, TypeOK
<1>b. mishaps' = 0 => mishaps = 0
  BY MishapsStay
<1>1. ASSUME NEW t \in Tabs, RefreshStep(t) \/ ServerFails(t) \/ AnswerIsLost(t) PROVE BInv'
  BY <1>1, BStepRefresh
<1>2. ASSUME NEW t \in Tabs, EnterLogout(t) PROVE BInv'
  <2> SUFFICES ASSUME mishaps = 0 PROVE BInv'
    BY <1>b DEF BInv, Turns, SessionKept
  <2> DEFINE j == <<t, "logout">>
  <2>1. j \in Jobs /\ \A u \in Tabs : <<u, "refresh">> # j /\ <<u, "refresh">> \in Jobs
    BY JobsAre
  <2>2. Acquire(j) /\ \E s, k, a : Proceed(j, s, k, a)
    BY <1>2 DEF EnterLogout
  <2> HIDE DEF j
  <2>3. Turns' /\ \A i \in Jobs : InTurn(i)' => i = j
    BY <2>1, <2>2, Enters
  <2> QED
    BY <2>1, <2>3 DEF BInv, SessionKept, InTurn
<1>3. ASSUME NEW t \in Tabs, LeaveLogout(t) PROVE BInv'
  <2> SUFFICES ASSUME mishaps = 0 PROVE BInv'
    BY <1>b DEF BInv, Turns, SessionKept
  <2> DEFINE j == <<t, "logout">>
  <2>1. j \in Jobs /\ InTurn(j) /\ job' = [job EXCEPT ![j] = NoJob]
    BY <1>3, JobsAre DEF LeaveLogout, InTurn
  <2> HIDE DEF j
  <2>2. \A i \in Jobs : ~InTurn(i)'
    BY <2>1, Leaves
  <2> QED
    BY <2>2, JobsAre DEF BInv, Turns, SessionKept, InTurn
<1>4. ASSUME NEW t \in Tabs,
             \/ StorageEvent(t) \/ TakeGrant(t) \/ ChangePassword(t) \/ Logout(t) \/ CloseTab(t)
             \/ \E u \in Users : SignIn(t, u)
      PROVE  BInv'
  <2>1. UNCHANGED locks
    BY <1>4 DEF StorageEvent, TakeGrant, ChangePassword, Logout, CloseTab, SignIn
  <2>2. store' = 0 => store = 0
    BY <1>4 DEF StorageEvent, TakeGrant, Write, ChangePassword, Logout, CloseTab, SignIn
  <2>3. \A i \in Jobs : job'[i] = job[i] \/ job'[i].step \in {"idle", "waiting"}
    BY <1>4, <1>a, JobsAre DEF StorageEvent, TakeGrant, ChangePassword, Logout, Wait, CloseTab, SignIn, NoJob
  <2> QED
    BY <2>1, <2>2, <2>3, <1>b, BKept
<1>5. ASSUME NEW r \in Requests, Send(r) \/ CallStep(r) PROVE BInv'
  <2>1. UNCHANGED <<locks, store>>
    BY <1>5 DEF Send, CallStep, Answered, Rejected, RejectedAgain
  <2>2. \A i \in Jobs : job'[i] = job[i] \/ job'[i].step \in {"idle", "waiting"}
    BY <1>5, <1>a DEF Send, CallStep, Answered, Rejected, RejectedAgain, Wait
  <2> QED
    BY <2>1, <2>2, <1>b, BKept
<1>6. ASSUME NEW n \in 1..Len(pairs), Expire(n) PROVE BInv'
  BY <1>6, <1>b, BKept DEF Expire
<1>7. CASE LeaseRunsOut \/ LeaseOverrun \/ \E j \in Jobs : Renew(j)
  BY <1>7, <1>b, ConstantsOK
     DEF LeaseRunsOut, LeaseOverrun, Renew, BInv, Turns, SessionKept, InTurn, TInv, TypeOK
<1>8. CASE UNCHANGED vars
  BY <1>8, <1>b, BKept DEF vars, locks
<1> QED
  BY <1>1, <1>2, <1>3, <1>4, <1>5, <1>6, <1>7, <1>8 DEF Next, LogoutStep

-----------------------------------------------------------------------------
(* Sessions.  A pair that the browser holds, or has on its way, can be     *)
(* renewed unless its session is over, but for the one that has just been: *)
(* its tab has the answer, and the turn.                                   *)

\* The session of pair n is over.
Dead(n) == \A m \in live : pairs[m].session # pairs[n].session

Good(n) == n \in live \/ Dead(n)

Renewal(t) == job[<<t, "refresh">>]

SessionsOK ==
    /\ \A n \in 1..Len(pairs) : pairs[n].session <= Len(pairs)
    /\ \A m, n \in 1..Len(pairs) :
        pairs[m].session = pairs[n].session => pairs[m].user = pairs[n].user

\* A granted pair is nowhere else until it is stored.
GrantsOK ==
    \A t \in Tabs : grant[t] # 0 =>
        /\ Good(grant[t])
        /\ grant[t] # store
        /\ \A u \in Tabs :
            /\ u # t => grant[u] # grant[t]
            /\ Renewal(u).step \in {"asked", "answered"} =>
                    Renewal(u).token # grant[t] /\ Renewal(u).answer # grant[t]

PairsGood ==
    mishaps = 0 =>
        /\ \A t \in Tabs :
            /\ Renewal(t).step \in {"asked", "answered"} => Renewal(t).token # 0
            /\ Renewal(t).step = "asked" => Good(Renewal(t).token)
            /\ Renewal(t).step = "answered" /\ Renewal(t).answer > 0 => Good(Renewal(t).answer)
            /\ Renewal(t).step = "answered" /\ Renewal(t).answer = NotRefreshed => Dead(Renewal(t).token)
        /\ store # 0 =>
            \/ Good(store)
            \/ \E t \in Tabs :
                Renewal(t).step = "answered" /\ Renewal(t).answer > 0 /\ Renewal(t).token = store

CInv == SessionsOK /\ GrantsOK /\ PairsGood

\* A set of pairs that has all of a session or nothing of it.
Whole(E) ==
    /\ E \subseteq 1..Len(pairs)
    /\ \A m \in E, n \in 1..Len(pairs) : pairs[m].session = pairs[n].session => n \in E

LEMMA EndedStaysGood ==
    ASSUME TypeOK, NEW E, Whole(E), pairs' = pairs, live' = live \ E, NEW n \in 1..Len(pairs)
    PROVE  (Good(n) => Good(n)') /\ (Dead(n) => Dead(n)')
<1>1. live \subseteq 1..Len(pairs)
  BY DEF TypeOK
<1>2. Dead(n) => Dead(n)'
  BY DEF Dead
<1>3. n \in live /\ n \in E => Dead(n)'
  BY <1>1 DEF Dead, Whole
<1> QED
  BY <1>2, <1>3 DEF Good

LEMMA GrantedStaysGood ==
    ASSUME TypeOK, SessionsOK, NEW E, Whole(E), NEW u \in Users,
           pairs' = Append(pairs, [user |-> u, session |-> Len(pairs) + 1]),
           live' = (live \ E) \cup {Len(pairs) + 1}
    PROVE  /\ \A n \in 1..Len(pairs) : (Good(n) => Good(n)') /\ (Dead(n) => Dead(n)')
           /\ SessionsOK'
<1> DEFINE new == Len(pairs) + 1
<1>1. Len(pairs) \in Nat /\ live \subseteq 1..Len(pairs)
  BY DEF TypeOK
<1>2. [user |-> u, session |-> new] \in [user : Users, session : Nat]
  BY <1>1
<1>3. /\ Len(pairs') = new
      /\ \A i \in 1..Len(pairs) : pairs'[i] = pairs[i]
      /\ pairs'[new].session = new
  BY <1>2, Issued
<1>4. \A i \in 1..Len(pairs) : pairs[i].session \in Nat /\ pairs[i].session # new
  BY <1>1, PairsAre DEF SessionsOK
<1>5. ASSUME NEW n \in 1..Len(pairs), Dead(n) PROVE Dead(n)'
  BY <1>1, <1>3, <1>4, <1>5 DEF Dead
<1>6. ASSUME NEW n \in 1..Len(pairs), n \in live, n \in E PROVE Dead(n)'
  <2> SUFFICES ASSUME NEW m \in live' PROVE pairs'[m].session # pairs'[n].session
    BY DEF Dead
  <2>1. CASE m = new
    BY <2>1, <1>3, <1>4
  <2>2. CASE m \in live /\ m \notin E
    BY <2>2, <1>1, <1>3, <1>6 DEF Whole
  <2> QED
    BY <2>1, <2>2
<1>7. SessionsOK'
  <2>1. 1..new = 1..Len(pairs) \cup {new} /\ new \in Nat
    BY <1>1
  <2>2. \A i \in 1..new : pairs'[i].session <= new
    BY <2>1, <1>1, <1>3, <1>4 DEF SessionsOK
  <2>3. \A m, n \in 1..new : pairs'[m].session = pairs'[n].session => pairs'[m].user = pairs'[n].user
    BY <2>1, <1>3, <1>4 DEF SessionsOK
  <2> QED
    BY <1>3, <2>2, <2>3 DEF SessionsOK
<1> QED
  BY <1>5, <1>6, <1>7 DEF Good

LEMMA RenewedStaysGood ==
    ASSUME TypeOK, SessionsOK, NEW k \in live,
           pairs' = Append(pairs, pairs[k]),
           live' = (live \ {k}) \cup {Len(pairs) + 1}
    PROVE  /\ \A n \in 1..Len(pairs) : (Good(n) /\ n # k => Good(n)') /\ (Dead(n) => Dead(n)')
           /\ SessionsOK'
<1> DEFINE new == Len(pairs) + 1
<1>1. Len(pairs) \in Nat /\ live \subseteq 1..Len(pairs) /\ k \in 1..Len(pairs)
  BY DEF TypeOK
<1>2. pairs[k] \in [user : Users, session : Nat]
  BY <1>1, PairsAre
<1>3. /\ Len(pairs') = new
      /\ \A i \in 1..Len(pairs) : pairs'[i] = pairs[i]
      /\ pairs'[new] = pairs[k]
  BY <1>2, Issued
<1>4. ASSUME NEW n \in 1..Len(pairs), Dead(n) PROVE Dead(n)'
  <2> SUFFICES ASSUME NEW m \in live' PROVE pairs'[m].session # pairs'[n].session
    BY DEF Dead
  <2>1. CASE m = new
    BY <2>1, <1>3, <1>4 DEF Dead
  <2>2. CASE m \in live
    BY <2>2, <1>1, <1>3, <1>4 DEF Dead
  <2> QED
    BY <2>1, <2>2
<1>5. SessionsOK'
  <2>1. 1..new = 1..Len(pairs) \cup {new} /\ new \in Nat
    BY <1>1
  <2>2. \A i \in 1..Len(pairs) : pairs[i].session \in Nat
    BY PairsAre
  <2>3. \A i \in 1..new : pairs'[i].session <= new
    BY <2>1, <2>2, <1>1, <1>3 DEF SessionsOK
  <2>4. \A m, n \in 1..new : pairs'[m].session = pairs'[n].session => pairs'[m].user = pairs'[n].user
    BY <2>1, <1>1, <1>3 DEF SessionsOK
  <2> QED
    BY <1>3, <2>3, <2>4 DEF SessionsOK
<1> QED
  BY <1>4, <1>5 DEF Good

LEMMA RenewalsAre ==
    ASSUME TypeOK, NEW t \in Tabs
    PROVE  /\ <<t, "refresh">> \in Jobs /\ Renewal(t) \in JobsUpTo(Len(pairs))
           /\ Renewal(t).token \in 0..Len(pairs) /\ Renewal(t).answer \in -3..Len(pairs)
           /\ Renewal(t).token # 0 => Renewal(t).token \in 1..Len(pairs)
           /\ Renewal(t).answer > 0 => Renewal(t).answer \in 1..Len(pairs)
           /\ Renewal(t).step \in Steps
<1>1. <<t, "refresh">> \in Jobs
  BY JobsAre
<1>2. Renewal(t) \in JobsUpTo(Len(pairs)) /\ Len(pairs) \in Nat
  BY <1>1 DEF TypeOK, Renewal
<1>3. Renewal(t).token \in 0..Len(pairs) /\ Renewal(t).answer \in -3..Len(pairs) /\ Renewal(t).step \in Steps
  BY <1>2 DEF JobsUpTo
<1> QED
  BY <1>1, <1>2, <1>3

LEMMA CInit == ASSUME Init PROVE CInv
<1>1. PICK u \in Users : pairs = <<[user |-> u, session |-> 1]>>
  BY DEF Init
<1>2. Len(pairs) = 1 /\ pairs[1].session = 1
  BY <1>1
<1>3. SessionsOK
  BY <1>2 DEF SessionsOK
<1>4. GrantsOK
  BY DEF Init, GrantsOK
<1>5. \A t \in Tabs : Renewal(t).step = "idle"
  BY JobsAre DEF Init, NoJob, Renewal
<1>6. Good(store)
  BY DEF Init, Good
<1> QED
  BY <1>3, <1>4, <1>5, <1>6 DEF CInv, PairsGood

\* A step that issues no pair, ends whole sessions or none, and stores nothing.
LEMMA CQuiet ==
    ASSUME TInv, CInv, NEW E, Whole(E), pairs' = pairs, live' = live \ E,
           store' \in {store, 0}, mishaps' = 0 => mishaps = 0,
           \A t \in Tabs : grant'[t] \in {grant[t], 0},
           \A t \in Tabs : Renewal(t)' = Renewal(t) \/ Renewal(t)'.step \notin {"asked", "answered"},
           mishaps' = 0 =>
                \A t \in Tabs : Renewal(t).step = "answered" /\ Renewal(t).answer > 0
                                    => Renewal(t)' = Renewal(t) \/ store' = 0
    PROVE  CInv'
<1>1. \A n \in 1..Len(pairs) : (Good(n) => Good(n)') /\ (Dead(n) => Dead(n)')
  BY EndedStaysGood DEF TInv
<1>2. SessionsOK'
  BY DEF CInv, SessionsOK
<1>3. \A t \in Tabs : grant[t] \in 0..Len(pairs) /\ grant'[t] \in 0..Len(pairs)
  BY DEF TInv, TypeOK
<1>4. GrantsOK'
  <2> SUFFICES ASSUME NEW t \in Tabs, grant'[t] # 0
               PROVE  /\ Good(grant[t])' /\ grant'[t] # store'
                      /\ \A u \in Tabs :
                            /\ u # t => grant'[u] # grant'[t]
                            /\ Renewal(u)'.step \in {"asked", "answered"} =>
                                Renewal(u)'.token # grant'[t] /\ Renewal(u)'.answer # grant'[t]
    BY DEF GrantsOK
  <2>1. grant'[t] = grant[t] /\ grant[t] # 0 /\ grant[t] \in 1..Len(pairs)
    BY <1>3
  <2>2. /\ Good(grant[t]) /\ grant[t] # store
        /\ \A u \in Tabs :
            /\ u # t => grant[u] # grant[t]
            /\ Renewal(u).step \in {"asked", "answered"} =>
                Renewal(u).token # grant[t] /\ Renewal(u).answer # grant[t]
    BY <2>1 DEF CInv, GrantsOK
  <2>3. Good(grant[t])'
    BY <2>1, <2>2, <1>1 DEF Good, Dead
  <2> QED
    BY <2>1, <2>2, <2>3
<1>5. PairsGood'
  <2> SUFFICES ASSUME mishaps = 0, mishaps' = 0 PROVE PairsGood'
    BY DEF PairsGood
  <2>1. ASSUME NEW t \in Tabs
        PROVE  /\ Renewal(t)'.step \in {"asked", "answered"} => Renewal(t)'.token # 0
               /\ Renewal(t)'.step = "asked" => Good(Renewal(t).token)'
               /\ Renewal(t)'.step = "answered" /\ Renewal(t)'.answer > 0 => Good(Renewal(t).answer)'
               /\ Renewal(t)'.step = "answered" /\ Renewal(t)'.answer = NotRefreshed
                    => Dead(Renewal(t).token)'
    <3>1. CASE Renewal(t)'.step \notin {"asked", "answered"}
      BY <3>1
    <3>2. CASE Renewal(t)' = Renewal(t) /\ Renewal(t).step \in {"asked", "answered"}
      <4>1. Renewal(t).token \in 1..Len(pairs)
        <5>1. Renewal(t).token # 0
          BY <3>2 DEF CInv, PairsGood
        <5> QED
          BY <5>1, RenewalsAre DEF TInv
      <4>2. Renewal(t).answer > 0 => Renewal(t).answer \in 1..Len(pairs)
        BY RenewalsAre DEF TInv
      <4>3. /\ Renewal(t).step = "asked" => Good(Renewal(t).token)
            /\ Renewal(t).step = "answered" /\ Renewal(t).answer > 0 => Good(Renewal(t).answer)
            /\ Renewal(t).step = "answered" /\ Renewal(t).answer = NotRefreshed => Dead(Renewal(t).token)
        BY DEF CInv, PairsGood
      <4> QED
        BY <3>2, <4>1, <4>2, <4>3, <1>1 DEF Good, Dead
    <3> QED
      BY <3>1, <3>2
  <2>2. ASSUME store' # 0
        PROVE  \/ Good(store)'
               \/ \E t \in Tabs :
                    Renewal(t)'.step = "answered" /\ Renewal(t)'.answer > 0 /\ Renewal(t)'.token = store'
    <3>1. store' = store /\ store \in 1..Len(pairs)
      BY <2>2 DEF TInv, TypeOK
    <3>2. CASE Good(store)
      BY <3>1, <3>2, <1>1 DEF Good, Dead
    <3>3. ASSUME NEW t \in Tabs,
                 Renewal(t).step = "answered", Renewal(t).answer > 0, Renewal(t).token = store
          PROVE  Renewal(t)' = Renewal(t)
      BY <2>2, <3>3
    <3> QED
      BY <3>1, <3>2, <3>3 DEF CInv, PairsGood
  <2> QED
    BY <2>1, <2>2 DEF PairsGood
<1> QED
  BY <1>2, <1>4, <1>5 DEF CInv

LEMMA RenewalProceeds ==
    ASSUME TypeOK, NEW t \in Tabs, NEW s, NEW k, NEW a, Proceed(<<t, "refresh">>, s, k, a)
    PROVE  /\ Renewal(t)'.step = s /\ Renewal(t)'.token = k /\ Renewal(t)'.answer = a
           /\ \A u \in Tabs : u # t => Renewal(u)' = Renewal(u)
  BY JobsAre DEF Proceed, Renewal, TypeOK

LEMMA NothingEnds ==
    /\ Whole({})
    /\ \A S : S = S \ {}
  BY DEF Whole

\* The tab leaves its turn without a pair, or before it has asked.
LEMMA CLeaving ==
    ASSUME TInv, CInv, NEW t \in Tabs, NEW a, Proceed(<<t, "refresh">>, "leaving", 0, a),
           UNCHANGED <<pairs, live, grant>>, store' \in {store, 0}, mishaps' = 0 => mishaps = 0,
           mishaps' = 0 => ~(Renewal(t).step = "answered" /\ Renewal(t).answer > 0)
    PROVE  CInv'
<1>1. Renewal(t)'.step = "leaving" /\ \A u \in Tabs : u # t => Renewal(u)' = Renewal(u)
  BY RenewalProceeds DEF TInv
<1> QED
  BY <1>1, CQuiet, NothingEnds

LEMMA CEnterRefresh == ASSUME TInv, BInv, CInv, NEW t \in Tabs, EnterRefresh(t) PROVE CInv'
<1> DEFINE j == <<t, "refresh">>
<1>1. /\ Renewal(t).step = "waiting" /\ Acquire(j)
      /\ UNCHANGED <<pairs, live, store, grant, mishaps>>
      /\ \/ \E a : Proceed(j, "leaving", 0, a)
         \/ Proceed(j, "asked", store, 0) /\ store # 0
  BY DEF EnterRefresh, Rehydrate, server, counts, Renewal
<1>2. CASE \E a : Proceed(j, "leaving", 0, a)
  BY <1>1, <1>2, CLeaving
<1>3. CASE Proceed(j, "asked", store, 0) /\ store # 0
  <2>1. /\ Renewal(t)'.step = "asked" /\ Renewal(t)'.token = store /\ Renewal(t)'.answer = 0
        /\ \A u \in Tabs : u # t => Renewal(u)' = Renewal(u)
    BY <1>3, RenewalProceeds DEF TInv
  <2>2. SessionsOK'
    BY <1>1 DEF CInv, SessionsOK
  <2>3. GrantsOK'
    BY <2>1, <1>1 DEF CInv, GrantsOK, Good, Dead
  <2>4. PairsGood'
    <3> SUFFICES ASSUME mishaps = 0 PROVE PairsGood'
      BY <1>1 DEF PairsGood
    <3>1. \A u \in Tabs : Renewal(u).step \notin {"asked", "answered"}
      <4>1. \A i \in Jobs : ~InTurn(i)
        BY <1>1, NobodyInTurn DEF Acquire, BInv
      <4> QED
        BY <4>1, JobsAre DEF InTurn, Renewal
    <3>2. Good(store)
      BY <3>1, <1>3 DEF CInv, PairsGood
    <3> QED
      BY <3>1, <3>2, <2>1, <1>1, <1>3 DEF PairsGood, Good, Dead
  <2> QED
    BY <2>2, <2>3, <2>4 DEF CInv
<1> QED
  BY <1>1, <1>2, <1>3

LEMMA CServerRefreshes == ASSUME TInv, BInv, CInv, NEW t \in Tabs, ServerRefreshes(t) PROVE CInv'
<1> DEFINE j == <<t, "refresh">>
           k == Renewal(t).token
           new == Len(pairs) + 1
<1>1. /\ Renewal(t).step = "asked"
      /\ UNCHANGED <<store, grant, mishaps>>
      /\ \/ /\ k \in live /\ pairs' = Append(pairs, pairs[k])
            /\ live' = (live \ {k}) \cup {new}
            /\ Proceed(j, "answered", k, new)
         \/ k \notin live /\ UNCHANGED <<pairs, live>> /\ Proceed(j, "answered", k, NotRefreshed)
  BY DEF ServerRefreshes, server, counts, Renewal
<1>2. Len(pairs) \in Nat /\ store \in 0..Len(pairs) /\ \A u \in Tabs : grant[u] \in 0..Len(pairs)
  BY DEF TInv, TypeOK
<1>3. mishaps = 0 => \A u \in Tabs : u # t => Renewal(u).step \notin {"asked", "answered"}
  <2> SUFFICES ASSUME mishaps = 0, NEW u \in Tabs, u # t PROVE Renewal(u).step \notin {"asked", "answered"}
    OBVIOUS
  <2>1. InTurn(j) /\ j \in Jobs /\ <<u, "refresh">> \in Jobs /\ <<u, "refresh">> # j
    BY <1>1, JobsAre DEF InTurn, Renewal
  <2>2. ~InTurn(<<u, "refresh">>)
    BY <2>1, Alone DEF BInv
  <2> QED
    BY <2>2 DEF InTurn, Renewal
<1>4. \A u \in Tabs : grant[u] # 0 =>
        grant[u] \in 1..Len(pairs) /\ Good(grant[u]) /\ grant[u] # k /\ grant[u] # store
  BY <1>1, <1>2 DEF CInv, GrantsOK
<1>5. mishaps = 0 => k # 0 /\ Good(k)
  BY <1>1 DEF CInv, PairsGood
<1>6. NotRefreshed \notin Nat
  BY DEF NotRefreshed
<1> HIDE DEF k, new
<1>7. CASE k \notin live /\ UNCHANGED <<pairs, live>> /\ Proceed(j, "answered", k, NotRefreshed)
  <2>1. /\ Renewal(t)'.step = "answered" /\ Renewal(t)'.token = k /\ Renewal(t)'.answer = NotRefreshed
        /\ \A u \in Tabs : u # t => Renewal(u)' = Renewal(u)
    BY <1>7, RenewalProceeds DEF TInv
  <2>2. SessionsOK'
    BY <1>7 DEF CInv, SessionsOK
  <2>3. GrantsOK'
    BY <2>1, <1>1, <1>4, <1>6, <1>7, <1>2 DEF CInv, GrantsOK, Good, Dead
  <2>4. PairsGood'
    <3> SUFFICES ASSUME mishaps = 0 PROVE PairsGood'
      BY <1>1 DEF PairsGood
    <3>1. Dead(k)
      BY <1>5, <1>7 DEF Good
    <3>2. store # 0 => Good(store)
      BY <1>3, <1>1 DEF CInv, PairsGood
    <3>3. ~(NotRefreshed > 0)
      BY DEF NotRefreshed
    <3> QED
      BY <3>1, <3>2, <3>3, <2>1, <1>1, <1>3, <1>5, <1>7 DEF PairsGood, Good, Dead
  <2> QED
    BY <2>2, <2>3, <2>4 DEF CInv
<1>8. CASE k \in live /\ pairs' = Append(pairs, pairs[k]) /\ live' = (live \ {k}) \cup {new}
           /\ Proceed(j, "answered", k, new)
  <2>1. /\ Renewal(t)'.step = "answered" /\ Renewal(t)'.token = k /\ Renewal(t)'.answer = new
        /\ \A u \in Tabs : u # t => Renewal(u)' = Renewal(u)
    BY <1>8, RenewalProceeds DEF TInv
  <2>2. /\ \A n \in 1..Len(pairs) : (Good(n) /\ n # k => Good(n)') /\ (Dead(n) => Dead(n)')
        /\ SessionsOK'
    BY <1>8, RenewedStaysGood DEF TInv, CInv, new
  <2>3. new \notin 0..Len(pairs) /\ new > 0
    BY <1>2 DEF new
  <2>4. \A u \in Tabs : grant[u] # 0 => Good(grant[u])'
    BY <2>2, <1>1, <1>4 DEF Good, Dead
  <2>5. GrantsOK'
    BY <2>1, <2>3, <2>4, <1>1, <1>2, <1>4 DEF CInv, GrantsOK
  <2>6. PairsGood'
    <3> SUFFICES ASSUME mishaps = 0 PROVE PairsGood'
      BY <1>1 DEF PairsGood
    <3>1. new \in live'
      BY <1>8
    <3>2. new # NotRefreshed
      BY <2>3, <1>2 DEF NotRefreshed
    <3>3. store # 0 /\ store # k => Good(store)'
      <4>1. store # 0 => Good(store) /\ store \in 1..Len(pairs)
        BY <1>1, <1>2, <1>3 DEF CInv, PairsGood
      <4> QED
        BY <4>1, <2>2, <1>1 DEF Good, Dead
    <3> QED
      BY <3>1, <3>2, <3>3, <2>1, <2>3, <1>1, <1>3, <1>5 DEF PairsGood, Good, Dead
  <2> QED
    BY <2>2, <2>5, <2>6 DEF CInv
<1> QED
  BY <1>1, <1>7, <1>8

\* A pair is stored that was on its way: an answer or a grant.
LEMMA CStored ==
    ASSUME TInv, CInv, UNCHANGED <<pairs, live>>, mishaps' = 0 => mishaps = 0,
           store' # 0, Good(store'),
           \A t \in Tabs : grant'[t] \in {grant[t], 0} \ {store'},
           \A t \in Tabs : Renewal(t)' = Renewal(t) \/ Renewal(t)'.step \notin {"asked", "answered"}
    PROVE  CInv'
<1>1. SessionsOK'
  BY DEF CInv, SessionsOK
<1>2. GrantsOK'
  <2> SUFFICES ASSUME NEW t \in Tabs, grant'[t] # 0
               PROVE  /\ Good(grant[t])' /\ grant'[t] # store'
                      /\ \A u \in Tabs :
                            /\ u # t => grant'[u] # grant'[t]
                            /\ Renewal(u)'.step \in {"asked", "answered"} =>
                                Renewal(u)'.token # grant'[t] /\ Renewal(u)'.answer # grant'[t]
    BY DEF GrantsOK
  <2>1. grant'[t] = grant[t] /\ grant[t] # 0 /\ grant'[t] # store'
    OBVIOUS
  <2>2. /\ Good(grant[t])
        /\ \A u \in Tabs :
            /\ u # t => grant[u] # grant[t]
            /\ Renewal(u).step \in {"asked", "answered"} =>
                Renewal(u).token # grant[t] /\ Renewal(u).answer # grant[t]
    BY <2>1 DEF CInv, GrantsOK
  <2>3. Good(grant[t])'
    BY <2>1, <2>2 DEF Good, Dead
  <2> QED
    BY <2>1, <2>2, <2>3
<1>3. PairsGood'
  <2> SUFFICES ASSUME mishaps = 0 PROVE PairsGood'
    BY DEF PairsGood
  <2>1. ASSUME NEW t \in Tabs
        PROVE  /\ Renewal(t)'.step \in {"asked", "answered"} => Renewal(t)'.token # 0
               /\ Renewal(t)'.step = "asked" => Good(Renewal(t).token)'
               /\ Renewal(t)'.step = "answered" /\ Renewal(t)'.answer > 0 => Good(Renewal(t).answer)'
               /\ Renewal(t)'.step = "answered" /\ Renewal(t)'.answer = NotRefreshed
                    => Dead(Renewal(t).token)'
    <3>1. CASE Renewal(t)'.step \notin {"asked", "answered"}
      BY <3>1
    <3>2. CASE Renewal(t)' = Renewal(t)
      BY <3>2 DEF CInv, PairsGood, Good, Dead
    <3> QED
      BY <3>1, <3>2
  <2>2. Good(store)'
    BY DEF Good, Dead
  <2> QED
    BY <2>1, <2>2 DEF PairsGood
<1> QED
  BY <1>1, <1>2, <1>3 DEF CInv

LEMMA CStoreTokens == ASSUME TInv, BInv, CInv, NEW t \in Tabs, StoreTokens(t) PROVE CInv'
<1>1. /\ Renewal(t).step = "answered" /\ Renewal(t).answer > 0 /\ store' = Renewal(t).answer
      /\ Proceed(<<t, "refresh">>, "leaving", 0, Refreshed)
      /\ UNCHANGED <<pairs, live, grant, mishaps>>
  BY DEF StoreTokens, Write, server, counts, Renewal
<1>2. Renewal(t)'.step = "leaving" /\ \A u \in Tabs : u # t => Renewal(u)' = Renewal(u)
  BY <1>1, RenewalProceeds DEF TInv
<1>3. store' \in 1..Len(pairs) /\ store' # 0
  BY <1>1, RenewalsAre DEF TInv
<1>4. \A u \in Tabs : grant[u] # store'
  BY <1>1, <1>3 DEF CInv, GrantsOK
<1>5. CASE mishaps = 0
  <2>1. Good(Renewal(t).answer)
    BY <1>1, <1>5 DEF CInv, PairsGood
  <2> QED
    BY <1>1, <1>2, <1>3, <1>4, <2>1, CStored
<1>6. CASE mishaps # 0
  <2>1. SessionsOK' /\ PairsGood'
    BY <1>1, <1>6 DEF CInv, SessionsOK, PairsGood
  <2>2. GrantsOK'
    BY <1>1, <1>2, <1>4 DEF CInv, GrantsOK, Good, Dead
  <2> QED
    BY <2>1, <2>2 DEF CInv
<1> QED
  BY <1>5, <1>6

LEMMA CTakeGrant == ASSUME TInv, CInv, NEW t \in Tabs, TakeGrant(t) PROVE CInv'
<1>1. /\ grant[t] # 0 /\ store' = grant[t] /\ grant' = [grant EXCEPT ![t] = 0]
      /\ UNCHANGED <<pairs, live, job, mishaps>>
  BY DEF TakeGrant, Write, server, counts
<1>2. \A u \in Tabs : grant'[u] \in {grant[u], 0} \ {store'}
  BY <1>1 DEF CInv, GrantsOK, TInv, TypeOK
<1>3. Good(store')
  BY <1>1 DEF CInv, GrantsOK
<1>4. \A u \in Tabs : Renewal(u)' = Renewal(u)
  BY <1>1 DEF Renewal
<1> QED
  BY <1>1, <1>2, <1>3, <1>4, CStored

\* A pair of a new session, on its way to the tab that asked for it.
LEMMA CGranted ==
    ASSUME TInv, CInv, NEW t \in Tabs, NEW u \in Users, NEW E, Whole(E), grant[t] = 0,
           pairs' = Append(pairs, [user |-> u, session |-> Len(pairs) + 1]),
           live' = (live \ E) \cup {Len(pairs) + 1},
           grant' = [grant EXCEPT ![t] = Len(pairs) + 1],
           UNCHANGED <<store, job, mishaps>>
    PROVE  CInv'
<1> DEFINE new == Len(pairs) + 1
<1>1. /\ \A n \in 1..Len(pairs) : (Good(n) => Good(n)') /\ (Dead(n) => Dead(n)')
      /\ SessionsOK'
  BY GrantedStaysGood DEF TInv, CInv
<1>2. /\ Len(pairs) \in Nat /\ store \in 0..Len(pairs)
      /\ \A v \in Tabs : grant[v] \in 0..Len(pairs)
      /\ grant'[t] = new /\ \A v \in Tabs : v # t => grant'[v] = grant[v]
  BY DEF TInv, TypeOK
<1>3. \A v \in Tabs : /\ Renewal(v)' = Renewal(v)
                      /\ Renewal(v).token \in 0..Len(pairs) /\ Renewal(v).answer \in -3..Len(pairs)
  BY RenewalsAre DEF TInv, Renewal
<1>4. new \notin 0..Len(pairs) /\ new \notin -3..Len(pairs)
  BY <1>2
<1>5. GrantsOK'
  <2> SUFFICES ASSUME NEW v \in Tabs, grant'[v] # 0
               PROVE  /\ Good(grant[v])' /\ grant'[v] # store'
                      /\ \A w \in Tabs :
                            /\ w # v => grant'[w] # grant'[v]
                            /\ Renewal(w)'.step \in {"asked", "answered"} =>
                                Renewal(w)'.token # grant'[v] /\ Renewal(w)'.answer # grant'[v]
    BY DEF GrantsOK
  <2>1. CASE v = t
    <3>1. grant'[v] = new /\ new \in live'
      BY <2>1, <1>2
    <3>2. Good(grant[v])'
      BY <3>1 DEF Good
    <3>3. \A w \in Tabs : w # v => grant'[w] # new
      BY <2>1, <1>2, <1>4
    <3>4. \A w \in Tabs : Renewal(w)'.token # new /\ Renewal(w)'.answer # new
      BY <1>3, <1>4
    <3>5. store' # new
      BY <1>2, <1>4
    <3> QED
      BY <3>1, <3>2, <3>3, <3>4, <3>5
  <2>2. CASE v # t
    <3>1. grant'[v] = grant[v] /\ grant[v] \in 1..Len(pairs)
      BY <2>2, <1>2
    <3>2. /\ Good(grant[v]) /\ grant[v] # store
          /\ \A w \in Tabs :
              /\ w # v => grant[w] # grant[v]
              /\ Renewal(w).step \in {"asked", "answered"} =>
                  Renewal(w).token # grant[v] /\ Renewal(w).answer # grant[v]
      BY <3>1 DEF CInv, GrantsOK
    <3>3. Good(grant[v])'
      <4>1. PICK n \in 1..Len(pairs) : n = grant[v]
        BY <3>1
      <4>2. Good(n)'
        BY <4>1, <3>2, <1>1
      <4> QED
        BY <4>1, <4>2, <3>1 DEF Good, Dead
    <3>4. ASSUME NEW w \in Tabs, w # v PROVE grant'[w] # grant'[v]
      <4>1. CASE w = t
        BY <4>1, <3>1, <1>2, <1>4
      <4>2. CASE w # t
        BY <4>2, <3>1, <3>2, <3>4, <1>2
      <4> QED
        BY <4>1, <4>2
    <3>5. ASSUME NEW w \in Tabs, Renewal(w)'.step \in {"asked", "answered"}
          PROVE  Renewal(w)'.token # grant'[v] /\ Renewal(w)'.answer # grant'[v]
      <4>1. Renewal(w)' = Renewal(w)
        BY <1>3
      <4> QED
        BY <4>1, <3>1, <3>2, <3>5
    <3>6. grant'[v] # store'
      BY <3>1, <3>2
    <3> QED
      BY <3>3, <3>4, <3>5, <3>6
  <2> QED
    BY <2>1, <2>2
<1>6. PairsGood'
  <2> SUFFICES ASSUME mishaps = 0 PROVE PairsGood'
    BY DEF PairsGood
  <2>1. ASSUME NEW v \in Tabs
        PROVE  /\ Renewal(v)'.step \in {"asked", "answered"} => Renewal(v)'.token # 0
               /\ Renewal(v)'.step = "asked" => Good(Renewal(v).token)'
               /\ Renewal(v)'.step = "answered" /\ Renewal(v)'.answer > 0 => Good(Renewal(v).answer)'
               /\ Renewal(v)'.step = "answered" /\ Renewal(v)'.answer = NotRefreshed
                    => Dead(Renewal(v).token)'
    <3>1. /\ Renewal(v).step \in {"asked", "answered"} => Renewal(v).token \in 1..Len(pairs)
          /\ Renewal(v).answer > 0 => Renewal(v).answer \in 1..Len(pairs)
      <4>1. Renewal(v).step \in {"asked", "answered"} => Renewal(v).token # 0
        BY DEF CInv, PairsGood
      <4> QED
        BY <4>1, RenewalsAre DEF TInv
    <3>2. /\ Renewal(v).step \in {"asked", "answered"} => Renewal(v).token # 0
          /\ Renewal(v).step = "asked" => Good(Renewal(v).token)
          /\ Renewal(v).step = "answered" /\ Renewal(v).answer > 0 => Good(Renewal(v).answer)
          /\ Renewal(v).step = "answered" /\ Renewal(v).answer = NotRefreshed => Dead(Renewal(v).token)
      BY DEF CInv, PairsGood
    <3>3. Renewal(v)' = Renewal(v)
      BY <1>3
    <3>4. ASSUME Renewal(v).step = "asked" PROVE Good(Renewal(v).token)'
      <4>1. PICK n \in 1..Len(pairs) : n = Renewal(v).token
        BY <3>1, <3>4
      <4>2. Good(n)'
        BY <4>1, <3>2, <3>4, <1>1
      <4> QED
        BY <4>1, <4>2, <3>3 DEF Good, Dead
    <3>5. ASSUME Renewal(v).step = "answered", Renewal(v).answer > 0 PROVE Good(Renewal(v).answer)'
      <4>1. PICK n \in 1..Len(pairs) : n = Renewal(v).answer
        BY <3>1, <3>5
      <4>2. Good(n)'
        BY <4>1, <3>2, <3>5, <1>1
      <4> QED
        BY <4>1, <4>2, <3>3 DEF Good, Dead
    <3>6. ASSUME Renewal(v).step = "answered", Renewal(v).answer = NotRefreshed
          PROVE  Dead(Renewal(v).token)'
      <4>1. PICK n \in 1..Len(pairs) : n = Renewal(v).token
        BY <3>1, <3>6
      <4>2. Dead(n)'
        BY <4>1, <3>2, <3>6, <1>1
      <4> QED
        BY <4>1, <4>2, <3>3 DEF Dead
    <3> QED
      BY <3>2, <3>3, <3>4, <3>5, <3>6
  <2>2. ASSUME store' # 0
        PROVE  \/ Good(store)'
               \/ \E v \in Tabs :
                    Renewal(v)'.step = "answered" /\ Renewal(v)'.answer > 0 /\ Renewal(v)'.token = store'
    <3>1. store \in 1..Len(pairs) /\ store' = store
      BY <2>2, <1>2
    <3>2. CASE Good(store)
      BY <3>1, <3>2, <1>1 DEF Good, Dead
    <3> QED
      BY <3>1, <3>2, <1>3 DEF CInv, PairsGood
  <2> QED
    BY <2>1, <2>2 DEF PairsGood
<1> QED
  BY <1>1, <1>5, <1>6 DEF CInv

LEMMA CGrants ==
    ASSUME TInv, CInv, NEW t \in Tabs, ChangePassword(t) \/ \E u \in Users : SignIn(t, u)
    PROVE  CInv'
<1>1. CASE ChangePassword(t)
  <2> DEFINE u == UserOf(mem[t])
             ended == {n \in 1..Len(pairs) : pairs[n].user = u}
  <2>1. mem[t] \in 1..Len(pairs) /\ mem[t] # 0
    BY <1>1 DEF ChangePassword, TInv, TypeOK
  <2>2. u \in Users
    BY <2>1, PairsAre DEF UserOf, TInv
  <2>3. Whole(ended)
    BY DEF CInv, SessionsOK, Whole
  <2>4. /\ grant[t] = 0 /\ pairs' = Append(pairs, [user |-> u, session |-> Len(pairs) + 1])
        /\ live' = (live \ ended) \cup {Len(pairs) + 1}
        /\ grant' = [grant EXCEPT ![t] = Len(pairs) + 1]
        /\ UNCHANGED <<store, job, mishaps>>
    BY <1>1 DEF ChangePassword, Issue, counts
  <2> HIDE DEF ended, u
  <2> QED
    BY <2>2, <2>3, <2>4, CGranted
<1>2. ASSUME NEW u \in Users, SignIn(t, u) PROVE CInv'
  <2>1. /\ grant[t] = 0 /\ pairs' = Append(pairs, [user |-> u, session |-> Len(pairs) + 1])
        /\ live' = (live \ {}) \cup {Len(pairs) + 1}
        /\ grant' = [grant EXCEPT ![t] = Len(pairs) + 1]
        /\ UNCHANGED <<store, job, mishaps>>
    BY <1>2 DEF SignIn, Issue, counts
  <2> QED
    BY <2>1, CGranted, NothingEnds
<1> QED
  BY <1>1, <1>2

LEMMA CStep == ASSUME TInv, BInv, CInv, [Next]_vars PROVE CInv'
<1>a. DOMAIN job = Jobs /\ DOMAIN grant = Tabs
  BY DEF TInv, TypeOK
<1>b. mishaps' = 0 => mishaps = 0
  BY MishapsStay
<1>1. ASSUME NEW t \in Tabs, RefreshStep(t) \/ ServerFails(t) \/ AnswerIsLost(t) PROVE CInv'
  <2>1. CASE SignOut(t) \/ KeepOther(t) \/ ServerFails(t) \/ AnswerIsLost(t)
    <3>1. /\ \E a : Proceed(<<t, "refresh">>, "leaving", 0, a)
          /\ UNCHANGED <<pairs, live, grant>> /\ store' \in {store, 0}
      BY <2>1 DEF SignOut, KeepOther, ServerFails, AnswerIsLost, Write, Rehydrate, server
    <3>2. mishaps' = 0 => ~(Renewal(t).step = "answered" /\ Renewal(t).answer > 0)
      <4>1. CASE SignOut(t) \/ KeepOther(t)
        BY <4>1 DEF SignOut, KeepOther, TokenRefused, NotRefreshed, Renewal
      <4>2. CASE ServerFails(t)
        BY <4>2 DEF ServerFails, Renewal
      <4>3. CASE AnswerIsLost(t)
        BY <4>3, ConstantsOK DEF AnswerIsLost, TInv, TypeOK
      <4> QED
        BY <2>1, <4>1, <4>2, <4>3
    <3> QED
      BY <3>1, <3>2, <1>b, CLeaving
  <2>2. CASE LeaveRefresh(t)
    <3>1. /\ Renewal(t).step = "leaving" /\ Renewal(t)'.step = "idle"
          /\ \A u \in Tabs : u # t => Renewal(u)' = Renewal(u)
      BY <2>2, <1>a, JobsAre DEF LeaveRefresh, Renewal, NoJob
    <3>2. UNCHANGED <<pairs, live, store, grant>>
      BY <2>2 DEF LeaveRefresh, server
    <3> QED
      BY <3>1, <3>2, <1>b, CQuiet, NothingEnds
  <2> QED
    BY <1>1, <2>1, <2>2, CEnterRefresh, CServerRefreshes, CStoreTokens DEF RefreshStep
<1>2. ASSUME NEW t \in Tabs, EnterLogout(t) PROVE CInv'
  <2>1. UNCHANGED <<pairs, live, grant>> /\ store' = 0
    BY <1>2 DEF EnterLogout, Write, server
  <2>2. \A u \in Tabs : Renewal(u)' = Renewal(u)
    BY <1>2, <1>a, JobsAre DEF EnterLogout, Proceed, Renewal
  <2> QED
    BY <2>1, <2>2, <1>b, CQuiet, NothingEnds
<1>3. ASSUME NEW t \in Tabs, LeaveLogout(t) PROVE CInv'
  <2> DEFINE k == job[<<t, "logout">>].token
             its == {n \in 1..Len(pairs) : k # 0 /\ pairs[n].session = pairs[k].session}
  <2>1. UNCHANGED <<pairs, store, grant>> /\ (live' = live \ {} \/ live' = live \ its)
    BY <1>3 DEF LeaveLogout
  <2>2. \A u \in Tabs : Renewal(u)' = Renewal(u)
    BY <1>3, <1>a, JobsAre DEF LeaveLogout, Renewal
  <2>3. Whole(its) /\ Whole({})
    BY NothingEnds DEF Whole
  <2> HIDE DEF its
  <2> QED
    BY <2>1, <2>2, <2>3, <1>b, CQuiet
<1>4. ASSUME NEW t \in Tabs, StorageEvent(t) \/ Logout(t) \/ CloseTab(t) PROVE CInv'
  <2>1. UNCHANGED <<pairs, live, store>> /\ \A u \in Tabs : grant'[u] \in {grant[u], 0}
    BY <1>4, <1>a DEF StorageEvent, Logout, CloseTab, server
  <2>2. \A u \in Tabs : Renewal(u)' = Renewal(u) \/ Renewal(u)'.step \notin {"asked", "answered"}
    <3>1. CASE StorageEvent(t)
      BY <3>1 DEF StorageEvent, Renewal
    <3>2. CASE Logout(t)
      BY <3>2, <1>a, JobsAre DEF Logout, Wait, Renewal
    <3>3. CASE CloseTab(t)
      BY <3>3, JobsAre DEF CloseTab, NoJob, Renewal
    <3> QED
      BY <1>4, <3>1, <3>2, <3>3
  <2>3. mishaps' = 0 =>
          \A u \in Tabs : Renewal(u).step = "answered" /\ Renewal(u).answer > 0 => Renewal(u)' = Renewal(u)
    <3>1. CASE StorageEvent(t) \/ Logout(t)
      BY <3>1, <1>a, JobsAre DEF StorageEvent, Logout, Wait, Renewal
    <3>2. CASE CloseTab(t)
      <4>1. \A u \in Tabs : u # t => Renewal(u)' = Renewal(u)
        BY <3>2, JobsAre DEF CloseTab, Renewal
      <4>2. Renewal(t).step = "answered" => mishaps' # 0
        BY <3>2, ConstantsOK DEF CloseTab, Renewal, TInv, TypeOK
      <4> QED
        BY <4>1, <4>2
    <3> QED
      BY <1>4, <3>1, <3>2
  <2> QED
    BY <2>1, <2>2, <2>3, <1>b, CQuiet, NothingEnds
<1>5. ASSUME UNCHANGED <<pairs, live, store, grant>>,
             \A u \in Tabs :
                \/ Renewal(u)' = Renewal(u)
                \/ Renewal(u).step = "idle" /\ Renewal(u)'.step = "waiting"
      PROVE  CInv'
  <2>1. store' \in {store, 0} /\ \A u \in Tabs : grant'[u] \in {grant[u], 0}
    BY <1>5
  <2>2. \A u \in Tabs : Renewal(u)' = Renewal(u) \/ Renewal(u)'.step \notin {"asked", "answered"}
    BY <1>5
  <2>3. \A u \in Tabs : Renewal(u).step = "answered" => Renewal(u)' = Renewal(u)
    BY <1>5
  <2>4. Whole({}) /\ live' = live \ {} /\ pairs' = pairs
    BY <1>5, NothingEnds
  <2> QED
    BY <2>1, <2>2, <2>3, <2>4, <1>b, CQuiet
<1>6. ASSUME NEW r \in Requests, Send(r) \/ CallStep(r) PROVE CInv'
  <2>1. UNCHANGED <<pairs, live, store, grant>>
    BY <1>6 DEF Send, CallStep, Answered, Rejected, RejectedAgain, server
  <2>2. ASSUME NEW u \in Tabs
        PROVE  \/ Renewal(u)' = Renewal(u)
               \/ Renewal(u).step = "idle" /\ Renewal(u)'.step = "waiting"
    <3>1. CASE UNCHANGED job
      BY <3>1 DEF Renewal
    <3>2. CASE /\ Rejected(r) /\ job[<<TabOf[r], "refresh">>].step = "idle"
               /\ Wait(<<TabOf[r], "refresh">>, req[r].pair)
      BY <3>2, <1>a, JobsAre, ConstantsOK DEF Wait, Renewal
    <3> QED
      BY <1>6, <3>1, <3>2 DEF Send, CallStep, Answered, Rejected, RejectedAgain
  <2> QED
    BY <2>1, <2>2, <1>5
<1>7. CASE \/ \E n \in 1..Len(pairs) : Expire(n)
           \/ LeaseRunsOut \/ LeaseOverrun \/ (\E j \in Jobs : Renew(j)) \/ UNCHANGED vars
  <2>1. UNCHANGED <<pairs, live, store, grant, job>>
    BY <1>7 DEF Expire, LeaseRunsOut, LeaseOverrun, Renew, server, vars
  <2> QED
    BY <2>1, <1>5 DEF Renewal
<1> QED
  BY <1>1, <1>2, <1>3, <1>4, <1>6, <1>7, CTakeGrant, CGrants DEF Next, LogoutStep

-----------------------------------------------------------------------------

IInv == TInv /\ BInv /\ CInv

LEMMA Invariants == Spec => []IInv
<1>1. Init => IInv
  BY TInit, BInit, CInit DEF IInv
<1>2. IInv /\ [Next]_vars => IInv'
  BY TStep, BStep, CStep DEF IInv
<1> QED
  BY <1>1, <1>2, PTL DEF Spec

\* Storage, tabs, calls and the lock stay well formed, and the pairs find numbers
\* (lib/api, lib/store/auth.ts).
THEOREM TypeCorrect == Spec => []TypeOK
<1>1. IInv => TypeOK
  BY DEF IInv, TInv
<1> QED
  BY <1>1, Invariants, PTL

\* The tabs take turns at the pair, however many wait, are closed or fail, unless a
\* lease ran out under a suspended tab (withIndexedDBLock).
THEOREM TabsTakeTurns == Spec => []LockIsExclusive
<1>1. IInv => LockIsExclusive
  BY Alone DEF IInv, BInv, LockIsExclusive
<1> QED
  BY <1>1, Invariants, PTL

\* A tab that is told that its refresh token does not work, and finds it stored still,
\* ends a session that is over at the server (refreshSessionWithLock).
THEOREM SignOutsEndDeadSessions == Spec => SignOutsAreWarranted
<1>1. ASSUME IInv, NEW t \in Tabs, SignOut(t)
      PROVE  mishaps > 0 \/ \A n \in live : pairs[n].session # pairs[store].session
  <2>1. mishaps \in Nat
    BY <1>1, ConstantsOK DEF IInv, TInv, TypeOK
  <2>2. CASE mishaps = 0
    <3>1. Renewal(t).step = "answered" /\ Renewal(t).answer = NotRefreshed /\ Renewal(t).token = store
      BY <1>1 DEF SignOut, TokenRefused, Renewal
    <3>2. Dead(store)
      BY <1>1, <2>2, <3>1 DEF IInv, CInv, PairsGood
    <3> QED
      BY <3>2 DEF Dead
  <2> QED
    BY <2>1, <2>2
<1>2. IInv => [\A t \in Tabs : SignOut(t) =>
                \/ mishaps > 0
                \/ \A n \in live : pairs[n].session # pairs[store].session]_vars
  BY <1>1
<1> QED
  BY <1>2, Invariants, PTL DEF SignOutsAreWarranted

\* Once the pair is gone from storage only a sign-in, or a password change that was on
\* its way, puts another there: no renewal does (logout in queryClient.ts).
THEOREM LogoutsStand == Spec => LogoutIsFinal
<1>1. ASSUME IInv, [Next]_vars, store = 0, store' # 0
      PROVE  mishaps > 0 \/ \E t \in Tabs : grant[t] = store'
  <2>1. mishaps \in Nat
    BY <1>1, ConstantsOK DEF IInv, TInv, TypeOK
  <2>2. ASSUME NEW t \in Tabs, StoreTokens(t) PROVE mishaps # 0
    BY <1>1, <2>2 DEF StoreTokens, IInv, BInv, SessionKept
  <2>3. ASSUME NEW t \in Tabs, TakeGrant(t) PROVE grant[t] = store'
    BY <2>3 DEF TakeGrant, Write
  <2>4. (\E t \in Tabs : StoreTokens(t) \/ TakeGrant(t)) \/ store' = store \/ store' = 0
    BY <1>1 DEF Next, RefreshStep, LogoutStep, CallStep, EnterRefresh, ServerRefreshes, SignOut, Write,
       Rehydrate, KeepOther, LeaveRefresh, ServerFails, AnswerIsLost, EnterLogout, LeaveLogout, Logout,
       StorageEvent, ChangePassword, SignIn, CloseTab, Send, Answered, Rejected, RejectedAgain, Renew,
       Expire, LeaseRunsOut, LeaseOverrun, vars
  <2> QED
    BY <1>1, <2>1, <2>2, <2>3, <2>4
<1>2. IInv /\ [Next]_vars =>
        [store = 0 /\ store' # 0 => mishaps > 0 \/ \E t \in Tabs : grant[t] = store']_vars
  BY <1>1
<1> QED
  BY <1>2, Invariants, PTL DEF LogoutIsFinal, Spec

=============================================================================
