-------------------------- MODULE Accounts_proofs --------------------------
(***************************************************************************)
(* Proofs about Accounts for any number of accounts, people, credentials   *)
(* and requests.  The inductive invariant says of every session and every  *)
(* request what it may rely on: as long as the account still has the       *)
(* version it carries, its password and its owner are the ones it knew.    *)
(***************************************************************************)
EXTENDS Accounts, TLAPS

\* A copy of version ver of u made by the holder of proof: no newer than the
\* account and, while it is current, the owner's.
Good(u, ver, proof) ==
    /\ Exists(u)
    /\ ver <= accounts[u].version
    /\ ver = accounts[u].version /\ claimed[u] # None => Person[proof] = claimed[u]

\* While it is current, a password that opened it is the account's.
GoodPassword(u, ver, proof) ==
    ver = accounts[u].version /\ proof \in Passwords => accounts[u].password = proof

PairOK(k) ==
    /\ Good(k.user, k.version, k.proof)
    /\ GoodPassword(k.user, k.version, k.proof)
    /\ tokens[k.session] # None

TokensOK == \A t \in Tokens : tokens[t] # None => PairOK(tokens[t])

RequestOK(q) ==
    /\ q.kind \in {"issue", "change", "unlink", "link"} =>
        Good(q.user, q.row.version, q.proof)
    /\ q.kind = "issue" =>
        q.proof \in Passwords /\ GoodPassword(q.user, q.row.version, q.proof)
    /\ q.kind = "sso" => q.subject \in Active /\ (q.user # None => Exists(q.user))
    /\ q.kind = "accept" => Exists(q.user)

RequestsOK == \A r \in Requests : requests[r] # None => RequestOK(requests[r])

AccountsOK ==
    \A u \in Users : claimed[u] # None =>
        /\ Exists(u)
        /\ accounts[u].password # None => Person[accounts[u].password] = claimed[u]

IdentitiesOK ==
    \A s \in Subjects : identities[s] # None =>
        /\ Exists(identities[s])
        /\ claimed[identities[s]] # None => Person[s] = claimed[identities[s]]

IInv ==
    /\ TypeOK
    /\ TokensOK
    /\ RequestsOK
    /\ AccountsOK
    /\ IdentitiesOK
    /\ OneRefreshTokenPerSession
    /\ AdminsAreMembersOrInvited

-----------------------------------------------------------------------------
(* How accounts change: a step bumps the version of an account, or leaves  *)
(* its password and its owner alone.                                       *)

Evolves ==
    \A u \in Users : Exists(u) =>
        /\ accounts'[u] # None
        /\ \/ accounts'[u].version > accounts[u].version
           \/ /\ accounts'[u].version = accounts[u].version
              /\ accounts'[u].password = accounts[u].password
              /\ claimed'[u] = claimed[u]

\* What a session or a request relies on survives every change of accounts.
LEMMA GoodLasts ==
    ASSUME TypeOK, TypeOK', Evolves,
           NEW u \in Users, NEW ver \in Nat, NEW proof, Good(u, ver, proof)
    PROVE  /\ Good(u, ver, proof)'
           /\ GoodPassword(u, ver, proof) => GoodPassword(u, ver, proof)'
<1>1. accounts[u] \in Row /\ accounts'[u] \in Row
  BY DEF TypeOK, Good, Exists, Evolves
<1>2. accounts[u].version \in Nat /\ accounts'[u].version \in Nat
  BY <1>1 DEF Row
<1>3. QED
  BY <1>1, <1>2 DEF Good, GoodPassword, Exists, Evolves

\* A session that survives the step keeps what it relies on.
LEMMA PairLasts ==
    ASSUME TypeOK, TypeOK', Evolves, NEW k \in Pair, PairOK(k),
           \A t \in Tokens : tokens[t] # None => tokens'[t] # None
    PROVE  PairOK(k)'
<1>1. k.user \in Users /\ k.version \in Nat /\ k.session \in Tokens
  BY DEF Pair
<1>2. Good(k.user, k.version, k.proof)' /\ GoodPassword(k.user, k.version, k.proof)'
  BY <1>1, GoodLasts DEF PairOK
<1>3. QED
  BY <1>1, <1>2 DEF PairOK

\* A request in flight keeps what it relies on.
LEMMA RequestLasts ==
    ASSUME TypeOK, TypeOK', Evolves, NEW q \in Request, RequestOK(q)
    PROVE  RequestOK(q)'
<1>1. CASE q.kind \in {"issue", "change", "unlink", "link"}
  <2>1. q.user \in Users /\ q.row \in Row
    BY <1>1 DEF Request
  <2>2. q.row.version \in Nat
    BY <2>1 DEF Row
  <2>3. Good(q.user, q.row.version, q.proof)' /\ (q.kind = "issue" => GoodPassword(q.user, q.row.version, q.proof)')
    BY <1>1, <2>1, <2>2, GoodLasts DEF RequestOK
  <2>4. QED
    BY <1>1, <2>3 DEF RequestOK
<1>2. CASE q.kind \in {"sso", "accept", "register"}
  <2>1. q.kind # "register" => q.user \in Users \cup {None}
    BY <1>2 DEF Request
  <2>2. q.kind = "accept" => q.user \in Users
    BY DEF Request
  <2>3. QED
    BY <1>2, <2>1, <2>2 DEF RequestOK, Evolves, Exists
<1>3. QED
  BY <1>1, <1>2 DEF Request

-----------------------------------------------------------------------------
(* What the steps have in common.                                          *)

\* A pair that stays issued: at most it is revoked.
SamePair(t) == tokens'[t] \in {tokens[t], [tokens[t] EXCEPT !.live = FALSE]}

\* Every old session and request carries over, so a step has to answer only for
\* the pair it issues and the request it changes.
LEMMA OthersLast ==
    ASSUME IInv, TypeOK', Evolves,
           \A t \in Tokens : tokens[t] # None => SamePair(t),
           \A t \in Tokens : tokens[t] = None => tokens'[t] = None \/ PairOK(tokens[t])',
           \A r \in Requests : requests'[r] \in {None, requests[r]} \/ RequestOK(requests[r])'
    PROVE  TokensOK' /\ RequestsOK'
<1>0. TypeOK /\ TokensOK /\ RequestsOK
  BY DEF IInv
<1>1. \A t \in Tokens : tokens[t] # None => tokens'[t] \in Pair /\ tokens[t] \in Pair
  <2>1. SUFFICES ASSUME NEW t \in Tokens, tokens[t] # None
                 PROVE  tokens'[t] \in Pair /\ tokens[t] \in Pair
    OBVIOUS
  <2>2. PICK k \in Pair : k = tokens[t]
    BY <1>0, <2>1 DEF TypeOK
  <2>3. [k EXCEPT !.live = FALSE] \in Pair
    BY DEF Pair
  <2>4. QED
    BY <2>1, <2>2, <2>3 DEF SamePair
<1>2. \A t \in Tokens : tokens[t] # None => tokens'[t] # None
  BY <1>1, ConstantsOK
<1>3. TokensOK'
  <2>1. SUFFICES ASSUME NEW t \in Tokens, tokens'[t] # None PROVE PairOK(tokens[t])'
    BY DEF TokensOK
  <2>2. CASE tokens[t] = None
    BY <2>1, <2>2
  <2>3. CASE tokens[t] # None
    <3>1. PICK k \in Pair : k = tokens[t]
      BY <1>1, <2>3
    <3>2. PairOK(k)'
      BY <1>0, <1>2, <2>3, <3>1, PairLasts DEF TokensOK
    <3>3. tokens'[t].user = k.user /\ tokens'[t].version = k.version
          /\ tokens'[t].session = k.session /\ tokens'[t].proof = k.proof
      BY <2>3, <3>1 DEF Pair, SamePair
    <3>4. QED
      BY <3>2, <3>3 DEF PairOK, Good, GoodPassword
  <2>4. QED
    BY <2>2, <2>3
<1>4. RequestsOK'
  <2>1. SUFFICES ASSUME NEW r \in Requests, requests'[r] # None PROVE RequestOK(requests[r])'
    BY DEF RequestsOK
  <2>2. CASE requests'[r] = requests[r]
    <3>1. PICK q \in Request : q = requests[r]
      BY <1>0, <2>1, <2>2 DEF TypeOK
    <3>2. RequestOK(q)'
      BY <1>0, <2>1, <2>2, <3>1, RequestLasts DEF RequestsOK
    <3>3. QED
      BY <2>2, <3>1, <3>2 DEF RequestOK, Good, GoodPassword
  <2>3. QED
    BY <2>1, <2>2
<1>5. QED
  BY <1>3, <1>4

\* At most the new pair n could split a session, and it does not.
LEMMA SessionsStaySingle ==
    ASSUME IInv, NEW n \in Tokens, tokens[n] = None,
           \A t \in Tokens : tokens[t] # None => SamePair(t),
           \A t \in Tokens \ {n} : tokens[t] = None => tokens'[t] = None,
           \A t \in Tokens \ {n} : tokens[t] # None /\ tokens'[t].live =>
               tokens[t].session # tokens'[n].session
    PROVE  OneRefreshTokenPerSession'
<1>0. TypeOK /\ OneRefreshTokenPerSession
  BY DEF IInv
<1>1. \A t \in Tokens : tokens[t] # None =>
        tokens'[t].session = tokens[t].session /\ (tokens'[t].live => tokens[t].live)
  <2>1. SUFFICES ASSUME NEW t \in Tokens, tokens[t] # None
                 PROVE  tokens'[t].session = tokens[t].session /\ (tokens'[t].live => tokens[t].live)
    OBVIOUS
  <2>2. PICK k \in Pair : k = tokens[t]
    BY <1>0, <2>1 DEF TypeOK
  <2>3. [k EXCEPT !.live = FALSE].session = k.session /\ [k EXCEPT !.live = FALSE].live = FALSE
    BY DEF Pair
  <2>4. QED
    BY <2>1, <2>2, <2>3 DEF SamePair
<1>2. QED
  BY <1>0, <1>1 DEF OneRefreshTokenPerSession

\* Revoking only revokes.
LEMMA RevokedSame ==
    ASSUME TypeOK, NEW u \in Users
    PROVE  /\ Revoked(u) \in [Tokens -> Pair \cup {None}]
           /\ \A t \in Tokens : Revoked(u)[t] \in {tokens[t], [tokens[t] EXCEPT !.live = FALSE]}
           /\ \A t \in Tokens : tokens[t] = None => Revoked(u)[t] = None
           /\ \A t \in Tokens : tokens[t] # None => Revoked(u)[t] # None
<1>1. \A t \in Tokens : tokens[t] # None => [tokens[t] EXCEPT !.live = FALSE] \in Pair
  <2>1. SUFFICES ASSUME NEW k \in Pair PROVE [k EXCEPT !.live = FALSE] \in Pair
    BY DEF TypeOK
  <2>2. QED
    BY DEF Pair
<1>2. QED
  BY <1>1, ConstantsOK DEF TypeOK, Revoked

\* Demotion changes nothing but a role.
LEMMA DemotedRow ==
    ASSUME NEW row \in Row
    PROVE  /\ Demoted(row) \in Row
           /\ Demoted(row).version = row.version
           /\ Demoted(row).password = row.password
           /\ Demoted(row).role = "admin" => row.role = "admin" /\ ~NeedsDemotion(row)
           /\ ~NeedsDemotion(row) => Demoted(row) = row
BY DEF Demoted, Row, Roles, NeedsDemotion

\* A new pair is well formed.
LEMMA NewPairTyped ==
    ASSUME NEW u \in Users, NEW row \in Row, NEW proof \in Credentials, NEW n \in Tokens
    PROVE  /\ NewPair(u, row, proof, n) \in Pair
           /\ NewPair(u, row, proof, n) # None
           /\ NewPair(u, row, proof, n).user = u
           /\ NewPair(u, row, proof, n).version = row.version
           /\ NewPair(u, row, proof, n).proof = proof
           /\ NewPair(u, row, proof, n).session = n
<1>1. row.version \in Nat
  BY DEF Row
<1>2. NewPair(u, row, proof, n) \in Pair
  BY <1>1 DEF NewPair, Pair
<1>3. QED
  BY <1>2, ConstantsOK DEF NewPair

\* The parts of the invariant that a step does not touch.
LEMMA Untouched ==
    ASSUME IInv
    PROVE  /\ accounts' = accounts /\ claimed' = claimed => Evolves /\ AccountsOK'
           /\ accounts' = accounts /\ claimed' = claimed /\ identities' = identities => IdentitiesOK'
           /\ tokens' = tokens => OneRefreshTokenPerSession'
           /\ accounts' = accounts /\ invites' = invites /\ member' = member /\ clock' = clock
                => AdminsAreMembersOrInvited'
<1>0. AccountsOK /\ IdentitiesOK /\ OneRefreshTokenPerSession /\ AdminsAreMembersOrInvited /\ TypeOK
  BY DEF IInv
<1>1. accounts' = accounts /\ claimed' = claimed => Evolves
  <2>1. \A u \in Users : accounts[u] # None => accounts[u].version \in Nat
    BY <1>0 DEF TypeOK, Row
  <2>2. QED
    BY <2>1 DEF Evolves, Exists
<1>2. accounts' = accounts /\ claimed' = claimed => AccountsOK'
  BY <1>0 DEF AccountsOK, Exists
<1>3. accounts' = accounts /\ claimed' = claimed /\ identities' = identities => IdentitiesOK'
  BY <1>0 DEF IdentitiesOK, Exists
<1>4. tokens' = tokens => OneRefreshTokenPerSession'
  BY <1>0 DEF OneRefreshTokenPerSession
<1>5. accounts' = accounts /\ invites' = invites /\ member' = member /\ clock' = clock
        => AdminsAreMembersOrInvited'
  BY <1>0 DEF AdminsAreMembersOrInvited, EffectiveAdmin, Exists, Demoted, NeedsDemotion
<1>6. QED
  BY <1>1, <1>2, <1>3, <1>4, <1>5

-----------------------------------------------------------------------------
(* Steps that only change what one request holds.                          *)

\* A request that only changes what one request in flight holds.
LEMMA HoldStep ==
    ASSUME IInv, NEW r \in Requests, NEW q \in Request \cup {None},
           q # None => RequestOK(q),
           requests' = [requests EXCEPT ![r] = q],
           UNCHANGED <<accounts, identities, tokens, invites, clock, claimed, member>>
    PROVE  IInv'
<1>0. TypeOK
  BY DEF IInv
<1>1. TypeOK'
  BY <1>0 DEF TypeOK
<1>2. Evolves /\ AccountsOK' /\ IdentitiesOK' /\ OneRefreshTokenPerSession'
      /\ AdminsAreMembersOrInvited'
  BY Untouched
<1>3. \A t \in Tokens : SamePair(t)
  BY DEF SamePair
<1>4. \A x \in Requests : requests'[x] \in {None, requests[x]} \/ RequestOK(requests[x])'
  <2>1. SUFFICES ASSUME q # None PROVE RequestOK(requests[r])'
    BY <1>0 DEF TypeOK
  <2>2. requests'[r] = q
    BY <1>0 DEF TypeOK
  <2>3. QED
    BY <2>1, <2>2 DEF RequestOK, Good, GoodPassword, Exists
<1>5. TokensOK' /\ RequestsOK'
  BY <1>1, <1>2, <1>3, <1>4, OthersLast
<1>6. QED
  BY <1>1, <1>2, <1>5 DEF IInv

\* Whoever holds a working session of u is the owner of u if u has one.
LEMMA SessionIsGood ==
    ASSUME IInv, NEW t \in Tokens, NEW u \in Users, Authentic(t, u)
    PROVE  /\ accounts[u] \in Row
           /\ tokens[t].proof \in Credentials
           /\ Good(u, accounts[u].version, tokens[t].proof)
<1>1. PICK k \in Pair : k = tokens[t]
  BY DEF Authentic, IInv, TypeOK
<1>2. PairOK(k)
  BY <1>1 DEF Authentic, IInv, TokensOK
<1>3. k.user = u /\ k.version = accounts[u].version /\ k.proof \in Credentials
  BY <1>1 DEF Authentic, Pair
<1>4. QED
  BY <1>1, <1>2, <1>3 DEF PairOK, Good, Exists, IInv, TypeOK

\* Register, up to its look for another account of the address.
LEMMA StartRegisterStep ==
    ASSUME IInv, NEW r \in Requests, NEW u \in Users, NEW p \in Passwords, StartRegister(r, u, p)
    PROVE  IInv'
<1> DEFINE q == [kind |-> "register", user |-> u, proof |-> p]
<1>1. q \in Request /\ RequestOK(q)
  BY DEF Request, RequestOK
<1>2. QED
  BY <1>1, HoldStep DEF StartRegister, Hold

\* Login keeps a copy of the account whose password it checked.
LEMMA StartLoginStep ==
    ASSUME IInv, NEW r \in Requests, NEW a \in Users, NEW p \in Passwords, StartLogin(r, a, p)
    PROVE  IInv'
<1>1. PICK u \in ByEmail(a) :
        /\ accounts[u].password = p
        /\ Hold(r, [kind |-> "issue", user |-> u, row |-> accounts[u], proof |-> p])
  BY DEF StartLogin
<1>2. u \in Users /\ Exists(u)
  BY <1>1 DEF ByEmail, SameMailbox
<1>3. accounts[u] \in Row
  BY <1>2 DEF IInv, TypeOK, Exists
<1>4. PICK q : q = [kind |-> "issue", user |-> u, row |-> accounts[u], proof |-> p]
  OBVIOUS
<1>5. q \in Request
  BY <1>2, <1>3, <1>4 DEF Request, Credentials
<1>6. p # None
  BY ConstantsOK DEF Credentials
<1>7. accounts[u].version \in Nat
  BY <1>3 DEF Row
<1>8. Good(u, accounts[u].version, p) /\ GoodPassword(u, accounts[u].version, p)
  BY <1>1, <1>2, <1>6, <1>7 DEF Good, GoodPassword, IInv, AccountsOK
<1>9. RequestOK(q)
  BY <1>4, <1>8 DEF RequestOK
<1>10. QED
  BY <1>1, <1>4, <1>5, <1>9, HoldStep DEF StartLogin, Hold

\* The requests that begin with a session and keep a copy of the account.
LEMMA SessionCopyStep ==
    ASSUME IInv, NEW r \in Requests, NEW t \in Tokens, NEW u \in Users,
           NEW kind \in {"change", "unlink", "link"}, Authentic(t, u),
           Hold(r, [kind |-> kind, user |-> u, row |-> accounts[u], proof |-> tokens[t].proof]),
           UNCHANGED <<accounts, identities, tokens, invites, clock, claimed, member>>
    PROVE  IInv'
<1>1. /\ accounts[u] \in Row
      /\ tokens[t].proof \in Credentials
      /\ Good(u, accounts[u].version, tokens[t].proof)
  BY SessionIsGood
<1>2. PICK q : q = [kind |-> kind, user |-> u, row |-> accounts[u], proof |-> tokens[t].proof]
  OBVIOUS
<1>3. q \in Request
  BY <1>1, <1>2 DEF Request
<1>4. RequestOK(q)
  BY <1>1, <1>2 DEF RequestOK
<1>5. QED
  BY <1>2, <1>3, <1>4, HoldStep DEF Hold

\* resolveUser reads the link before it locks the account.
LEMMA StartSSOStep ==
    ASSUME IInv, NEW r \in Requests, NEW s \in Subjects, StartSSO(r, s)
    PROVE  IInv'
<1>1. PICK q : q = [kind |-> "sso", user |-> identities[s], subject |-> s]
  OBVIOUS
<1>2. identities[s] \in Users \cup {None}
  BY DEF IInv, TypeOK
<1>3. q \in Request
  BY <1>1, <1>2 DEF Request
<1>4. RequestOK(q)
  BY <1>1 DEF RequestOK, StartSSO, IInv, IdentitiesOK
<1>5. QED
  BY <1>1, <1>3, <1>4, HoldStep DEF StartSSO, Hold

\* AcceptInvite reads the invite before its transaction.
LEMMA StartAcceptStep ==
    ASSUME IInv, NEW r \in Requests, NEW t \in Tokens, NEW u \in Users, NEW i \in Invites,
           StartAccept(r, t, u, i)
    PROVE  IInv'
<1>1. Exists(u)
  BY SessionIsGood DEF StartAccept, Good
<1>2. PICK q : q = [kind |-> "accept", user |-> u, invite |-> i]
  OBVIOUS
<1>3. q \in Request
  BY <1>2 DEF Request
<1>4. RequestOK(q)
  BY <1>1, <1>2 DEF RequestOK
<1>5. QED
  BY <1>2, <1>3, <1>4, HoldStep DEF StartAccept, Hold

\* A request in flight comes to nothing.
LEMMA AbandonStep ==
    ASSUME IInv, NEW r \in Requests, Abandon(r)
    PROVE  IInv'
BY HoldStep DEF Abandon, Done

-----------------------------------------------------------------------------
(* Passwords.                                                              *)

\* A registration creates an account that nobody has claimed.
LEMMA CreateUserStep ==
    ASSUME IInv, NEW r \in Requests, CreateUser(r)
    PROVE  IInv'
<1>0. TypeOK
  BY DEF IInv
<1>1. PICK u, p : u = requests[r].user /\ p = requests[r].proof
  OBVIOUS
<1>2. u \in Users /\ p \in Passwords
  BY <1>0, <1>1 DEF CreateUser, Is, TypeOK, Request
<1>3. PICK row : row = NewRow(p)
  OBVIOUS
<1>4. row \in Row /\ row.version = 0 /\ row.password = p /\ row.role = "climber"
  BY <1>2, <1>3 DEF NewRow, Row, Roles
<1>5. PICK q : q = [kind |-> "issue", user |-> u, row |-> row, proof |-> p]
  OBVIOUS
<1>6. q \in Request
  BY <1>2, <1>4, <1>5 DEF Request, Credentials
<1>7. /\ ~Exists(u)
      /\ accounts' = [accounts EXCEPT ![u] = row]
      /\ requests' = [requests EXCEPT ![r] = q]
      /\ UNCHANGED <<identities, tokens, invites, clock, claimed, member>>
  BY <1>1, <1>3, <1>5 DEF CreateUser, Hold
<1>8. TypeOK'
  BY <1>0, <1>4, <1>6, <1>7 DEF TypeOK
<1>9. accounts'[u] = row /\ row # None /\ \A v \in Users \ {u} : accounts'[v] = accounts[v]
  BY <1>0, <1>2, <1>4, <1>7, ConstantsOK DEF TypeOK
<1>10. claimed[u] = None
  BY <1>2, <1>7 DEF IInv, AccountsOK
<1>11. Evolves
  <2>1. \A v \in Users : Exists(v) => v # u /\ accounts[v].version \in Nat
    BY <1>0, <1>7 DEF TypeOK, Exists, Row
  <2>2. QED
    BY <1>7, <1>9, <2>1 DEF Evolves, Exists
<1>12. AccountsOK'
  BY <1>7, <1>9, <1>10 DEF IInv, AccountsOK, Exists
<1>13. IdentitiesOK'
  BY <1>0, <1>7, <1>9, <1>10 DEF IInv, IdentitiesOK, Exists, TypeOK
<1>14. OneRefreshTokenPerSession'
  BY <1>7, Untouched
<1>15. AdminsAreMembersOrInvited'
  <2>1. Demoted(row).role # "admin" /\ Demoted(row)' = Demoted(row)
    BY <1>4, <1>7, DemotedRow DEF Demoted, NeedsDemotion
  <2>2. \A v \in Users : EffectiveAdmin(v)' => EffectiveAdmin(v)
    BY <1>4, <1>7, <1>9 DEF EffectiveAdmin, Exists, Demoted, NeedsDemotion
  <2>3. QED
    BY <1>7, <2>2 DEF IInv, AdminsAreMembersOrInvited
<1>16. RequestOK(requests[r])'
  <2>1. requests'[r] = q
    BY <1>0, <1>7 DEF TypeOK
  <2>2. QED
    BY <1>2, <1>4, <1>5, <1>7, <1>9, <1>10, <2>1 DEF RequestOK, Good, GoodPassword, Exists
<1>17. TokensOK' /\ RequestsOK'
  <2>1. \A t \in Tokens : SamePair(t)
    BY <1>7 DEF SamePair
  <2>2. \A x \in Requests : x # r => requests'[x] = requests[x]
    BY <1>0, <1>7 DEF TypeOK
  <2>3. QED
    BY <1>7, <1>8, <1>11, <1>16, <2>1, <2>2, OthersLast
<1>18. QED
  BY <1>8, <1>12, <1>13, <1>14, <1>15, <1>17 DEF IInv

\* A step that changes the role, or the time it was synced, of one account.
LEMMA RoleStep ==
    ASSUME IInv, NEW u \in Users, Exists(u), NEW row \in Row,
           row.version = accounts[u].version, row.password = accounts[u].password,
           accounts' = [accounts EXCEPT ![u] = row], claimed' = claimed
    PROVE  /\ accounts' \in [Users -> Row \cup {None}]
           /\ Evolves /\ AccountsOK'
           /\ identities' = identities => IdentitiesOK'
           /\ accounts'[u] = row /\ row # None
           /\ \A v \in Users \ {u} : accounts'[v] = accounts[v]
<1>0. TypeOK /\ AccountsOK /\ IdentitiesOK
  BY DEF IInv
<1>1. accounts' \in [Users -> Row \cup {None}]
  BY <1>0 DEF TypeOK
<1>2. accounts'[u] = row /\ row # None /\ \A v \in Users \ {u} : accounts'[v] = accounts[v]
  BY <1>0, ConstantsOK DEF TypeOK
<1>3. \A v \in Users : Exists(v) => accounts[v].version \in Nat
  BY <1>0 DEF TypeOK, Exists, Row
<1>4. Evolves
  BY <1>2, <1>3 DEF Evolves, Exists
<1>5. AccountsOK'
  BY <1>0, <1>2 DEF AccountsOK, Exists
<1>6. identities' = identities => IdentitiesOK'
  BY <1>0, <1>2 DEF IdentitiesOK, Exists, TypeOK
<1>7. QED
  BY <1>1, <1>2, <1>4, <1>5, <1>6

\* IssueTokens demotes in the account and in its copy.
LEMMA DemoteOnLoginStep ==
    ASSUME IInv, NEW r \in Requests, DemoteOnLogin(r)
    PROVE  IInv'
<1>0. TypeOK
  BY DEF IInv
<1>1. PICK q \in Request : q = requests[r]
  BY <1>0 DEF DemoteOnLogin, Is, TypeOK
<1>2. q.kind = "issue" /\ q.user \in Users /\ q.row \in Row /\ q.proof \in Credentials
  BY <1>1 DEF DemoteOnLogin, Is, Request
<1>3. RequestOK(q)
  BY <1>1 DEF DemoteOnLogin, Is, IInv, RequestsOK
<1>4. PICK u : u = q.user
  OBVIOUS
<1>5. Exists(u) /\ accounts[u] \in Row
  BY <1>0, <1>2, <1>3, <1>4 DEF RequestOK, Good, Exists, TypeOK
<1>6. PICK low : low = Demoted(q.row)
  OBVIOUS
<1>7. low \in Row /\ low.version = q.row.version /\ low.role # "admin"
  BY <1>1, <1>2, <1>6, DemotedRow DEF DemoteOnLogin
<1>8. PICK row : row = [accounts[u] EXCEPT !.role = low.role]
  OBVIOUS
<1>9. row \in Row /\ row.version = accounts[u].version /\ row.password = accounts[u].password
      /\ row.role # "admin"
  BY <1>5, <1>7, <1>8 DEF Row
<1>10. PICK q2 : q2 = [q EXCEPT !.row = low]
  OBVIOUS
<1>11. /\ q2 \in Request /\ q2.kind = "issue" /\ q2.user = u /\ q2.row = low
       /\ q2.proof = q.proof
  BY <1>2, <1>4, <1>7, <1>10 DEF Request
<1>12. /\ accounts' = [accounts EXCEPT ![u] = row]
       /\ requests' = [requests EXCEPT ![r] = q2]
       /\ UNCHANGED <<identities, tokens, invites, clock, claimed, member>>
  BY <1>1, <1>4, <1>6, <1>8, <1>10 DEF DemoteOnLogin
<1>13. /\ accounts' \in [Users -> Row \cup {None}]
       /\ Evolves /\ AccountsOK' /\ IdentitiesOK'
       /\ accounts'[u] = row /\ row # None
       /\ \A v \in Users \ {u} : accounts'[v] = accounts[v]
  BY <1>2, <1>4, <1>5, <1>9, <1>12, RoleStep
<1>14. TypeOK'
  BY <1>0, <1>11, <1>12, <1>13 DEF TypeOK
<1>15. OneRefreshTokenPerSession'
  BY <1>12, Untouched
<1>16. AdminsAreMembersOrInvited'
  <2>1. \A v \in Users : EffectiveAdmin(v)' => EffectiveAdmin(v)
    BY <1>9, <1>12, <1>13 DEF EffectiveAdmin, Exists, Demoted, NeedsDemotion
  <2>2. QED
    BY <1>12, <2>1 DEF IInv, AdminsAreMembersOrInvited
<1>17. RequestOK(requests[r])'
  <2>1. RequestOK(q)'
    BY <1>0, <1>3, <1>13, <1>14, RequestLasts
  <2>2. requests'[r] = q2
    BY <1>0, <1>12 DEF TypeOK
  <2>3. QED
    BY <1>2, <1>4, <1>7, <1>11, <2>1, <2>2 DEF RequestOK, Good, GoodPassword
<1>18. TokensOK' /\ RequestsOK'
  <2>1. \A t \in Tokens : SamePair(t)
    BY <1>12 DEF SamePair
  <2>2. \A x \in Requests : x # r => requests'[x] = requests[x]
    BY <1>0, <1>12 DEF TypeOK
  <2>3. QED
    BY <1>12, <1>13, <1>14, <1>17, <2>1, <2>2, OthersLast
<1>19. QED
  BY <1>13, <1>14, <1>15, <1>16, <1>18 DEF IInv

\* A login issues a pair for the version and password it read.
LEMMA IssueOnLoginStep ==
    ASSUME IInv, NEW r \in Requests, NEW n \in Tokens, IssueOnLogin(r, n)
    PROVE  IInv'
<1>0. TypeOK
  BY DEF IInv
<1>1. PICK q \in Request : q = requests[r]
  BY <1>0 DEF IssueOnLogin, Is, TypeOK
<1>2. q.kind = "issue" /\ q.user \in Users /\ q.row \in Row /\ q.proof \in Credentials
  BY <1>1 DEF IssueOnLogin, Is, Request
<1>3. RequestOK(q)
  BY <1>1 DEF IssueOnLogin, Is, IInv, RequestsOK
<1>4. PICK k : k = NewPair(q.user, q.row, q.proof, n)
  OBVIOUS
<1>5. /\ k \in Pair /\ k # None /\ k.user = q.user /\ k.version = q.row.version
      /\ k.proof = q.proof /\ k.session = n
  BY <1>2, <1>4, NewPairTyped
<1>6. /\ tokens[n] = None
      /\ tokens' = [tokens EXCEPT ![n] = k]
      /\ requests' = [requests EXCEPT ![r] = None]
      /\ UNCHANGED <<accounts, identities, invites, clock, claimed, member>>
  BY <1>1, <1>4 DEF IssueOnLogin, Done
<1>7. TypeOK'
  BY <1>0, <1>5, <1>6 DEF TypeOK
<1>8. tokens'[n] = k /\ \A t \in Tokens \ {n} : tokens'[t] = tokens[t]
  BY <1>0, <1>6 DEF TypeOK
<1>9. Evolves /\ AccountsOK' /\ IdentitiesOK' /\ AdminsAreMembersOrInvited'
  BY <1>6, Untouched
<1>10. \A t \in Tokens : tokens[t] # None => SamePair(t)
  BY <1>6, <1>8 DEF SamePair
<1>11. PairOK(tokens[n])'
  BY <1>2, <1>3, <1>5, <1>6, <1>8 DEF PairOK, RequestOK, Good, GoodPassword, Exists
<1>12. TokensOK' /\ RequestsOK'
  <2>1. \A x \in Requests : requests'[x] \in {None, requests[x]}
    BY <1>0, <1>6 DEF TypeOK
  <2>2. QED
    BY <1>6, <1>7, <1>8, <1>9, <1>10, <1>11, <2>1, OthersLast
<1>13. OneRefreshTokenPerSession'
  <2>1. \A t \in Tokens : tokens[t] # None => tokens[t].session # n
    BY <1>6 DEF IInv, TokensOK, PairOK
  <2>2. QED
    BY <1>5, <1>6, <1>8, <1>10, <2>1, SessionsStaySingle
<1>14. QED
  BY <1>7, <1>9, <1>12, <1>13 DEF IInv

\* A step that only revokes pairs.
LEMMA RevokeStep ==
    ASSUME IInv, tokens' \in [Tokens -> Pair \cup {None}],
           \A t \in Tokens : tokens[t] # None => SamePair(t),
           \A t \in Tokens : tokens[t] = None => tokens'[t] = None,
           UNCHANGED <<accounts, identities, requests, invites, clock, claimed, member>>
    PROVE  IInv'
<1>0. TypeOK /\ OneRefreshTokenPerSession
  BY DEF IInv
<1>1. TypeOK'
  BY <1>0 DEF TypeOK
<1>2. Evolves /\ AccountsOK' /\ IdentitiesOK' /\ AdminsAreMembersOrInvited'
  BY Untouched
<1>3. \A t \in Tokens : tokens[t] # None =>
        tokens'[t].session = tokens[t].session /\ (tokens'[t].live => tokens[t].live)
  <2>1. SUFFICES ASSUME NEW t \in Tokens, tokens[t] # None
                 PROVE  tokens'[t].session = tokens[t].session /\ (tokens'[t].live => tokens[t].live)
    OBVIOUS
  <2>2. PICK k \in Pair : k = tokens[t]
    BY <1>0, <2>1 DEF TypeOK
  <2>3. [k EXCEPT !.live = FALSE].session = k.session /\ [k EXCEPT !.live = FALSE].live = FALSE
    BY DEF Pair
  <2>4. QED
    BY <2>1, <2>2, <2>3 DEF SamePair
<1>4. OneRefreshTokenPerSession'
  BY <1>0, <1>3 DEF OneRefreshTokenPerSession
<1>5. TokensOK' /\ RequestsOK'
  BY <1>1, <1>2, OthersLast
<1>6. QED
  BY <1>1, <1>2, <1>4, <1>5 DEF IInv

\* Revoking one pair.
LEMMA OneRevoked ==
    ASSUME TypeOK, NEW t \in Tokens, tokens[t] # None
    PROVE  /\ [tokens EXCEPT ![t].live = FALSE] \in [Tokens -> Pair \cup {None}]
           /\ [tokens EXCEPT ![t].live = FALSE][t] = [tokens[t] EXCEPT !.live = FALSE]
           /\ \A x \in Tokens \ {t} : [tokens EXCEPT ![t].live = FALSE][x] = tokens[x]
           /\ ~[tokens[t] EXCEPT !.live = FALSE].live
           /\ [tokens[t] EXCEPT !.live = FALSE] # None
<1>1. PICK k \in Pair : k = tokens[t]
  BY DEF TypeOK
<1>2. [k EXCEPT !.live = FALSE] \in Pair /\ [k EXCEPT !.live = FALSE].live = FALSE
  BY DEF Pair
<1>3. QED
  BY <1>1, <1>2, ConstantsOK DEF TypeOK

\* Logging out deletes one refresh token.
LEMMA LogoutStep ==
    ASSUME IInv, NEW t \in Tokens, Logout(t)
    PROVE  IInv'
<1>1. TypeOK
  BY DEF IInv
<1>2. QED
  BY <1>1, OneRevoked, RevokeStep DEF Logout, SamePair

\* Refreshing replaces a live pair of the session by another.
LEMMA RefreshStep ==
    ASSUME IInv, NEW t \in Tokens, NEW n \in Tokens, Refresh(t, n)
    PROVE  IInv'
<1>0. TypeOK
  BY DEF IInv
<1>1. tokens[t] # None /\ tokens[t].live
  BY DEF Refresh
<1>2. PICK k \in Pair : k = tokens[t]
  BY <1>0, <1>1 DEF TypeOK
<1>3. PairOK(k) /\ k.user \in Users /\ k.proof \in Credentials /\ k.session \in Tokens
  BY <1>1, <1>2 DEF IInv, TokensOK, Pair
<1>4. PICK u : u = k.user
  OBVIOUS
<1>5. Exists(u) /\ accounts[u] \in Row
  BY <1>0, <1>3, <1>4 DEF PairOK, Good, Exists, TypeOK
<1>6. PICK row : row = Demoted(accounts[u])
  OBVIOUS
<1>7. /\ row \in Row /\ row.version = accounts[u].version /\ row.password = accounts[u].password
      /\ row.role = "admin" => accounts[u].role = "admin" /\ ~NeedsDemotion(accounts[u])
      /\ ~NeedsDemotion(accounts[u]) => row = accounts[u]
  BY <1>5, <1>6, DemotedRow
<1>8. PICK used : used = [tokens EXCEPT ![t].live = FALSE]
  OBVIOUS
<1>9. /\ used \in [Tokens -> Pair \cup {None}]
      /\ used[t] = [tokens[t] EXCEPT !.live = FALSE] /\ ~used[t].live /\ used[t] # None
      /\ \A x \in Tokens \ {t} : used[x] = tokens[x]
  BY <1>0, <1>1, <1>8, OneRevoked
<1>10. UNCHANGED <<identities, requests, invites, clock, claimed, member>>
  BY DEF Refresh
<1>11. CASE tokens' = used /\ UNCHANGED accounts
  BY <1>1, <1>9, <1>10, <1>11, RevokeStep DEF SamePair
<1>12. CASE /\ tokens[t].version = accounts[u].version
            /\ tokens[n] = None
            /\ tokens' = [used EXCEPT ![n] = NewPair(u, row, k.proof, k.session)]
            /\ accounts' = [accounts EXCEPT ![u] = row]
  <2>1. PICK new : new = NewPair(u, row, k.proof, k.session)
    OBVIOUS
  <2>2. /\ new \in Pair /\ new # None /\ new.user = u /\ new.version = row.version
        /\ new.proof = k.proof /\ new.session = k.session
    BY <1>3, <1>4, <1>7, <2>1, NewPairTyped
  <2>3. n # t
    BY <1>1, <1>12
  <2>4. tokens'[n] = new /\ tokens'[t] = used[t] /\ \A x \in Tokens \ {n, t} : tokens'[x] = tokens[x]
    BY <1>9, <1>12, <2>1, <2>3
  <2>5. /\ accounts' \in [Users -> Row \cup {None}]
        /\ Evolves /\ AccountsOK' /\ IdentitiesOK'
        /\ accounts'[u] = row /\ row # None
        /\ \A v \in Users \ {u} : accounts'[v] = accounts[v]
    BY <1>3, <1>4, <1>5, <1>7, <1>10, <1>12, RoleStep
  <2>6. TypeOK'
    BY <1>0, <1>9, <1>10, <1>12, <2>1, <2>2, <2>5 DEF TypeOK
  <2>7. \A x \in Tokens : tokens[x] # None => SamePair(x)
    BY <1>9, <1>12, <2>4 DEF SamePair
  <2>8. PairOK(tokens[n])'
    <3>1. tokens'[k.session] # None
      BY <1>3, <1>9, <2>2, <2>4 DEF PairOK
    <3>2. k.version = accounts[u].version
      BY <1>2, <1>12
    <3>3. accounts[u].version \in Nat
      BY <1>5 DEF Row
    <3>4. QED
      BY <1>3, <1>4, <1>7, <1>10, <2>2, <2>4, <2>5, <3>1, <3>2, <3>3
      DEF PairOK, Good, GoodPassword, Exists
  <2>9. TokensOK' /\ RequestsOK'
    BY <1>10, <2>4, <2>5, <2>6, <2>7, <2>8, <1>1, OthersLast
  <2>10. OneRefreshTokenPerSession'
    <3>1. \A x \in Tokens \ {n} : tokens[x] # None /\ tokens'[x].live => tokens[x].session # k.session
      <4>1. SUFFICES ASSUME NEW x \in Tokens \ {n}, tokens[x] # None, tokens'[x].live
                     PROVE  tokens[x].session # k.session
        OBVIOUS
      <4>2. x # t /\ tokens[x].live
        BY <1>9, <2>4, <4>1
      <4>3. QED
        BY <1>1, <1>2, <4>1, <4>2 DEF IInv, OneRefreshTokenPerSession
    <3>2. \A x \in Tokens \ {n} : tokens[x] = None => tokens'[x] = None
      BY <1>1, <2>4
    <3>3. QED
      BY <1>12, <2>2, <2>4, <2>7, <3>1, <3>2, SessionsStaySingle
  <2>11. AdminsAreMembersOrInvited'
    <3>1. \A v \in Users : EffectiveAdmin(v)' => EffectiveAdmin(v)
      <4>1. SUFFICES ASSUME EffectiveAdmin(u)' PROVE EffectiveAdmin(u)
        BY <1>10, <2>5 DEF EffectiveAdmin, Exists, Demoted, NeedsDemotion
      <4>2. row.role = "admin"
        BY <1>7, <2>5, <4>1 DEF EffectiveAdmin, Demoted, NeedsDemotion
      <4>3. QED
        BY <1>5, <1>7, <4>2 DEF EffectiveAdmin, Demoted
    <3>2. QED
      BY <1>10, <3>1 DEF IInv, AdminsAreMembersOrInvited
  <2>12. QED
    BY <2>5, <2>6, <2>9, <2>10, <2>11 DEF IInv
<1>13. QED
  BY <1>2, <1>4, <1>6, <1>8, <1>11, <1>12 DEF Refresh

\* A step that starts a new version of an account.
LEMMA BumpStep ==
    ASSUME IInv, NEW u \in Users, Exists(u), NEW row \in Row,
           row.version > accounts[u].version,
           accounts' = [accounts EXCEPT ![u] = row],
           \A v \in Users \ {u} : claimed'[v] = claimed[v]
    PROVE  /\ accounts' \in [Users -> Row \cup {None}]
           /\ Evolves
           /\ accounts'[u] = row /\ row # None
           /\ \A v \in Users \ {u} : accounts'[v] = accounts[v]
<1>0. TypeOK
  BY DEF IInv
<1>1. accounts' \in [Users -> Row \cup {None}]
  BY <1>0 DEF TypeOK
<1>2. accounts'[u] = row /\ row # None /\ \A v \in Users \ {u} : accounts'[v] = accounts[v]
  BY <1>0, ConstantsOK DEF TypeOK
<1>3. Evolves
  BY <1>2 DEF Evolves, Exists
<1>4. QED
  BY <1>1, <1>2, <1>3

\* A changed password starts a version that only its pair carries.
LEMMA ChangePasswordStep ==
    ASSUME IInv, NEW r \in Requests, NEW p \in Passwords, NEW n \in Tokens,
           ChangePassword(r, p, n)
    PROVE  IInv'
<1>0. TypeOK
  BY DEF IInv
<1>1. PICK q \in Request : q = requests[r]
  BY <1>0 DEF ChangePassword, Is, TypeOK
<1>2. q.kind = "change" /\ q.user \in Users /\ q.row \in Row /\ q.proof \in Credentials
  BY <1>1 DEF ChangePassword, Is, Request
<1>3. RequestOK(q)
  BY <1>1 DEF ChangePassword, Is, IInv, RequestsOK
<1>4. PICK u : u = q.user
  OBVIOUS
<1>5. Exists(u) /\ accounts[u] \in Row /\ u \in Users
  BY <1>0, <1>2, <1>3, <1>4 DEF RequestOK, Good, Exists, TypeOK
<1>6. PICK acc \in Row : acc = accounts[u]
  BY <1>5
<1>7. PICK set : set = [acc EXCEPT !.password = p, !.version = @ + 1]
  OBVIOUS
<1>8. set \in Row /\ set.version = acc.version + 1 /\ set.password = p /\ set.role = acc.role
      /\ set.synced = acc.synced
  <2>1. acc.version \in Nat /\ acc.version + 1 \in Nat
    BY DEF Row
  <2>2. set.version = acc.version + 1 /\ set.password = p /\ set.role = acc.role
        /\ set.synced = acc.synced
    BY <1>7 DEF Row
  <2>3. [acc EXCEPT !.password = p, !.version = acc.version + 1] \in Row
    BY <2>1 DEF Row
  <2>4. QED
    BY <1>7, <2>2, <2>3
<1>9. PICK row : row = Demoted(set)
  OBVIOUS
<1>10. /\ row \in Row /\ row.version = acc.version + 1 /\ row.password = p
       /\ row.role = "admin" => set.role = "admin" /\ ~NeedsDemotion(set)
  BY <1>8, <1>9, DemotedRow
<1>11. PICK k : k = NewPair(u, row, p, n)
  OBVIOUS
<1>12. /\ k \in Pair /\ k # None /\ k.user = u /\ k.version = row.version
       /\ k.proof = p /\ k.session = n
  <2>1. p \in Credentials
    BY DEF Credentials
  <2>2. QED
    BY <1>5, <1>10, <1>11, <2>1, NewPairTyped
<1>13. /\ tokens[n] = None
       /\ Person[p] = Person[q.proof]
       /\ accounts[u].version = q.row.version
       /\ accounts' = [accounts EXCEPT ![u] = row]
       /\ tokens' = [Revoked(u) EXCEPT ![n] = k]
       /\ requests' = [requests EXCEPT ![r] = None]
       /\ UNCHANGED <<identities, invites, clock, claimed, member>>
  BY <1>1, <1>4, <1>6, <1>7, <1>9, <1>11 DEF ChangePassword, Unchanged, Done
<1>14. acc.version \in Nat
  BY DEF Row
<1>15. /\ accounts' \in [Users -> Row \cup {None}] /\ Evolves
       /\ accounts'[u] = row /\ row # None
       /\ \A v \in Users \ {u} : accounts'[v] = accounts[v]
  <2>1. row.version > accounts[u].version
    BY <1>6, <1>10, <1>14
  <2>2. \A v \in Users \ {u} : claimed'[v] = claimed[v]
    BY <1>13
  <2>3. QED
    BY <1>5, <1>10, <1>13, <2>1, <2>2, BumpStep
<1>16. /\ Revoked(u) \in [Tokens -> Pair \cup {None}]
       /\ \A t \in Tokens : Revoked(u)[t] \in {tokens[t], [tokens[t] EXCEPT !.live = FALSE]}
       /\ \A t \in Tokens : tokens[t] = None => Revoked(u)[t] = None
  BY <1>0, <1>5, RevokedSame
<1>17. tokens'[n] = k /\ \A t \in Tokens \ {n} : tokens'[t] = Revoked(u)[t]
  BY <1>13, <1>16
<1>18. TypeOK'
  BY <1>0, <1>12, <1>13, <1>15, <1>16 DEF TypeOK
<1>19. \A t \in Tokens : tokens[t] # None => SamePair(t)
  BY <1>13, <1>16, <1>17 DEF SamePair
<1>20. claimed[u] # None => Person[p] = claimed[u]
  BY <1>2, <1>3, <1>4, <1>13 DEF RequestOK, Good
<1>21. AccountsOK'
  BY <1>10, <1>13, <1>15, <1>20 DEF IInv, AccountsOK, Exists
<1>22. IdentitiesOK'
  BY <1>0, <1>13, <1>15 DEF IInv, IdentitiesOK, Exists, TypeOK
<1>23. PairOK(tokens[n])'
  BY <1>10, <1>12, <1>13, <1>14, <1>15, <1>17, <1>20 DEF PairOK, Good, GoodPassword, Exists
<1>24. TokensOK' /\ RequestsOK'
  <2>1. \A x \in Requests : requests'[x] \in {None, requests[x]}
    BY <1>0, <1>13 DEF TypeOK
  <2>2. QED
    BY <1>15, <1>16, <1>17, <1>18, <1>19, <1>23, <2>1, OthersLast
<1>25. OneRefreshTokenPerSession'
  <2>1. \A t \in Tokens : tokens[t] # None => tokens[t].session # n
    BY <1>13 DEF IInv, TokensOK, PairOK
  <2>2. QED
    BY <1>12, <1>13, <1>16, <1>17, <1>19, <2>1, SessionsStaySingle
<1>26. AdminsAreMembersOrInvited'
  <2>1. \A v \in Users : EffectiveAdmin(v)' => EffectiveAdmin(v)
    <3>1. SUFFICES ASSUME EffectiveAdmin(u)' PROVE EffectiveAdmin(u)
      BY <1>13, <1>15 DEF EffectiveAdmin, Exists, Demoted, NeedsDemotion
    <3>2. row.role = "admin"
      BY <1>10, <1>15, <3>1 DEF EffectiveAdmin, Demoted, NeedsDemotion, Row
    <3>3. acc.role = "admin" /\ ~NeedsDemotion(acc)
      BY <1>8, <1>10, <3>2 DEF NeedsDemotion
    <3>4. QED
      BY <1>5, <1>6, <3>3 DEF EffectiveAdmin, Demoted
  <2>2. QED
    BY <1>13, <2>1 DEF IInv, AdminsAreMembersOrInvited
<1>27. QED
  BY <1>18, <1>21, <1>22, <1>24, <1>25, <1>26 DEF IInv

-----------------------------------------------------------------------------
(* Identities.                                                             *)

\* A step that ends a request and changes who identities belong to.
LEMMA IdentityStep ==
    ASSUME IInv, NEW r \in Requests, requests' = [requests EXCEPT ![r] = None],
           identities' \in [Subjects -> Users \cup {None}],
           IdentitiesOK',
           UNCHANGED <<accounts, tokens, invites, clock, claimed, member>>
    PROVE  IInv'
<1>0. TypeOK
  BY DEF IInv
<1>1. TypeOK'
  BY <1>0 DEF TypeOK
<1>2. Evolves /\ AccountsOK' /\ OneRefreshTokenPerSession' /\ AdminsAreMembersOrInvited'
  BY Untouched
<1>3. TokensOK' /\ RequestsOK'
  <2>1. \A x \in Requests : requests'[x] \in {None, requests[x]}
    BY <1>0 DEF TypeOK
  <2>2. \A t \in Tokens : SamePair(t)
    BY DEF SamePair
  <2>3. QED
    BY <1>1, <1>2, <2>1, <2>2, OthersLast
<1>4. QED
  BY <1>1, <1>2, <1>3 DEF IInv

\* An unlinked identity belongs to nobody.
LEMMA UnlinkIdentityStep ==
    ASSUME IInv, NEW r \in Requests, NEW s \in Subjects, UnlinkIdentity(r, s)
    PROVE  IInv'
<1>0. TypeOK /\ IdentitiesOK
  BY DEF IInv
<1>1. identities' = [identities EXCEPT ![s] = None]
      /\ UNCHANGED <<accounts, tokens, invites, clock, claimed, member>>
  BY DEF UnlinkIdentity
<1>2. identities' \in [Subjects -> Users \cup {None}]
  BY <1>0, <1>1 DEF TypeOK
<1>3. IdentitiesOK'
  BY <1>0, <1>1 DEF IdentitiesOK, Exists, TypeOK
<1>4. QED
  BY <1>1, <1>2, <1>3, IdentityStep DEF UnlinkIdentity, Done

\* A linked identity is of the person whose session is the owner's.
LEMMA LinkIdentityStep ==
    ASSUME IInv, NEW r \in Requests, NEW s \in Subjects, LinkIdentity(r, s)
    PROVE  IInv'
<1>0. TypeOK /\ IdentitiesOK
  BY DEF IInv
<1>1. PICK q \in Request : q = requests[r]
  BY <1>0 DEF LinkIdentity, Is, TypeOK
<1>2. q.kind = "link" /\ q.user \in Users
  BY <1>1 DEF LinkIdentity, Is, Request
<1>3. RequestOK(q)
  BY <1>1 DEF LinkIdentity, Is, IInv, RequestsOK
<1>4. /\ Person[s] = Person[q.proof]
      /\ accounts[q.user].version = q.row.version
      /\ identities' = [identities EXCEPT ![s] = q.user]
      /\ requests' = [requests EXCEPT ![r] = None]
      /\ UNCHANGED <<accounts, tokens, invites, clock, claimed, member>>
  BY <1>1 DEF LinkIdentity, Done
<1>5. Exists(q.user) /\ (claimed[q.user] # None => Person[s] = claimed[q.user])
  BY <1>2, <1>3, <1>4 DEF RequestOK, Good
<1>6. identities' \in [Subjects -> Users \cup {None}]
  BY <1>0, <1>2, <1>4 DEF TypeOK
<1>7. IdentitiesOK'
  BY <1>0, <1>4, <1>5 DEF IdentitiesOK, Exists, TypeOK
<1>8. QED
  BY <1>4, <1>6, <1>7, IdentityStep

\* The request that signs in with an identity.
LEMMA SsoRequest ==
    ASSUME IInv, NEW r \in Requests, Is(r, "sso")
    PROVE  /\ requests[r].subject \in Subjects \cap Active
           /\ requests[r].user \in Users \cup {None}
           /\ requests[r].user # None => Exists(requests[r].user)
<1>1. PICK q \in Request : q = requests[r]
  BY DEF Is, IInv, TypeOK
<1>2. q.kind = "sso" /\ q.subject \in Subjects /\ q.user \in Users \cup {None}
  BY <1>1 DEF Is, Request
<1>3. RequestOK(q)
  BY <1>1 DEF Is, IInv, RequestsOK
<1>4. QED
  BY <1>1, <1>2, <1>3 DEF RequestOK

\* Only members of the group leave a synchronised sign-in as admins.
LEMMA SyncedRow ==
    ASSUME TypeOK, NEW row \in Row, NEW inGroup \in BOOLEAN
    PROVE  LET low == Demoted(Synced(inGroup, row))
           IN  /\ low \in Row /\ low.version = row.version /\ low.password = row.password
               /\ AdminManaged /\ low.role = "admin" => inGroup
<1>1. Synced(inGroup, row) \in Row
      /\ Synced(inGroup, row).version = row.version
      /\ Synced(inGroup, row).password = row.password
      /\ (AdminManaged /\ Synced(inGroup, row).role = "admin" => inGroup)
  BY DEF Synced, RoleForGroups, Row, Roles, TypeOK
<1>2. QED
  BY <1>1, DemotedRow

\* The end of a sign-in with an identity, for any account it may resolve to.
LEMMA SignInStep ==
    ASSUME IInv, NEW r \in Requests, Is(r, "sso"), NEW u \in Users, NEW row \in Row,
           NEW before \in [Tokens -> Pair \cup {None}],
           \A t \in Tokens : tokens[t] # None =>
               before[t] \in {tokens[t], [tokens[t] EXCEPT !.live = FALSE]},
           \A t \in Tokens : tokens[t] = None => before[t] = None,
           NEW inGroup \in BOOLEAN, NEW n \in Tokens,
           SignIn(r, u, row, before, inGroup, n),
           identities' \in [Subjects -> Users \cup {None}],
           claimed' \in [Users -> People \cup {None}],
           \A v \in Users \ {u} : claimed'[v] = claimed[v],
           Exists(u) => \/ row.version > accounts[u].version
                        \/ /\ row.version = accounts[u].version
                           /\ row.password = accounts[u].password
                           /\ claimed'[u] = claimed[u],
           claimed'[u] # None =>
               /\ Person[requests[r].subject] = claimed'[u]
               /\ row.password # None => Person[row.password] = claimed'[u],
           \A x \in Subjects : identities'[x] # None =>
               \/ identities'[x] = u /\ (claimed'[u] # None => Person[x] = claimed'[u])
               \/ identities'[x] = identities[x] /\ identities[x] # u
    PROVE  IInv'
<1>0. TypeOK
  BY DEF IInv
<1>1. PICK s : s = requests[r].subject
  OBVIOUS
<1>2. s \in Subjects /\ s \in Credentials /\ s \notin Passwords
  BY <1>1, SsoRequest, ConstantsOK DEF Credentials
<1>3. PICK low : low = Demoted(Synced(inGroup, row))
  OBVIOUS
<1>4. /\ low \in Row /\ low.version = row.version /\ low.password = row.password
      /\ AdminManaged /\ low.role = "admin" => inGroup
  BY <1>0, <1>3, SyncedRow
<1>5. PICK k : k = NewPair(u, low, s, n)
  OBVIOUS
<1>6. /\ k \in Pair /\ k # None /\ k.user = u /\ k.version = low.version
      /\ k.proof = s /\ k.session = n
  BY <1>2, <1>4, <1>5, NewPairTyped
<1>7. /\ tokens[n] = None
      /\ accounts' = [accounts EXCEPT ![u] = low]
      /\ tokens' = [before EXCEPT ![n] = k]
      /\ member' = [member EXCEPT ![u] = AdminManaged /\ inGroup]
      /\ requests' = [requests EXCEPT ![r] = None]
      /\ UNCHANGED <<invites, clock>>
  BY <1>1, <1>3, <1>5 DEF SignIn, Done
<1>8. accounts'[u] = low /\ low # None /\ \A v \in Users \ {u} : accounts'[v] = accounts[v]
  BY <1>0, <1>4, <1>7, ConstantsOK DEF TypeOK
<1>9. tokens'[n] = k /\ \A t \in Tokens \ {n} : tokens'[t] = before[t]
  BY <1>7
<1>10. TypeOK'
  <2>1. (AdminManaged /\ inGroup) \in BOOLEAN
    OBVIOUS
  <2>2. member' \in [Users -> BOOLEAN]
    BY <1>0, <1>7, <2>1 DEF TypeOK
  <2>3. accounts' \in [Users -> Row \cup {None}]
    BY <1>0, <1>4, <1>7 DEF TypeOK
  <2>4. tokens' \in [Tokens -> Pair \cup {None}]
    BY <1>6, <1>7
  <2>5. requests' \in [Requests -> Request \cup {None}]
    BY <1>0, <1>7 DEF TypeOK
  <2>6. QED
    BY <1>0, <1>7, <2>2, <2>3, <2>4, <2>5 DEF TypeOK
<1>11. \A v \in Users : Exists(v) => accounts[v].version \in Nat
  BY <1>0 DEF TypeOK, Exists, Row
<1>12. Evolves
  BY <1>4, <1>8, <1>11 DEF Evolves, Exists
<1>13. AccountsOK'
  <2>1. SUFFICES ASSUME NEW v \in Users, claimed'[v] # None
                 PROVE  /\ accounts'[v] # None
                        /\ accounts'[v].password # None => Person[accounts'[v].password] = claimed'[v]
    BY DEF AccountsOK, Exists
  <2>2. CASE v = u
    BY <1>4, <1>8, <2>1, <2>2
  <2>3. CASE v # u
    BY <1>8, <2>1, <2>3 DEF IInv, AccountsOK, Exists
  <2>4. QED
    BY <2>2, <2>3
<1>14. IdentitiesOK'
  <2>1. SUFFICES ASSUME NEW x \in Subjects, identities'[x] # None
                 PROVE  /\ accounts'[identities'[x]] # None
                        /\ claimed'[identities'[x]] # None => Person[x] = claimed'[identities'[x]]
    BY DEF IdentitiesOK, Exists
  <2>2. CASE identities'[x] = u /\ (claimed'[u] # None => Person[x] = claimed'[u])
    BY <1>8, <2>2
  <2>3. CASE identities'[x] = identities[x] /\ identities[x] # u
    <3>1. identities[x] \in Users \ {u}
      BY <1>0, <2>1, <2>3 DEF TypeOK
    <3>2. QED
      BY <1>8, <2>1, <2>3, <3>1 DEF IInv, IdentitiesOK, Exists
  <2>4. QED
    BY <2>1, <2>2, <2>3
<1>15. \A t \in Tokens : tokens[t] # None => SamePair(t)
  BY <1>7, <1>9 DEF SamePair
<1>16. PairOK(tokens[n])'
  <2>1. low.version \in Nat
    BY <1>4 DEF Row
  <2>2. QED
    BY <1>1, <1>2, <1>6, <1>8, <1>9, <2>1 DEF PairOK, Good, GoodPassword, Exists
<1>17. TokensOK' /\ RequestsOK'
  <2>1. \A x \in Requests : requests'[x] \in {None, requests[x]}
    BY <1>0, <1>7 DEF TypeOK
  <2>2. QED
    BY <1>9, <1>10, <1>12, <1>15, <1>16, <2>1, OthersLast
<1>18. OneRefreshTokenPerSession'
  <2>1. \A t \in Tokens : tokens[t] # None => tokens[t].session # n
    BY <1>7 DEF IInv, TokensOK, PairOK
  <2>2. QED
    BY <1>6, <1>7, <1>9, <1>15, <2>1, SessionsStaySingle
<1>19. AdminsAreMembersOrInvited'
  <2>1. SUFFICES ASSUME AdminManaged, NEW v \in Users, EffectiveAdmin(v)',
                        ~ \E i \in Invites : invites'[i] # None /\ invites'[i] = [role |-> "admin", usedBy |-> v]
                 PROVE  member'[v]
    BY DEF AdminsAreMembersOrInvited
  <2>2. CASE v = u
    <3>1. low.role = "admin"
      BY <1>4, <1>8, <2>1, <2>2 DEF EffectiveAdmin, Demoted, NeedsDemotion, Row
    <3>2. QED
      BY <1>0, <1>4, <1>7, <2>1, <2>2, <3>1 DEF TypeOK
  <2>3. CASE v # u
    <3>1. EffectiveAdmin(v)
      BY <1>7, <1>8, <2>1, <2>3 DEF EffectiveAdmin, Exists, Demoted, NeedsDemotion
    <3>2. member[v]
      BY <1>7, <2>1, <3>1 DEF IInv, AdminsAreMembersOrInvited
    <3>3. QED
      BY <1>0, <1>7, <2>3, <3>2 DEF TypeOK
  <2>4. QED
    BY <2>2, <2>3
<1>20. QED
  BY <1>10, <1>13, <1>14, <1>17, <1>18, <1>19 DEF IInv

\* Signing in with an identity that is still linked.
LEMMA SignInLinkedStep ==
    ASSUME IInv, NEW r \in Requests, NEW inGroup \in BOOLEAN, NEW n \in Tokens,
           SignInLinked(r, inGroup, n)
    PROVE  IInv'
<1>0. TypeOK
  BY DEF IInv
<1>1. PICK u : u = requests[r].user
  OBVIOUS
<1>2. PICK s : s = requests[r].subject
  OBVIOUS
<1>3. Is(r, "sso") /\ u # None /\ identities[s] = u
      /\ SignIn(r, u, accounts[u], tokens, inGroup, n) /\ UNCHANGED <<identities, claimed>>
  BY <1>1, <1>2 DEF SignInLinked
<1>4. s \in Subjects /\ u \in Users /\ Exists(u)
  BY <1>1, <1>2, <1>3, SsoRequest
<1>5. accounts[u] \in Row
  BY <1>0, <1>4 DEF TypeOK, Exists
<1>6. claimed[u] # None =>
        /\ Person[s] = claimed[u]
        /\ accounts[u].password # None => Person[accounts[u].password] = claimed[u]
  BY <1>3, <1>4 DEF IInv, IdentitiesOK, AccountsOK
<1>7. \A x \in Subjects : identities'[x] # None =>
        \/ identities'[x] = u /\ (claimed'[u] # None => Person[x] = claimed'[u])
        \/ identities'[x] = identities[x] /\ identities[x] # u
  BY <1>3 DEF IInv, IdentitiesOK
<1>8. /\ identities' \in [Subjects -> Users \cup {None}]
      /\ claimed' \in [Users -> People \cup {None}]
      /\ tokens \in [Tokens -> Pair \cup {None}]
  BY <1>0, <1>3 DEF TypeOK
<1>9. QED
  BY <1>2, <1>3, <1>4, <1>5, <1>6, <1>7, <1>8, SignInStep

\* Taking an account over drops all that its new owner did not bring.
LEMMA TakeOverStep ==
    ASSUME IInv, NEW r \in Requests, NEW u \in Users, NEW inGroup \in BOOLEAN,
           NEW n \in Tokens, TakeOver(r, u, inGroup, n)
    PROVE  IInv'
<1>0. TypeOK
  BY DEF IInv
<1>1. PICK s : s = requests[r].subject
  OBVIOUS
<1>2. Is(r, "sso") /\ u \in ByEmail(AddressOf[s]) /\ identities[s] \in {None, u}
  BY <1>1 DEF TakeOver, Unlinked
<1>3. Exists(u) /\ accounts[u] \in Row
  BY <1>0, <1>2 DEF ByEmail, SameMailbox, Exists, TypeOK
<1>4. PICK acc \in Row : acc = accounts[u]
  BY <1>3
<1>5. PICK row : row = [acc EXCEPT !.password = None, !.version = @ + 1]
  OBVIOUS
<1>6. row \in Row /\ row.password = None /\ row.version > acc.version
  <2>1. acc.version \in Nat /\ acc.version + 1 \in Nat
    BY DEF Row
  <2>2. row.version = acc.version + 1 /\ row.password = None
    BY <1>5 DEF Row
  <2>3. [acc EXCEPT !.password = None, !.version = acc.version + 1] \in Row
    BY <2>1 DEF Row
  <2>4. QED
    BY <1>5, <2>1, <2>2, <2>3
<1>7. PICK before : before = Revoked(u)
  OBVIOUS
<1>8. /\ SignIn(r, u, row, before, inGroup, n)
      /\ claimed' = [claimed EXCEPT ![u] = Person[s]]
      /\ identities' = [x \in Subjects |->
                IF x = s THEN u ELSE IF identities[x] = u THEN None ELSE identities[x]]
  BY <1>1, <1>4, <1>5, <1>7 DEF TakeOver
<1>9. /\ before \in [Tokens -> Pair \cup {None}]
      /\ \A t \in Tokens : before[t] \in {tokens[t], [tokens[t] EXCEPT !.live = FALSE]}
      /\ \A t \in Tokens : tokens[t] = None => before[t] = None
  BY <1>0, <1>7, RevokedSame
<1>10. s \in Subjects
  BY <1>1, <1>2, SsoRequest
<1>11. Person[s] \in People
  BY <1>10 DEF People, Credentials
<1>12. claimed' \in [Users -> People \cup {None}] /\ claimed'[u] = Person[s]
       /\ \A v \in Users \ {u} : claimed'[v] = claimed[v]
  BY <1>0, <1>8, <1>11 DEF TypeOK
<1>13. identities' \in [Subjects -> Users \cup {None}]
  BY <1>0, <1>8 DEF TypeOK
<1>14. \A x \in Subjects : identities'[x] # None =>
        \/ identities'[x] = u /\ (claimed'[u] # None => Person[x] = claimed'[u])
        \/ identities'[x] = identities[x] /\ identities[x] # u
  BY <1>8, <1>12
<1>15. QED
  BY <1>1, <1>2, <1>3, <1>4, <1>6, <1>8, <1>9, <1>12, <1>13, <1>14, SignInStep

\* Signing up creates an account with an owner.
LEMMA SignUpStep ==
    ASSUME IInv, NEW r \in Requests, NEW inGroup \in BOOLEAN, NEW n \in Tokens,
           SignUp(r, inGroup, n)
    PROVE  IInv'
<1>0. TypeOK
  BY DEF IInv
<1>1. PICK s : s = requests[r].subject
  OBVIOUS
<1>2. PICK u : u = AddressOf[s]
  OBVIOUS
<1>3. PICK row : row = NewRow(None)
  OBVIOUS
<1>4. /\ Is(r, "sso")
      /\ SameMailbox(u) = {}
      /\ identities[s] = None
      /\ identities' = [identities EXCEPT ![s] = u]
      /\ SignIn(r, u, row, tokens, inGroup, n)
      /\ claimed' = [claimed EXCEPT ![u] = Person[s]]
  BY <1>1, <1>2, <1>3 DEF SignUp, Unlinked
<1>5. s \in Subjects
  BY <1>1, <1>4, SsoRequest
<1>6. u \in Users
  BY <1>2, <1>5, ConstantsOK
<1>7. ~Exists(u)
  BY <1>4, <1>6 DEF SameMailbox
<1>8. row \in Row /\ row.password = None
  BY <1>3 DEF NewRow, Row, Roles
<1>9. Person[s] \in People
  BY <1>5 DEF People, Credentials
<1>10. claimed' \in [Users -> People \cup {None}] /\ claimed'[u] = Person[s]
       /\ \A v \in Users \ {u} : claimed'[v] = claimed[v]
  BY <1>0, <1>4, <1>6, <1>9 DEF TypeOK
<1>11. identities' \in [Subjects -> Users \cup {None}]
  BY <1>0, <1>4, <1>6 DEF TypeOK
<1>12. \A x \in Subjects : identities'[x] # None =>
        \/ identities'[x] = u /\ (claimed'[u] # None => Person[x] = claimed'[u])
        \/ identities'[x] = identities[x] /\ identities[x] # u
  BY <1>0, <1>4, <1>5, <1>7, <1>10 DEF IInv, IdentitiesOK, TypeOK
<1>13. tokens \in [Tokens -> Pair \cup {None}]
  BY <1>0 DEF TypeOK
<1>14. QED
  BY <1>1, <1>4, <1>6, <1>7, <1>8, <1>10, <1>11, <1>12, <1>13, SignInStep

-----------------------------------------------------------------------------
(* Invites and time.                                                       *)

\* A new admin invite is not possible while the group decides.
LEMMA CreateInviteStep ==
    ASSUME IInv, NEW i \in Invites, NEW t \in Tokens, NEW u \in Users, NEW role \in Roles,
           CreateInvite(i, t, u, role)
    PROVE  IInv'
<1>0. TypeOK
  BY DEF IInv
<1>1. /\ invites[i] = None
      /\ invites' = [invites EXCEPT ![i] = [role |-> role, usedBy |-> None]]
      /\ UNCHANGED <<accounts, identities, tokens, requests, clock, claimed, member>>
  BY DEF CreateInvite
<1>2. TypeOK'
  BY <1>0, <1>1 DEF TypeOK, Invite
<1>3. Evolves /\ AccountsOK' /\ IdentitiesOK' /\ OneRefreshTokenPerSession'
  BY <1>1, Untouched
<1>4. AdminsAreMembersOrInvited'
  <2>1. \A j \in Invites : invites[j] # None => invites'[j] = invites[j]
    BY <1>0, <1>1 DEF TypeOK
  <2>2. \A v \in Users : EffectiveAdmin(v)' => EffectiveAdmin(v)
    BY <1>1 DEF EffectiveAdmin, Exists, Demoted, NeedsDemotion
  <2>3. QED
    BY <1>1, <2>1, <2>2 DEF IInv, AdminsAreMembersOrInvited
<1>5. TokensOK' /\ RequestsOK'
  BY <1>1, <1>2, <1>3, OthersLast DEF SamePair
<1>6. QED
  BY <1>2, <1>3, <1>4, <1>5 DEF IInv

\* An accepted admin invite vouches for its user.
LEMMA AcceptInviteStep ==
    ASSUME IInv, NEW r \in Requests, AcceptInvite(r)
    PROVE  IInv'
<1>0. TypeOK
  BY DEF IInv
<1>1. PICK q \in Request : q = requests[r]
  BY <1>0 DEF AcceptInvite, Is, TypeOK
<1>2. q.kind = "accept" /\ q.user \in Users /\ q.invite \in Invites
  BY <1>1 DEF AcceptInvite, Is, Request
<1>3. PICK u, i : u = q.user /\ i = q.invite
  OBVIOUS
<1>4. Exists(u)
  BY <1>1, <1>2, <1>3 DEF AcceptInvite, Is, IInv, RequestsOK, RequestOK
<1>5. accounts[u] \in Row /\ u \in Users /\ i \in Invites
  BY <1>0, <1>2, <1>3, <1>4 DEF TypeOK, Exists
<1>6. Unused(i)
  BY <1>1, <1>3 DEF AcceptInvite
<1>7. invites[i] \in Invite
  BY <1>0, <1>5, <1>6 DEF Unused, TypeOK
<1>8. PICK role : role = IF Rank(invites[i].role) > Rank(accounts[u].role)
                         THEN invites[i].role ELSE accounts[u].role
  OBVIOUS
<1>9. role \in Roles /\ role \in {invites[i].role, accounts[u].role}
  BY <1>5, <1>7, <1>8 DEF Row, Invite
<1>10. PICK row : row = [accounts[u] EXCEPT !.role = role]
  OBVIOUS
<1>11. row \in Row /\ row.version = accounts[u].version /\ row.password = accounts[u].password
       /\ row.role = role /\ (role = accounts[u].role => row = accounts[u])
  BY <1>5, <1>9, <1>10 DEF Row
<1>12. PICK used : used = [invites[i] EXCEPT !.usedBy = u]
  OBVIOUS
<1>13. used \in Invite /\ (invites[i].role = "admin" => used = [role |-> "admin", usedBy |-> u])
  BY <1>5, <1>7, <1>12 DEF Invite
<1>14. /\ accounts' = [accounts EXCEPT ![u] = row]
       /\ invites' = [invites EXCEPT ![i] = used]
       /\ requests' = [requests EXCEPT ![r] = None]
       /\ UNCHANGED <<identities, tokens, clock, claimed, member>>
  BY <1>1, <1>3, <1>8, <1>10, <1>12 DEF AcceptInvite, Done
<1>15. /\ accounts' \in [Users -> Row \cup {None}]
       /\ Evolves /\ AccountsOK' /\ IdentitiesOK'
       /\ accounts'[u] = row /\ row # None
       /\ \A v \in Users \ {u} : accounts'[v] = accounts[v]
  BY <1>4, <1>5, <1>11, <1>14, RoleStep
<1>16. TypeOK'
  BY <1>0, <1>13, <1>14, <1>15 DEF TypeOK
<1>17. OneRefreshTokenPerSession'
  BY <1>14, Untouched
<1>18. AdminsAreMembersOrInvited'
  <2>1. invites'[i] = used /\ used # None /\ \A j \in Invites \ {i} : invites'[j] = invites[j]
    BY <1>0, <1>5, <1>13, <1>14, ConstantsOK DEF TypeOK
  <2>2. SUFFICES ASSUME AdminManaged, NEW v \in Users, EffectiveAdmin(v)', ~member'[v]
                 PROVE  \E j \in Invites : invites'[j] # None
                            /\ invites'[j] = [role |-> "admin", usedBy |-> v]
    BY DEF AdminsAreMembersOrInvited
  <2>3. CASE EffectiveAdmin(v)
    <3>1. PICK j \in Invites : invites[j] # None /\ invites[j] = [role |-> "admin", usedBy |-> v]
      BY <1>14, <2>2, <2>3 DEF IInv, AdminsAreMembersOrInvited
    <3>2. v # None
      BY ConstantsOK
    <3>3. j # i
      BY <1>6, <3>1, <3>2 DEF Unused
    <3>4. QED
      BY <2>1, <3>1, <3>3
  <2>4. CASE ~EffectiveAdmin(v)
    <3>1. v = u /\ role # accounts[u].role
      BY <1>11, <1>14, <1>15, <2>2, <2>4 DEF EffectiveAdmin, Exists, Demoted, NeedsDemotion
    <3>2. Demoted(row)' = Demoted(row)
      BY <1>14 DEF Demoted, NeedsDemotion
    <3>3. row.role = "admin"
      BY <1>11, <1>14, <1>15, <2>2, <3>1, <3>2, DemotedRow DEF EffectiveAdmin, Demoted, NeedsDemotion
    <3>4. used = [role |-> "admin", usedBy |-> u]
      BY <1>9, <1>11, <1>13, <3>1, <3>3
    <3>5. QED
      BY <1>5, <2>1, <3>1, <3>4
  <2>5. QED
    BY <2>3, <2>4
<1>19. TokensOK' /\ RequestsOK'
  <2>1. \A x \in Requests : requests'[x] \in {None, requests[x]}
    BY <1>0, <1>14 DEF TypeOK
  <2>2. \A t \in Tokens : SamePair(t)
    BY <1>14 DEF SamePair
  <2>3. QED
    BY <1>14, <1>15, <1>16, <2>1, <2>2, OthersLast
<1>20. QED
  BY <1>15, <1>16, <1>17, <1>18, <1>19 DEF IInv

\* Time only takes admin rights away.
LEMMA TickStep ==
    ASSUME IInv, Tick
    PROVE  IInv'
<1>0. TypeOK
  BY DEF IInv
<1>1. clock' = clock + 1 /\ clock \in Nat
      /\ UNCHANGED <<accounts, identities, tokens, requests, invites, claimed, member>>
  BY <1>0 DEF Tick, TypeOK
<1>2. TypeOK'
  BY <1>0, <1>1 DEF TypeOK
<1>3. Evolves /\ AccountsOK' /\ IdentitiesOK' /\ OneRefreshTokenPerSession'
  BY <1>1, Untouched
<1>4. AdminsAreMembersOrInvited'
  <2>1. \A v \in Users : EffectiveAdmin(v)' => EffectiveAdmin(v)
    <3>1. SUFFICES ASSUME NEW v \in Users, EffectiveAdmin(v)' PROVE EffectiveAdmin(v)
      OBVIOUS
    <3>2. accounts[v] \in Row /\ accounts[v].synced \in Nat
      BY <1>0, <1>1, <3>1 DEF EffectiveAdmin, Exists, TypeOK, Row
    <3>3. NeedsDemotion(accounts[v]) => NeedsDemotion(accounts[v])'
      BY <1>1, <3>2, ConstantsOK DEF NeedsDemotion
    <3>4. accounts[v].role = "admin" /\ ~NeedsDemotion(accounts[v])'
      BY <1>1, <3>1, <3>2 DEF EffectiveAdmin, Exists, Demoted, Row, NeedsDemotion
    <3>5. QED
      BY <3>2, <3>3, <3>4, <1>1, <3>1 DEF EffectiveAdmin, Exists, Demoted
  <2>2. QED
    BY <1>1, <2>1 DEF IInv, AdminsAreMembersOrInvited
<1>5. TokensOK' /\ RequestsOK'
  BY <1>1, <1>2, <1>3, OthersLast DEF SamePair
<1>6. QED
  BY <1>2, <1>3, <1>4, <1>5 DEF IInv

-----------------------------------------------------------------------------
(* The invariant holds of every behaviour.                                 *)

\* A fresh installation, with or without accounts from before, is sound.
LEMMA InitIInv == Init => IInv
<1> SUFFICES ASSUME Init PROVE IInv
  OBVIOUS
<1>1. PICK pw \in [Founders -> Passwords \cup {None}] :
        accounts = [u \in Users |->
            IF u \in Founders
            THEN [version |-> 0, password |-> pw[u], role |-> "admin", synced |-> 0]
            ELSE None]
  BY DEF Init
<1>2. \A u \in Founders : u \in Users /\ pw[u] \in Passwords \cup {None}
  BY ConstantsOK
<1>3. \A u \in Founders : /\ accounts[u] \in Row /\ Exists(u)
                          /\ accounts[u].role = "admin" /\ accounts[u].synced = 0
  <2> SUFFICES ASSUME NEW u \in Founders
               PROVE  /\ accounts[u] \in Row /\ Exists(u)
                      /\ accounts[u].role = "admin" /\ accounts[u].synced = 0
    OBVIOUS
  <2>1. accounts[u] = [version |-> 0, password |-> pw[u], role |-> "admin", synced |-> 0]
    BY <1>1, <1>2
  <2>2. accounts[u] \in Row
    BY <2>1, <1>2 DEF Row, Roles
  <2> QED
    BY <2>1, <2>2, ConstantsOK DEF Exists
<1>4. \A u \in Users \ Founders : accounts[u] = None
  BY <1>1
<1>5. accounts \in [Users -> Row \cup {None}]
  <2>1. \A u \in Users : accounts[u] \in Row \cup {None}
    BY <1>3, <1>4
  <2>2. accounts = [u \in Users |-> accounts[u]]
    BY <1>1
  <2> QED
    BY <2>1, <2>2
<1>6. identities \in [Subjects -> Founders \cup {None}]
  BY DEF Init
<1>7. \A i \in Invites : invites[i] \in Invite \cup {None}
  BY DEF Init, Invite
<1>8. TypeOK
  <2>1. invites \in [Invites -> Invite \cup {None}]
    BY <1>7 DEF Init
  <2>2. identities \in [Subjects -> Users \cup {None}]
    BY <1>2, <1>6
  <2> QED
    BY <1>5, <2>1, <2>2 DEF Init, TypeOK
<1>9. TokensOK /\ RequestsOK /\ AccountsOK /\ OneRefreshTokenPerSession
  BY DEF Init, TokensOK, RequestsOK, AccountsOK, OneRefreshTokenPerSession
<1>10. IdentitiesOK
  <2>1. \A s \in Subjects : identities[s] # None => identities[s] \in Founders
    BY <1>6
  <2>2. \A u \in Founders : claimed[u] = None
    BY <1>2 DEF Init
  <2> QED
    BY <1>3, <2>1, <2>2 DEF IdentitiesOK
<1>11. AdminsAreMembersOrInvited
  <2> SUFFICES ASSUME AdminManaged, NEW u \in Users, EffectiveAdmin(u) PROVE FALSE
    BY DEF AdminsAreMembersOrInvited
  <2>1. u \in Founders
    BY <1>4 DEF EffectiveAdmin, Exists
  <2>2. accounts[u] \in Row /\ NeedsDemotion(accounts[u])
    BY <1>3, <2>1 DEF NeedsDemotion
  <2> QED
    BY <2>2, DemotedRow DEF EffectiveAdmin
<1> QED
  BY <1>8, <1>9, <1>10, <1>11 DEF IInv

\* Every request, callback and tick preserves the invariant.
LEMMA NextIInv == IInv /\ [Next]_vars => IInv'
<1> SUFFICES ASSUME IInv, [Next]_vars PROVE IInv'
  OBVIOUS
<1>1. ASSUME NEW r \in Requests, ByPassword(r) PROVE IInv'
  <2>1. ASSUME NEW t \in Tokens, NEW u \in Users, StartChange(r, t, u) PROVE IInv'
    BY <2>1, SessionCopyStep DEF StartChange
  <2> QED
    BY <1>1, <2>1, StartRegisterStep, StartLoginStep, CreateUserStep, DemoteOnLoginStep,
       IssueOnLoginStep, ChangePasswordStep DEF ByPassword
<1>2. ASSUME NEW r \in Requests, ByIdentity(r) PROVE IInv'
  <2>1. ASSUME NEW t \in Tokens, NEW u \in Users, NEW kind \in {"unlink", "link"},
               StartWithSession(r, t, u, kind)
        PROVE  IInv'
    <3>1. kind \in {"change", "unlink", "link"}
      OBVIOUS
    <3> QED
      BY <2>1, <3>1, SessionCopyStep DEF StartWithSession
  <2> QED
    BY <1>2, <2>1, UnlinkIdentityStep, LinkIdentityStep, StartSSOStep, SignInLinkedStep,
       TakeOverStep, SignUpStep DEF ByIdentity
<1>3. ASSUME NEW r \in Requests, ByInvite(r) PROVE IInv'
  BY <1>3, StartAcceptStep, AcceptInviteStep DEF ByInvite
<1>4. CASE UNCHANGED vars
  <2>1. /\ UNCHANGED <<accounts, identities, tokens, requests, invites, clock, claimed, member>>
    BY <1>4 DEF vars
  <2>2. TypeOK'
    BY <2>1 DEF IInv, TypeOK
  <2>3. \A u, v, p : /\ Good(u, v, p) => Good(u, v, p)'
                     /\ GoodPassword(u, v, p) => GoodPassword(u, v, p)'
    BY <2>1 DEF Good, GoodPassword, Exists
  <2>4. TokensOK' /\ RequestsOK'
    BY <2>1, <2>3 DEF IInv, TokensOK, RequestsOK, PairOK, RequestOK, Exists
  <2> QED
    BY <2>1, <2>2, <2>4, Untouched DEF IInv
<1> QED
  BY <1>1, <1>2, <1>3, <1>4, AbandonStep, RefreshStep, LogoutStep, CreateInviteStep, TickStep
  DEF Next

\* Every session and every request relies only on what is still true of its
\* account, or on a version that is gone.
THEOREM SpecIInv == Spec => []IInv
BY InitIInv, NextIInv, PTL DEF Spec

\* Rows, sessions and requests keep their types.
THEOREM TypeCorrect == Spec => []TypeOK
<1>1. IInv => TypeOK
  BY DEF IInv
<1> QED
  BY <1>1, SpecIInv, PTL

\* No session opened with a password outlives that password.
THEOREM SessionsFollowPasswords == Spec => []PasswordSessionsFollowThePassword
<1>1. IInv => PasswordSessionsFollowThePassword
  BY DEF IInv, TokensOK, PairOK, GoodPassword, PasswordSessionsFollowThePassword, Usable, Authentic
<1> QED
  BY <1>1, SpecIInv, PTL

\* A claimed account is its owner's alone.
THEOREM OwnersKeepTheirAccounts == Spec => []ClaimedAccountIsTheOwners
<1>1. IInv => ClaimedAccountIsTheOwners
  <2> SUFFICES ASSUME IInv, NEW u \in Users, claimed[u] # None
               PROVE  /\ accounts[u].password # None => Person[accounts[u].password] = claimed[u]
                      /\ \A s \in Linked(u) : Person[s] = claimed[u]
                      /\ \A t \in Tokens : Usable(t) /\ tokens[t].user = u =>
                            Person[tokens[t].proof] = claimed[u]
    BY DEF ClaimedAccountIsTheOwners
  <2>1. accounts[u].password # None => Person[accounts[u].password] = claimed[u]
    BY DEF IInv, AccountsOK
  <2>2. \A s \in Linked(u) : Person[s] = claimed[u]
    BY ConstantsOK DEF IInv, IdentitiesOK, Linked
  <2>3. \A t \in Tokens : Usable(t) /\ tokens[t].user = u => Person[tokens[t].proof] = claimed[u]
    BY DEF IInv, TokensOK, PairOK, Good, Usable, Authentic
  <2> QED
    BY <2>1, <2>2, <2>3
<1> QED
  BY <1>1, SpecIInv, PTL

\* Refreshing, however it races, never leaves a session two live refresh tokens.
THEOREM SessionsDoNotSplit == Spec => []OneRefreshTokenPerSession
<1>1. IInv => OneRefreshTokenPerSession
  BY DEF IInv
<1> QED
  BY <1>1, SpecIInv, PTL

\* Admin rights are vouched for by the group, or by an admin's invite.
THEOREM AdminsAreVouchedFor == Spec => []AdminsAreMembersOrInvited
<1>1. IInv => AdminsAreMembersOrInvited
  BY DEF IInv
<1> QED
  BY <1>1, SpecIInv, PTL

-----------------------------------------------------------------------------
(* What no step does.                                                      *)

\* No step rewrites an invite that was used.
THEOREM UsedInvitesStay == Spec => InvitesAreUsedOnce
<1>1. [Next]_vars => [\A i \in Invites : invites[i] # None /\ invites[i].usedBy # None =>
                        invites'[i] = invites[i]]_vars
  <2> SUFFICES ASSUME Next
               PROVE  \A i \in Invites : invites[i] # None /\ invites[i].usedBy # None =>
                        invites'[i] = invites[i]
    OBVIOUS
  <2>1. ASSUME NEW r \in Requests, ByPassword(r) PROVE invites' = invites
    BY <2>1 DEF ByPassword, StartRegister, StartLogin, CreateUser, DemoteOnLogin, IssueOnLogin,
       StartChange, ChangePassword
  <2>2. ASSUME NEW r \in Requests, ByIdentity(r) PROVE invites' = invites
    BY <2>2 DEF ByIdentity, StartWithSession, UnlinkIdentity, LinkIdentity, StartSSO,
       SignInLinked, TakeOver, SignUp, SignIn
  <2>3. ASSUME NEW r \in Requests, AcceptInvite(r)
        PROVE  \A i \in Invites : invites[i] # None /\ invites[i].usedBy # None =>
                 invites'[i] = invites[i]
    BY <2>3 DEF AcceptInvite, Unused
  <2>4. ASSUME NEW i \in Invites, NEW t \in Tokens, NEW u \in Users, NEW role \in Roles,
               CreateInvite(i, t, u, role)
        PROVE  \A j \in Invites : invites[j] # None /\ invites[j].usedBy # None =>
                 invites'[j] = invites[j]
    BY <2>4 DEF CreateInvite
  <2>5. ASSUME NEW r \in Requests, Abandon(r) PROVE invites' = invites
    BY <2>5 DEF Abandon
  <2>6. ASSUME NEW r \in Requests, NEW t \in Tokens, NEW u \in Users, NEW i \in Invites,
               StartAccept(r, t, u, i)
        PROVE  invites' = invites
    BY <2>6 DEF StartAccept
  <2>7. ASSUME Tick \/ \E t, n \in Tokens : Refresh(t, n) \/ Logout(t) PROVE invites' = invites
    BY <2>7 DEF Tick, Refresh, Logout
  <2> QED
    BY <2>1, <2>2, <2>3, <2>4, <2>5, <2>6, <2>7 DEF Next, ByInvite
<1> QED
  BY <1>1, PTL DEF Spec, InvitesAreUsedOnce

LoginsRemain == \A u \in Users : CanSignIn(u) => CanSignIn(u)'

\* Whoever keeps identities and a password keeps a way to sign in.
LEMMA PasswordsKept ==
    ASSUME identities' = identities,
           \A u \in Users : Exists(u) =>
               /\ accounts'[u] # None
               /\ accounts[u].password # None => accounts'[u].password # None
    PROVE  LoginsRemain
BY DEF LoginsRemain, CanSignIn, HasLoginMethod, Linked, Exists

\* Replacing the row of one account, with all its identities kept.
LEMMA RowKept ==
    ASSUME TypeOK, identities' = identities, NEW u \in Users, NEW row \in Row,
           accounts' = [accounts EXCEPT ![u] = row],
           Exists(u) /\ accounts[u].password # None => row.password # None
    PROVE  LoginsRemain
<1>1. accounts'[u] = row /\ row # None
  BY ConstantsOK DEF TypeOK
<1>2. \A v \in Users \ {u} : accounts'[v] = accounts[v]
  BY DEF TypeOK
<1> QED
  BY <1>1, <1>2, PasswordsKept DEF Exists

\* Replacing the role of one account.
LEMMA RoleKept ==
    ASSUME TypeOK, identities' = identities, NEW u \in Users, Exists(u), NEW role \in Roles,
           accounts' = [accounts EXCEPT ![u].role = role]
    PROVE  LoginsRemain
<1>1. accounts[u] \in Row
  BY DEF TypeOK, Exists
<1>2. PICK row : row = [accounts[u] EXCEPT !.role = role]
  OBVIOUS
<1>3. row \in Row /\ row.password = accounts[u].password
  BY <1>1, <1>2 DEF Row
<1>4. accounts' = [accounts EXCEPT ![u] = row]
  BY <1>2
<1> QED
  BY <1>3, <1>4, RowKept

\* An account that gets an identity of the configured issuer, while nobody
\* else loses one, can be signed in to.
LEMMA IdentityGained ==
    ASSUME IInv, NEW u \in Users, NEW s \in Subjects \cap Active, NEW row \in Row,
           accounts' = [accounts EXCEPT ![u] = row],
           identities' \in [Subjects -> Users \cup {None}], identities'[s] = u,
           identities[s] \in {None, u},
           \A x \in Subjects : identities[x] \notin {None, u} => identities'[x] = identities[x]
    PROVE  LoginsRemain
<1>0. accounts \in [Users -> Row \cup {None}] /\ None \notin Users /\ None \notin Row
  BY ConstantsOK DEF IInv, TypeOK
<1>1. CanSignIn(u)'
  <2>1. s \in Linked(u)'
    BY DEF Linked
  <2>2. accounts'[u] # None
    BY <1>0
  <2> QED
    BY <2>1, <2>2 DEF CanSignIn, HasLoginMethod, Exists
<1>2. ASSUME NEW v \in Users \ {u}, CanSignIn(v) PROVE CanSignIn(v)'
  <2>1. Linked(v) \subseteq Linked(v)'
    BY <1>0 DEF Linked
  <2>2. accounts'[v] = accounts[v]
    BY <1>0
  <2> QED
    BY <1>2, <2>1, <2>2 DEF CanSignIn, HasLoginMethod, Exists
<1> QED
  BY <1>1, <1>2 DEF LoginsRemain

\* The row a sign-in leaves behind.
LEMMA SignInRow ==
    ASSUME TypeOK, NEW r, NEW u \in Users, NEW row \in Row, NEW before, NEW inGroup \in BOOLEAN,
           NEW n, SignIn(r, u, row, before, inGroup, n)
    PROVE  \E low \in Row : /\ low.password = row.password
                            /\ accounts' = [accounts EXCEPT ![u] = low]
<1>1. PICK low : low = Demoted(Synced(inGroup, row))
  OBVIOUS
<1>2. low \in Row /\ low.password = row.password
  BY <1>1, SyncedRow
<1>3. accounts' = [accounts EXCEPT ![u] = low]
  BY <1>1 DEF SignIn
<1> QED
  BY <1>2, <1>3

\* Steps that keep accounts and identities.
LEMMA NothingLost == accounts' = accounts /\ identities' = identities => LoginsRemain
BY PasswordsKept DEF Exists

\* Passwords: they are only replaced by passwords.
LEMMA ByPasswordKeepsLogins ==
    ASSUME IInv, NEW r \in Requests, ByPassword(r)
    PROVE  LoginsRemain
<1>0. TypeOK
  BY DEF IInv
<1>1. ASSUME CreateUser(r) PROVE LoginsRemain
  <2>1. PICK u : u = requests[r].user
    OBVIOUS
  <2>2. PICK row : row = NewRow(requests[r].proof)
    OBVIOUS
  <2>3. ~Exists(u) /\ accounts' = [accounts EXCEPT ![u] = row] /\ identities' = identities
    BY <1>1, <2>1, <2>2 DEF CreateUser
  <2>4. PICK q \in Request : q = requests[r] /\ q.kind = "register"
    BY <1>0, <1>1 DEF CreateUser, Is, TypeOK
  <2>5. u \in Users /\ requests[r].proof \in Passwords
    BY <2>1, <2>4 DEF Request
  <2>6. row \in Row
    BY <2>2, <2>5 DEF NewRow, Row, Roles
  <2> QED
    BY <1>0, <2>3, <2>5, <2>6, RowKept
<1>2. ASSUME DemoteOnLogin(r) PROVE LoginsRemain
  <2>1. PICK q \in Request : q = requests[r] /\ q.kind = "issue"
    BY <1>0, <1>2 DEF DemoteOnLogin, Is, TypeOK
  <2>2. q.user \in Users /\ q.row \in Row /\ Exists(q.user)
    BY <1>2, <2>1 DEF DemoteOnLogin, Is, Request, IInv, RequestsOK, RequestOK, Good
  <2>3. PICK role : role = Demoted(q.row).role
    OBVIOUS
  <2>4. role \in Roles
    BY <2>2, <2>3, DemotedRow DEF Row
  <2>5. accounts' = [accounts EXCEPT ![q.user].role = role] /\ identities' = identities
    BY <1>2, <2>1, <2>3 DEF DemoteOnLogin
  <2> QED
    BY <1>0, <2>2, <2>4, <2>5, RoleKept
<1>3. ASSUME NEW p \in Passwords, NEW n \in Tokens, ChangePassword(r, p, n) PROVE LoginsRemain
  <2>1. PICK q \in Request : q = requests[r] /\ q.kind = "change"
    BY <1>0, <1>3 DEF ChangePassword, Is, TypeOK
  <2>2. PICK u : u = q.user
    OBVIOUS
  <2>3. u \in Users /\ Exists(u)
    BY <1>3, <2>1, <2>2 DEF ChangePassword, Is, Request, IInv, RequestsOK, RequestOK, Good
  <2>4. PICK acc \in Row : acc = accounts[u]
    BY <1>0, <2>3 DEF TypeOK, Exists
  <2>5. PICK bumped : bumped = [acc EXCEPT !.password = p, !.version = @ + 1]
    OBVIOUS
  <2>6. bumped \in Row /\ bumped.password = p
    <3>1. acc.version \in Nat /\ acc.version + 1 \in Nat
      BY DEF Row
    <3>2. [acc EXCEPT !.password = p, !.version = acc.version + 1] \in Row
      BY <3>1 DEF Row
    <3> QED
      BY <2>5, <3>2 DEF Row
  <2>7. PICK row : row = Demoted(bumped)
    OBVIOUS
  <2>8. row \in Row /\ row.password = p /\ p # None
    BY <2>6, <2>7, DemotedRow, ConstantsOK DEF Credentials
  <2>9. accounts' = [accounts EXCEPT ![u] = row] /\ identities' = identities
    BY <1>3, <2>1, <2>2, <2>4, <2>5, <2>7 DEF ChangePassword
  <2> QED
    BY <1>0, <2>3, <2>8, <2>9, RowKept
<1>4. ASSUME \/ \E u \in Users, p \in Passwords : StartRegister(r, u, p) \/ StartLogin(r, u, p)
             \/ \E t \in Tokens : IssueOnLogin(r, t)
             \/ \E t \in Tokens, u \in Users : StartChange(r, t, u)
      PROVE  LoginsRemain
  BY <1>4, NothingLost DEF StartRegister, StartLogin, IssueOnLogin, StartChange
<1> QED
  BY <1>1, <1>2, <1>3, <1>4 DEF ByPassword

\* Identities: unlinking leaves another way, and taking over brings one.
LEMMA ByIdentityKeepsLogins ==
    ASSUME IInv, NEW r \in Requests, ByIdentity(r)
    PROVE  LoginsRemain
<1>0. TypeOK
  BY DEF IInv
<1>1. ASSUME NEW s \in Subjects, UnlinkIdentity(r, s) PROVE LoginsRemain
  <2>1. PICK u : u = requests[r].user
    OBVIOUS
  <2>2. /\ identities[s] = u /\ HasLoginMethod(accounts[u], Linked(u) \ {s})
        /\ identities' = [identities EXCEPT ![s] = None] /\ accounts' = accounts
    BY <1>1, <2>1 DEF UnlinkIdentity
  <2>3. \A v \in Users : Linked(v)' = IF v = u THEN Linked(v) \ {s} ELSE Linked(v)
    BY <1>0, <2>2, ConstantsOK DEF Linked, TypeOK
  <2> QED
    BY <2>2, <2>3 DEF LoginsRemain, CanSignIn, HasLoginMethod, Exists
<1>2. ASSUME NEW s \in Subjects, LinkIdentity(r, s) PROVE LoginsRemain
  <2>1. PICK u : u = requests[r].user
    OBVIOUS
  <2>2. /\ identities[s] \in {None, u}
        /\ identities' = [identities EXCEPT ![s] = u] /\ accounts' = accounts
    BY <1>2, <2>1 DEF LinkIdentity
  <2>3. \A v \in Users : Linked(v) \subseteq Linked(v)'
    BY <1>0, <2>2, ConstantsOK DEF Linked, TypeOK
  <2> QED
    BY <2>2, <2>3 DEF LoginsRemain, CanSignIn, HasLoginMethod, Exists
<1>3. ASSUME NEW inGroup \in BOOLEAN, NEW n \in Tokens, SignInLinked(r, inGroup, n)
      PROVE  LoginsRemain
  <2>1. PICK u : u = requests[r].user
    OBVIOUS
  <2>2. /\ Is(r, "sso") /\ u # None /\ identities' = identities
        /\ SignIn(r, u, accounts[u], tokens, inGroup, n)
    BY <1>3, <2>1 DEF SignInLinked
  <2>3. u \in Users /\ accounts[u] \in Row
    BY <1>0, <2>1, <2>2, SsoRequest DEF TypeOK, Exists
  <2>4. PICK low \in Row : /\ low.password = accounts[u].password
                           /\ accounts' = [accounts EXCEPT ![u] = low]
    BY <1>0, <2>2, <2>3, SignInRow
  <2> QED
    BY <1>0, <2>2, <2>3, <2>4, RowKept
<1>4. ASSUME NEW u \in Users, NEW inGroup \in BOOLEAN, NEW n \in Tokens,
             TakeOver(r, u, inGroup, n)
      PROVE  LoginsRemain
  <2>1. PICK s : s = requests[r].subject
    OBVIOUS
  <2>2. Is(r, "sso") /\ u \in ByEmail(AddressOf[s]) /\ identities[s] \in {None, u}
    BY <1>4, <2>1 DEF TakeOver, Unlinked
  <2>3. s \in Subjects \cap Active
    BY <2>1, <2>2, SsoRequest
  <2>4. PICK acc \in Row : acc = accounts[u]
    BY <1>0, <2>2 DEF ByEmail, SameMailbox, Exists, TypeOK
  <2>5. PICK bumped : bumped = [acc EXCEPT !.password = None, !.version = @ + 1]
    OBVIOUS
  <2>6. bumped \in Row
    <3>1. acc.version \in Nat /\ acc.version + 1 \in Nat
      BY DEF Row
    <3>2. [acc EXCEPT !.password = None, !.version = acc.version + 1] \in Row
      BY <3>1 DEF Row
    <3> QED
      BY <2>5, <3>2
  <2>7. /\ SignIn(r, u, bumped, Revoked(u), inGroup, n)
        /\ identities' = [x \in Subjects |->
                IF x = s THEN u ELSE IF identities[x] = u THEN None ELSE identities[x]]
    BY <1>4, <2>1, <2>4, <2>5 DEF TakeOver
  <2>8. PICK low \in Row : accounts' = [accounts EXCEPT ![u] = low]
    BY <1>0, <2>6, <2>7, SignInRow
  <2>9. /\ identities' \in [Subjects -> Users \cup {None}] /\ identities'[s] = u
        /\ \A x \in Subjects : identities[x] \notin {None, u} => identities'[x] = identities[x]
    BY <1>0, <2>2, <2>3, <2>7 DEF TypeOK
  <2> QED
    BY <2>2, <2>3, <2>8, <2>9, IdentityGained
<1>5. ASSUME NEW inGroup \in BOOLEAN, NEW n \in Tokens, SignUp(r, inGroup, n)
      PROVE  LoginsRemain
  <2>1. PICK s : s = requests[r].subject
    OBVIOUS
  <2>2. PICK u : u = AddressOf[s]
    OBVIOUS
  <2>3. PICK row : row = NewRow(None)
    OBVIOUS
  <2>4. /\ Is(r, "sso") /\ identities[s] = None /\ identities' = [identities EXCEPT ![s] = u]
        /\ SignIn(r, u, row, tokens, inGroup, n)
    BY <1>5, <2>1, <2>2, <2>3 DEF SignUp, Unlinked
  <2>5. s \in Subjects \cap Active /\ u \in Users /\ row \in Row
    BY <2>1, <2>2, <2>3, <2>4, SsoRequest, ConstantsOK DEF NewRow, Row, Roles
  <2>6. PICK low \in Row : accounts' = [accounts EXCEPT ![u] = low]
    BY <1>0, <2>4, <2>5, SignInRow
  <2>7. /\ identities' \in [Subjects -> Users \cup {None}] /\ identities'[s] = u
        /\ \A x \in Subjects : identities[x] \notin {None, u} => identities'[x] = identities[x]
    BY <1>0, <2>4, <2>5 DEF TypeOK
  <2> QED
    BY <2>4, <2>5, <2>6, <2>7, IdentityGained
<1>6. ASSUME \/ \E t \in Tokens, u \in Users, kind \in {"unlink", "link"} :
                    StartWithSession(r, t, u, kind)
             \/ \E s \in Subjects : StartSSO(r, s)
      PROVE  LoginsRemain
  BY <1>6, NothingLost DEF StartWithSession, StartSSO
<1> QED
  BY <1>1, <1>2, <1>3, <1>4, <1>5, <1>6 DEF ByIdentity

\* Whoever can sign in keeps a way to: no step takes the last one.
THEOREM AccountsStayReachable == Spec => LoginMethodRemains
<1>1. IInv /\ [Next]_vars => [LoginsRemain]_vars
  <2> SUFFICES ASSUME IInv, Next PROVE LoginsRemain
    OBVIOUS
  <2>0. TypeOK
    BY DEF IInv
  <2>1. ASSUME NEW r \in Requests, AcceptInvite(r) PROVE LoginsRemain
    <3>1. PICK q \in Request : q = requests[r] /\ q.kind = "accept"
      BY <2>0, <2>1 DEF AcceptInvite, Is, TypeOK
    <3>2. q.user \in Users /\ q.invite \in Invites /\ Exists(q.user)
      BY <2>1, <3>1 DEF AcceptInvite, Is, Request, IInv, RequestsOK, RequestOK
    <3>3. invites[q.invite] \in Invite /\ accounts[q.user] \in Row
      BY <2>0, <2>1, <3>1, <3>2 DEF AcceptInvite, Unused, TypeOK, Exists
    <3>4. PICK role : role = IF Rank(invites[q.invite].role) > Rank(accounts[q.user].role)
                             THEN invites[q.invite].role ELSE accounts[q.user].role
      OBVIOUS
    <3>5. role \in Roles
      BY <3>3, <3>4 DEF Invite, Row
    <3>6. accounts' = [accounts EXCEPT ![q.user].role = role] /\ identities' = identities
      BY <2>1, <3>1, <3>4 DEF AcceptInvite
    <3> QED
      BY <2>0, <3>2, <3>5, <3>6, RoleKept
  <2>2. ASSUME NEW t \in Tokens, NEW n \in Tokens, Refresh(t, n) PROVE LoginsRemain
    <3>1. PICK k \in Pair : k = tokens[t]
      BY <2>0, <2>2 DEF Refresh, TypeOK
    <3>2. k.user \in Users /\ Exists(k.user) /\ accounts[k.user] \in Row
      BY <2>0, <2>2, <3>1 DEF Refresh, Pair, IInv, TokensOK, PairOK, Good, Exists, TypeOK
    <3>3. PICK row : row = Demoted(accounts[k.user])
      OBVIOUS
    <3>4. row \in Row /\ row.password = accounts[k.user].password
      BY <3>2, <3>3, DemotedRow
    <3>5. identities' = identities
          /\ (accounts' = accounts \/ accounts' = [accounts EXCEPT ![k.user] = row])
      BY <2>2, <3>1, <3>3 DEF Refresh
    <3> QED
      BY <2>0, <3>2, <3>4, <3>5, RowKept, NothingLost
  <2>3. ASSUME NEW r \in Requests,
               Abandon(r) \/ \E t \in Tokens, u \in Users, i \in Invites : StartAccept(r, t, u, i)
        PROVE  LoginsRemain
    BY <2>3, NothingLost DEF Abandon, StartAccept
  <2>4. ASSUME \/ Tick \/ \E t \in Tokens : Logout(t)
               \/ \E i \in Invites, t \in Tokens, u \in Users, role \in Roles :
                    CreateInvite(i, t, u, role)
        PROVE  LoginsRemain
    BY <2>4, NothingLost DEF Tick, Logout, CreateInvite
  <2> QED
    BY <2>1, <2>2, <2>3, <2>4, ByPasswordKeepsLogins, ByIdentityKeepsLogins DEF Next, ByInvite
<1>2. [LoginsRemain]_vars => [\A u \in Users : CanSignIn(u) => CanSignIn(u)']_vars
  BY DEF LoginsRemain
<1> QED
  BY <1>1, <1>2, SpecIInv, PTL DEF Spec, LoginMethodRemains

=============================================================================
