------------------------------ MODULE Accounts ------------------------------
(***************************************************************************)
(* Accounts, ways to sign in, and sessions (server/internal/user, oidc and *)
(* invite).  Several requests are in flight at once; each holds what it    *)
(* read before, and every transaction is one step, because all of them     *)
(* begin by locking the account's row.                                     *)
(*                                                                         *)
(* A session is a chain of token pairs.  The access token of a pair works  *)
(* as long as the account's token_version is the one it carries; its       *)
(* refresh token is a row that is deleted when it is used.  Either may     *)
(* also expire, which only means that nobody uses it any more.             *)
(***************************************************************************)
EXTENDS Integers

CONSTANTS
    Users,            \* accounts; each is one spelling of an e-mail address
    Mailbox,          \* [Users -> address without case]
    Passwords,
    Subjects,         \* identities (issuer, subject) at the SSO provider
    Person,           \* [Credentials -> who knows or holds it]
    AddressOf,        \* [Subjects -> Users]: the e-mail claim
    Verified,         \* the subjects whose e-mail claim is verified
    Active,           \* the subjects of the configured issuer
    Tokens,           \* token pairs; bounds how many are ever issued
    Requests,         \* requests in flight at once
    Invites,
    Founders,         \* accounts from before, made admin by the operator
    PasswordEnabled,  \* PASSWORD_LOGIN_ENABLED
    AdminManaged,     \* OIDC_ADMIN_GROUP is set
    MaxAge,           \* OIDC_ADMIN_MAX_AGE, in ticks
    MaxClock,         \* bounds the clock
    MaxVersion,       \* bounds token_version
    None

Credentials == Passwords \cup Subjects
People == {Person[c] : c \in Credentials}
Roles == {"climber", "setter", "admin"}

Row == [version: Nat, password: Passwords \cup {None}, role: Roles, synced: Nat]
Pair == [user: Users, version: Nat, proof: Credentials, session: Tokens, live: BOOLEAN]

\* The requests that hold a copy of the account, the credential that opened
\* their session, and the others.
Request ==
    [kind: {"issue", "change", "unlink", "link"}, user: Users, row: Row,
     proof: Credentials]
    \cup [kind: {"register"}, user: Users, proof: Passwords]
    \cup [kind: {"sso"}, user: Users \cup {None}, subject: Subjects]
    \cup [kind: {"accept"}, user: Users, invite: Invites]

Invite == [role: Roles, usedBy: Users \cup {None}]

ASSUME ConstantsOK ==
    /\ None \notin Users \cup Credentials \cup People \cup Tokens
    /\ None \notin Row /\ None \notin Pair /\ None \notin Request /\ None \notin Invite
    /\ Passwords \cap Subjects = {}
    /\ Person \in [Credentials -> People]
    /\ AddressOf \in [Subjects -> Users]
    /\ Verified \subseteq Subjects /\ Active \subseteq Subjects
    /\ Founders \subseteq Users
    /\ PasswordEnabled \in BOOLEAN /\ AdminManaged \in BOOLEAN
    /\ MaxAge \in Nat /\ MaxClock \in Nat /\ MaxVersion \in Nat

VARIABLES
    accounts,    \* users: None, or a row
    identities,  \* user_identities: the account a subject is linked to
    tokens,      \* None, or a pair that was issued
    requests,    \* what a request in flight holds
    invites,
    clock,       \* role_synced_at is a tick, 0 for NULL
    claimed,     \* history: who last claimed the account by verified e-mail
    member       \* history: was the last synced sign-in one of the group

vars == <<accounts, identities, tokens, requests, invites, clock, claimed, member>>

Init ==
    /\ \E pw \in [Founders -> Passwords \cup {None}] :
        accounts = [u \in Users |->
            IF u \in Founders
            THEN [version |-> 0, password |-> pw[u], role |-> "admin", synced |-> 0]
            ELSE None]
    /\ identities \in [Subjects -> Founders \cup {None}]
    /\ tokens = [t \in Tokens |-> None]
    /\ requests = [r \in Requests |-> None]
    /\ invites \in [Invites -> {None} \cup
                        (IF Founders = {} THEN {} ELSE [role: Roles, usedBy: {None}])]
    /\ clock = 1
    /\ claimed = [u \in Users |-> None]
    /\ member = [u \in Users |-> FALSE]

-----------------------------------------------------------------------------
(* Reading accounts.                                                       *)

Exists(u) == accounts[u] # None

SameMailbox(u) == {v \in Users : Exists(v) /\ Mailbox[v] = Mailbox[u]}

\* GetUserByEmail: the exact spelling first; among others, any.
ByEmail(u) == IF Exists(u) THEN {u} ELSE SameMailbox(u)

Linked(u) == {s \in Subjects : identities[s] = u}

\* Admin rights that the SSO provider no longer vouches for.
NeedsDemotion(row) ==
    /\ AdminManaged
    /\ row.role = "admin"
    /\ row.synced = 0 \/ clock - row.synced > MaxAge

Demoted(row) ==
    IF ~NeedsDemotion(row) THEN row
    ELSE [row EXCEPT !.role = IF row.synced = 0 THEN "setter" ELSE "climber"]

\* Authenticate: the access token of t opens account u.
Authentic(t, u) ==
    /\ tokens[t] # None
    /\ tokens[t].user = u
    /\ accounts[u].version = tokens[t].version

-----------------------------------------------------------------------------
(* Issuing and revoking tokens.                                            *)

Idle(r) == requests[r] = None
Is(r, kind) == requests[r] # None /\ requests[r].kind = kind
Hold(r, request) == requests' = [requests EXCEPT ![r] = request]
Done(r) == requests' = [requests EXCEPT ![r] = None]

NewPairFresh(u, row, proof, session) ==                                \* mutant
    [user |-> u, version |-> IF accounts[u] = None THEN 0 ELSE accounts[u].version,
     proof |-> proof, session |-> session, live |-> TRUE]

NewPair(u, row, proof, session) ==
    [user |-> u, version |-> row.version, proof |-> proof,
     session |-> session, live |-> TRUE]

\* Deletes every refresh token of u.
Revoked(u) ==
    [t \in Tokens |->
        IF tokens[t] # None /\ tokens[t].user = u
        THEN [tokens[t] EXCEPT !.live = FALSE] ELSE tokens[t]]

\* A request fails, or its client or the server goes away.
Abandon(r) ==
    /\ ~Idle(r)
    /\ Done(r)
    /\ UNCHANGED <<accounts, identities, tokens, invites, clock, claimed, member>>

-----------------------------------------------------------------------------
(* Passwords.                                                              *)

StartRegister(r, u, p) ==
    /\ PasswordEnabled
    /\ Idle(r)
    /\ SameMailbox(u) = {}
    /\ Hold(r, [kind |-> "register", user |-> u, proof |-> p])
    /\ UNCHANGED <<accounts, identities, tokens, invites, clock, claimed, member>>

NewRow(password) == [version |-> 0, password |-> password, role |-> "climber", synced |-> 0]

\* The unique constraint is on the exact spelling.
CreateUser(r) ==
    /\ Is(r, "register")
    /\ LET u == requests[r].user
           p == requests[r].proof
       IN  /\ ~Exists(u)
           /\ accounts' = [accounts EXCEPT ![u] = NewRow(p)]
           /\ Hold(r, [kind |-> "issue", user |-> u, row |-> NewRow(p), proof |-> p])
    /\ UNCHANGED <<identities, tokens, invites, clock, claimed, member>>

StartLogin(r, address, p) ==
    /\ PasswordEnabled
    /\ Idle(r)
    /\ \E u \in ByEmail(address) :
        /\ accounts[u].password = p
        /\ Hold(r, [kind |-> "issue", user |-> u, row |-> accounts[u], proof |-> p])
    /\ UNCHANGED <<accounts, identities, tokens, invites, clock, claimed, member>>

\* IssueTokens outside a transaction: the role is written first, from the copy.
DemoteOnLogin(r) ==
    /\ Is(r, "issue")
    /\ NeedsDemotion(requests[r].row)
    /\ LET u == requests[r].user
           row == Demoted(requests[r].row)
       IN  /\ accounts' = [accounts EXCEPT ![u].role = row.role]
           /\ requests' = [requests EXCEPT ![r].row = row]
    /\ UNCHANGED <<identities, tokens, invites, clock, claimed, member>>

IssueOnLogin(r, t) ==
    /\ Is(r, "issue")
    /\ ~NeedsDemotion(requests[r].row)
    /\ tokens[t] = None
    /\ tokens' = [tokens EXCEPT ![t] =
                    NewPair(requests[r].user, requests[r].row, requests[r].proof, t)]
    /\ Done(r)
    /\ UNCHANGED <<accounts, identities, invites, clock, claimed, member>>

RefreshKeeping(t, t2) ==                                               \* mutant
    /\ tokens[t] # None
    /\ tokens[t].live
    /\ LET u == tokens[t].user
       IN  /\ tokens[t].version = accounts[u].version
           /\ tokens[t2] = None
           /\ tokens' = [tokens EXCEPT ![t2] =
                           NewPair(u, accounts[u], tokens[t].proof, tokens[t].session)]
    /\ UNCHANGED <<accounts, identities, requests, invites, clock, claimed, member>>

Refresh(t, t2) ==
    /\ tokens[t] # None
    /\ tokens[t].live
    /\ LET u == tokens[t].user
           used == [tokens EXCEPT ![t].live = FALSE]
           row == Demoted(accounts[u])
       IN  \/ /\ tokens[t].version # accounts[u].version
              /\ tokens' = used
              /\ UNCHANGED accounts
           \/ /\ tokens[t].version = accounts[u].version
              /\ tokens[t2] = None
              /\ tokens' = [used EXCEPT ![t2] =
                              NewPair(u, row, tokens[t].proof, tokens[t].session)]
              /\ accounts' = [accounts EXCEPT ![u] = row]
    /\ UNCHANGED <<identities, requests, invites, clock, claimed, member>>

Logout(t) ==
    /\ tokens[t] # None
    /\ tokens' = [tokens EXCEPT ![t].live = FALSE]
    /\ UNCHANGED <<accounts, identities, requests, invites, clock, claimed, member>>

\* Whoever holds the session knows the current password, if there is one.
StartChange(r, t, u) ==
    /\ PasswordEnabled
    /\ Idle(r)
    /\ Authentic(t, u)
    /\ accounts[u].password # None => Person[accounts[u].password] = Person[tokens[t].proof]
    /\ Hold(r, [kind |-> "change", user |-> u, row |-> accounts[u],
                proof |-> tokens[t].proof])
    /\ UNCHANGED <<accounts, identities, tokens, invites, clock, claimed, member>>

UnchangedUnchecked(u, row) == TRUE                                     \* mutant

Unchanged(u, row) ==
    /\ accounts[u].version = row.version
    /\ accounts[u].password = row.password

ChangePassword(r, p, t) ==
    /\ Is(r, "change")
    /\ Person[p] = Person[requests[r].proof]
    /\ tokens[t] = None
    /\ LET u == requests[r].user
           row == Demoted([accounts[u] EXCEPT !.password = p, !.version = @ + 1])
       IN  /\ Unchanged(u, requests[r].row)
           /\ accounts[u].version < MaxVersion
           /\ accounts' = [accounts EXCEPT ![u] = row]
           /\ tokens' = [Revoked(u) EXCEPT ![t] = NewPair(u, row, p, t)]
    /\ Done(r)
    /\ UNCHANGED <<identities, invites, clock, claimed, member>>

-----------------------------------------------------------------------------
(* Identities at the SSO provider.                                         *)

\* Authenticate, before UnlinkIdentity and at the start of the link flow.
StartWithSession(r, t, u, kind) ==
    /\ kind \in {"unlink", "link"}
    /\ Idle(r)
    /\ Authentic(t, u)
    /\ Hold(r, [kind |-> kind, user |-> u, row |-> accounts[u], proof |-> tokens[t].proof])
    /\ UNCHANGED <<accounts, identities, tokens, invites, clock, claimed, member>>

HasLoginMethod(row, remaining) ==
    (row.password # None /\ PasswordEnabled) \/ remaining \cap Active # {}

UnlinkIdentityRetiredToo(r, s) ==                                      \* mutant
    /\ Is(r, "unlink")
    /\ LET u == requests[r].user
       IN  /\ accounts[u].version = requests[r].row.version
           /\ identities[s] = u
           /\ accounts[u].password # None \/ Linked(u) # {s}
    /\ identities' = [identities EXCEPT ![s] = None]
    /\ Done(r)
    /\ UNCHANGED <<accounts, tokens, invites, clock, claimed, member>>

UnlinkIdentity(r, s) ==
    /\ Is(r, "unlink")
    /\ LET u == requests[r].user
       IN  /\ accounts[u].version = requests[r].row.version
           /\ identities[s] = u
           /\ HasLoginMethod(accounts[u], Linked(u) \ {s})
    /\ identities' = [identities EXCEPT ![s] = None]
    /\ Done(r)
    /\ UNCHANGED <<accounts, tokens, invites, clock, claimed, member>>

\* The browser comes back from the provider with an identity of its user.
LinkIdentity(r, s) ==
    /\ Is(r, "link")
    /\ s \in Active
    /\ Person[s] = Person[requests[r].proof]
    /\ LET u == requests[r].user
       IN  /\ accounts[u].version = requests[r].row.version
           /\ identities[s] \in {None, u}
           /\ identities' = [identities EXCEPT ![s] = u]
    /\ Done(r)
    /\ UNCHANGED <<accounts, tokens, invites, clock, claimed, member>>

\* resolveUser looks the identity up before it locks the account.
StartSSO(r, s) ==
    /\ Idle(r)
    /\ s \in Active
    /\ Hold(r, [kind |-> "sso", user |-> identities[s], subject |-> s])
    /\ UNCHANGED <<accounts, identities, tokens, invites, clock, claimed, member>>

RoleForGroupsKept(inGroup, row) == IF inGroup THEN "admin" ELSE row.role   \* mutant

RoleForGroups(inGroup, row) ==
    IF inGroup THEN "admin"
    ELSE IF row.role # "admin" THEN row.role
    ELSE IF row.synced = 0 THEN "setter" ELSE "climber"

Synced(inGroup, row) ==
    IF AdminManaged
    THEN [row EXCEPT !.role = RoleForGroups(inGroup, row), !.synced = clock]
    ELSE row

\* The end of loginIdentity, once the account's row is known.
SignIn(r, u, row, before, inGroup, t) ==
    LET synced == Demoted(Synced(inGroup, row))
    IN  /\ tokens[t] = None
        /\ accounts' = [accounts EXCEPT ![u] = synced]
        /\ tokens' = [before EXCEPT ![t] = NewPair(u, synced, requests[r].subject, t)]
        /\ member' = [member EXCEPT ![u] = AdminManaged /\ inGroup]
        /\ Done(r)
        /\ UNCHANGED <<invites, clock>>

\* The link is read again under the lock.
SignInLinked(r, inGroup, t) ==
    /\ Is(r, "sso")
    /\ LET u == requests[r].user
       IN  /\ u # None
           /\ identities[requests[r].subject] = u
           /\ SignIn(r, u, accounts[u], tokens, inGroup, t)
    /\ UNCHANGED <<identities, claimed>>

\* Never linked when it was looked up, or no longer.
Unlinked(r) ==
    /\ Is(r, "sso")
    /\ requests[r].user # None => identities[requests[r].subject] = None
    /\ requests[r].subject \in Verified

TakeOver(r, u, inGroup, t) ==
    /\ Unlinked(r)
    /\ LET s == requests[r].subject
       IN  /\ u \in ByEmail(AddressOf[s])
           /\ identities[s] \in {None, u}
           /\ accounts[u].version < MaxVersion
           /\ identities' = [x \in Subjects |->
                IF x = s THEN u ELSE IF identities[x] = u THEN None ELSE identities[x]]
           /\ SignIn(r, u, [accounts[u] EXCEPT !.password = None, !.version = @ + 1],
                     Revoked(u), inGroup, t)
           /\ claimed' = [claimed EXCEPT ![u] = Person[s]]

SignUp(r, inGroup, t) ==
    /\ Unlinked(r)
    /\ LET s == requests[r].subject
           u == AddressOf[s]
       IN  /\ SameMailbox(u) = {}
           /\ identities[s] = None
           /\ identities' = [identities EXCEPT ![s] = u]
           /\ SignIn(r, u, NewRow(None), tokens, inGroup, t)
           /\ claimed' = [claimed EXCEPT ![u] = Person[s]]

-----------------------------------------------------------------------------
(* Invites.                                                                *)

CreateInvite(i, t, u, role) ==
    /\ invites[i] = None
    /\ Authentic(t, u)
    /\ Demoted(accounts[u]).role = "admin"
    /\ role = "admin" => ~AdminManaged
    /\ invites' = [invites EXCEPT ![i] = [role |-> role, usedBy |-> None]]
    /\ UNCHANGED <<accounts, identities, tokens, requests, clock, claimed, member>>

Unused(i) == invites[i] # None /\ invites[i].usedBy = None

StartAccept(r, t, u, i) ==
    /\ Idle(r)
    /\ Authentic(t, u)
    /\ Unused(i)
    /\ Hold(r, [kind |-> "accept", user |-> u, invite |-> i])
    /\ UNCHANGED <<accounts, identities, tokens, invites, clock, claimed, member>>

Rank(role) == IF role = "admin" THEN 2 ELSE IF role = "setter" THEN 1 ELSE 0

AcceptInviteUnchecked(r) ==                                            \* mutant
    /\ Is(r, "accept")
    /\ LET u == requests[r].user
           i == requests[r].invite
       IN  /\ invites' = [invites EXCEPT ![i].usedBy = u]
           /\ accounts' = [accounts EXCEPT ![u].role =
                            IF Rank(invites[i].role) > Rank(@) THEN invites[i].role ELSE @]
    /\ Done(r)
    /\ UNCHANGED <<identities, tokens, clock, claimed, member>>

AcceptInvite(r) ==
    /\ Is(r, "accept")
    /\ LET u == requests[r].user
           i == requests[r].invite
       IN  /\ Unused(i)
           /\ invites' = [invites EXCEPT ![i].usedBy = u]
           /\ accounts' = [accounts EXCEPT ![u].role =
                            IF Rank(invites[i].role) > Rank(@) THEN invites[i].role ELSE @]
    /\ Done(r)
    /\ UNCHANGED <<identities, tokens, clock, claimed, member>>

Tick ==
    /\ clock < MaxClock
    /\ clock' = clock + 1
    /\ UNCHANGED <<accounts, identities, tokens, requests, invites, claimed, member>>

-----------------------------------------------------------------------------
ByPassword(r) ==
    \/ \E u \in Users, p \in Passwords : StartRegister(r, u, p) \/ StartLogin(r, u, p)
    \/ CreateUser(r)
    \/ DemoteOnLogin(r)
    \/ \E t \in Tokens : IssueOnLogin(r, t)
    \/ \E t \in Tokens, u \in Users : StartChange(r, t, u)
    \/ \E p \in Passwords, t \in Tokens : ChangePassword(r, p, t)

ByIdentity(r) ==
    \/ \E t \in Tokens, u \in Users, kind \in {"unlink", "link"} : StartWithSession(r, t, u, kind)
    \/ \E s \in Subjects : UnlinkIdentity(r, s) \/ LinkIdentity(r, s) \/ StartSSO(r, s)
    \/ \E inGroup \in BOOLEAN, t \in Tokens :
        \/ SignInLinked(r, inGroup, t)
        \/ \E u \in Users : TakeOver(r, u, inGroup, t)
        \/ SignUp(r, inGroup, t)

ByInvite(r) ==
    \/ \E t \in Tokens, u \in Users, i \in Invites : StartAccept(r, t, u, i)
    \/ AcceptInvite(r)

Next ==
    \/ \E r \in Requests : ByPassword(r) \/ ByIdentity(r) \/ ByInvite(r) \/ Abandon(r)
    \/ \E t, t2 \in Tokens : Refresh(t, t2)
    \/ \E t \in Tokens : Logout(t)
    \/ \E i \in Invites, t \in Tokens, u \in Users, role \in Roles : CreateInvite(i, t, u, role)
    \/ Tick

Spec == Init /\ [][Next]_vars

-----------------------------------------------------------------------------
(* What accounts and sessions promise.                                     *)

\* Every table row and request in flight has the columns of its type.
TypeOK ==
    /\ accounts \in [Users -> Row \cup {None}]
    /\ identities \in [Subjects -> Users \cup {None}]
    /\ tokens \in [Tokens -> Pair \cup {None}]
    /\ requests \in [Requests -> Request \cup {None}]
    /\ invites \in [Invites -> Invite \cup {None}]
    /\ clock \in Nat
    /\ claimed \in [Users -> People \cup {None}]
    /\ member \in [Users -> BOOLEAN]

Usable(t) == tokens[t] # None /\ Authentic(t, tokens[t].user)

\* A session that was opened with a password works only while that is still
\* the account's password: neither a login nor a refresh that was under way
\* when the password changed outlives the change.
PasswordSessionsFollowThePassword ==
    \A t \in Tokens : Usable(t) /\ tokens[t].proof \in Passwords =>
        accounts[tokens[t].user].password = tokens[t].proof

\* Once somebody has claimed an account by its verified e-mail, its password,
\* its identities and its working sessions are all theirs, whatever requests
\* of the earlier registrant were under way.
ClaimedAccountIsTheOwners ==
    \A u \in Users : claimed[u] # None =>
        /\ accounts[u].password # None => Person[accounts[u].password] = claimed[u]
        /\ \A s \in Linked(u) : Person[s] = claimed[u]
        /\ \A t \in Tokens : Usable(t) /\ tokens[t].user = u =>
            Person[tokens[t].proof] = claimed[u]

\* A session never splits: at most one refresh token of a chain can be used.
OneRefreshTokenPerSession ==
    \A t1, t2 \in Tokens :
        /\ tokens[t1] # None /\ tokens[t2] # None
        /\ tokens[t1].live /\ tokens[t2].live
        /\ tokens[t1].session = tokens[t2].session
        => t1 = t2

CanSignIn(u) == Exists(u) /\ HasLoginMethod(accounts[u], Linked(u))

\* An account that can be signed in to always remains so, although unlinking,
\* takeovers and password changes race.
LoginMethodRemains == [][\A u \in Users : CanSignIn(u) => CanSignIn(u)']_vars

\* An invite that was used by one account is never used by another.
InvitesAreUsedOnce ==
    [][\A i \in Invites : invites[i] # None /\ invites[i].usedBy # None =>
        invites'[i] = invites[i]]_vars

EffectiveAdmin(u) == Exists(u) /\ Demoted(accounts[u]).role = "admin"

\* While the group decides, whoever has admin rights was in the group at the
\* last sign-in that asked the provider, or accepted an admin invite.
AdminsAreMembersOrInvited ==
    AdminManaged => \A u \in Users : EffectiveAdmin(u) =>
        \/ member[u]
        \/ \E i \in Invites : invites[i] # None /\ invites[i] = [role |-> "admin", usedBy |-> u]

=============================================================================
