------------------------------ MODULE Accounts ------------------------------
(***************************************************************************)
(* Tenants, users and identities: UsersService, AuthTokensService and the  *)
(* requests of AuthController, OauthClientController and UsersController   *)
(* that reach them.                                                        *)
(*                                                                         *)
(* Every request runs in one transaction at read committed.  It reads step *)
(* by step what is committed, and its writes are kept in its local record  *)
(* until it commits; a unique key taken in the meantime, or a row to       *)
(* delete that is gone, aborts it.  (The database makes the second writer  *)
(* wait for the first and then fails it: the same outcomes.)  Nothing in   *)
(* the code deletes an account, so that deletedAt is always 0.             *)
(***************************************************************************)
EXTENDS Naturals, Sequences

CONSTANTS Actors,       \* clients, each with one request in flight
          Emails,       \* mail addresses, all of one host
          OauthIds,     \* ids of users at the OAuth provider
          Passwords,    \* passwords of 8 characters or more
          MaxRequests,  \* bound: requests in a behaviour
          None          \* null, undefined

ASSUME AccountsAssumption ==
  /\ MaxRequests \in Nat
  /\ None \notin Emails \cup OauthIds \cup Passwords \cup {"short", "oauth"}

VARIABLES tenants,      \* rows, their pk is the index
          users,
          identities,
          tokens,       \* AuthToken rows; live: not yet deleted
          work,         \* the request each actor has in flight
          requests,     \* how many there have been
          rowSecurity   \* whether the role obeys row level security

vars == <<tenants, users, identities, tokens, work, requests, rowSecurity>>

Host == "host"
Secret == Passwords \cup {"oauth"}
Given == Passwords \cup {"short", None}   \* what a client sends as password

Tenant == [emailHost : {Host, None}, active : BOOLEAN]
User == [tenant : Nat, email : Emails \cup {None}]
Identity == [provider : {"local", "github"}, uid : Emails \cup OauthIds,
             email : Emails \cup {None}, credentials : Secret,
             verified : BOOLEAN, tenant : Nat, user : Nat]
(* payload of a token; uses: history, confirmations it was good for.       *)
Token == [sub : Emails, resetPwd : BOOLEAN, create : BOOLEAN,
          userId : BOOLEAN, live : BOOLEAN, uses : Nat]

(* token: pk or 0; found: pk of the identity or 0; tenant: pk or 0 (new).  *)
Request == [pc : {"idle", "send", "verify", "locate", "update", "find",
                  "tenant", "create", "commit"},
            provider : {"local", "github"}, uid : Emails \cup OauthIds \cup {None},
            email : Emails \cup {None}, pwd : Given \cup {"oauth"},
            verified : BOOLEAN, token : Nat, found : Nat, tenant : Nat,
            args : [resetPwd : BOOLEAN, create : BOOLEAN, userId : BOOLEAN]]

NoArgs == [resetPwd |-> FALSE, create |-> FALSE, userId |-> FALSE]
Idle == [pc |-> "idle", provider |-> "local", uid |-> None, email |-> None,
         pwd |-> None, verified |-> FALSE, token |-> 0, found |-> 0,
         tenant |-> 0, args |-> NoArgs]

TypeOK ==
  /\ tenants \in Seq(Tenant) /\ users \in Seq(User)
  /\ identities \in Seq(Identity) /\ tokens \in Seq(Token)
  /\ work \in [Actors -> Request]
  /\ requests \in 0..MaxRequests
  /\ rowSecurity \in BOOLEAN

Init ==
  /\ tenants = <<>> /\ users = <<>> /\ identities = <<>> /\ tokens = <<>>
  /\ work = [a \in Actors |-> Idle]
  /\ requests = 0
  /\ rowSecurity \in BOOLEAN

-----------------------------------------------------------------------------
(* What the requests read                                                  *)

(* $findUserIdentity(uid, provider, {noTenant, evenInvalid}): there is at  *)
(* most one, by the unique key; 0 for none.                                *)
IdentityOf(provider, uid) ==
  IF \E i \in DOMAIN identities :
       identities[i].provider = provider /\ identities[i].uid = uid
  THEN CHOOSE i \in DOMAIN identities :
         identities[i].provider = provider /\ identities[i].uid = uid
  ELSE 0

TenantActive(i) == tenants[identities[i].tenant].active

(* login: an identity of an active tenant with this password.              *)
LoginOk(i, pwd) == TenantActive(i) /\ identities[i].credentials = pwd

(* registerTenant: without a host there is nothing to look for.            *)
TenantOfHost(host) ==
  IF host /= None /\ \E t \in DOMAIN tenants : tenants[t].emailHost = host
  THEN CHOOSE t \in DOMAIN tenants : tenants[t].emailHost = host
  ELSE 0

(* Faulty: the whole address.                                              *)
HostOfWhole(email) == email
HostOf(email) == IF email = None THEN None ELSE Host

(* The policies of "UserIdentity" show a row to its tenant only.           *)
RowVisible(i, tenant) == ~rowSecurity \/ identities[i].tenant = tenant

-----------------------------------------------------------------------------
(* Requests                                                                *)

Begin(a, r) ==
  /\ work[a] = Idle /\ requests < MaxRequests
  /\ work' = [work EXCEPT ![a] = r]
  /\ requests' = requests + 1
  /\ UNCHANGED <<tenants, users, identities, tokens, rowSecurity>>

Goto(a, pc) == work' = [work EXCEPT ![a].pc = pc]
End(a) == work' = [work EXCEPT ![a] = Idle]
Unwritten == UNCHANGED <<tenants, users, identities, tokens, requests, rowSecurity>>
(* An exception, or a failed commit: the transaction is rolled back.       *)
Fail(a) == End(a) /\ Unwritten

(* POST auth/register.                                                     *)
Register(a, m, p) ==
  Begin(a, [Idle EXCEPT !.pc = "find", !.uid = m, !.email = m, !.pwd = p])

(* auth/callback/:provider -> AuthLoginListener of type oauth; a provider  *)
(* tells of an address or does not.                                        *)
OauthLogin(a, o, m, isVerified) ==
  /\ isVerified => m /= None
  /\ Begin(a, [Idle EXCEPT !.pc = "find", !.provider = "github", !.uid = o,
                  !.email = m, !.pwd = "oauth", !.verified = isVerified])

(* POST users/send-confirm-email, of a user who is logged in or not.       *)
SendConfirmEmail(a, m, args) ==
  Begin(a, [Idle EXCEPT !.pc = "send", !.email = m, !.args = args])

(* PATCH users/confirm-email/:token.                                       *)
ConfirmEmail(a, k, p) ==
  /\ k \in DOMAIN tokens
  /\ Begin(a, [Idle EXCEPT !.pc = "verify", !.token = k, !.pwd = p])

-----------------------------------------------------------------------------
(* registerUserFromIdentity                                                *)

(* An existing identity is logged in instead.                              *)
Find(a) ==
  LET w == work[a]
      i == IdentityOf(w.provider, w.uid)
  IN  /\ w.pc = "find"
      /\ \/ i = 0 /\ Goto(a, "tenant")
         \/ /\ i /= 0 /\ TenantActive(i)
            /\ w.provider = "local" => LoginOk(i, w.pwd)
            /\ work' = [work EXCEPT ![a].pc = "commit", ![a].found = i]
         \/ /\ i /= 0
            /\ ~TenantActive(i) \/ (w.provider = "local" /\ ~LoginOk(i, w.pwd))
            /\ End(a)
      /\ Unwritten

(* Faulty: registerTenant() in a transaction of its own.                   *)
RegisterTenantAtOnce(a) ==
  LET w == work[a]
      t == TenantOfHost(HostOf(w.email))
  IN  /\ w.pc = "tenant" /\ t = 0
      /\ tenants' = Append(tenants, [emailHost |-> HostOf(w.email), active |-> TRUE])
      /\ work' = [work EXCEPT ![a].pc = "create", ![a].tenant = Len(tenants) + 1]
      /\ UNCHANGED <<users, identities, tokens, requests, rowSecurity>>
(* registerTenant: the tenant of the mail host, or a new one.              *)
RegisterTenant(a) ==
  LET w == work[a]
      t == TenantOfHost(HostOf(w.email))
  IN  /\ w.pc = "tenant"
      /\ IF t = 0 \/ tenants[t].active
         THEN work' = [work EXCEPT ![a].pc = "create", ![a].tenant = t]
         ELSE End(a)
      /\ Unwritten

(* updateLocalPassword refuses short ones, the database missing ones.      *)
CheckPassword(a) ==
  /\ work[a].pc = "create"
  /\ IF work[a].pwd \in {"short", None} THEN End(a) ELSE Goto(a, "commit")
  /\ Unwritten

-----------------------------------------------------------------------------
(* sendValidationEmail                                                     *)

(* Who is sent a token: a new address on request, and one not verified.    *)
MaySend(i, args) ==
  IF i = 0 THEN args.create
  ELSE TenantActive(i) /\ (identities[i].verified => args.resetPwd)

(* resetPwd is forced for a new user; userId is only for one.  The mail is *)
(* sent inside the transaction: when that fails the token is rolled back.  *)
NewToken(m, i, args) ==
  [sub |-> m, resetPwd |-> (i = 0 \/ args.resetPwd), create |-> args.create,
   userId |-> (i = 0 /\ args.userId), live |-> TRUE, uses |-> 0]

SendValidationEmail(a, sent) ==
  LET w == work[a]
      i == IdentityOf("local", w.email)
  IN  /\ w.pc = "send"
      /\ End(a)
      /\ tokens' = IF sent /\ MaySend(i, w.args)
                   THEN Append(tokens, NewToken(w.email, i, w.args)) ELSE tokens
      /\ UNCHANGED <<tenants, users, identities, requests, rowSecurity>>

-----------------------------------------------------------------------------
(* validateEmail                                                           *)

(* verify(token, 'API_KEY', true); an expired one is deleted.              *)
VerifyToken(a, expired) ==
  LET k == work[a].token
  IN  /\ work[a].pc = "verify"
      /\ tokens' = IF expired THEN [tokens EXCEPT ![k].live = FALSE] ELSE tokens
      /\ IF tokens[k].live /\ ~expired
         THEN work' = [work EXCEPT ![a].pc = "locate",
                          ![a].uid = tokens[k].sub, ![a].email = tokens[k].sub]
         ELSE End(a)
      /\ UNCHANGED <<tenants, users, identities, requests, rowSecurity>>

(* The identity exists: its password is reset, or it is to be verified.    *)
LocateExisting(a) ==
  LET w == work[a]
      i == IdentityOf("local", w.email)
  IN  /\ w.pc = "locate" /\ i /= 0
      /\ IF TenantActive(i) /\ (tokens[w.token].resetPwd \/ ~identities[i].verified)
         THEN work' = [work EXCEPT ![a].pc = "update", ![a].found = i]
         ELSE End(a)
      /\ Unwritten

(* It does not: register it, with the address verified.                    *)
LocateAbsent(a) ==
  LET w == work[a]
  IN  /\ w.pc = "locate" /\ IdentityOf("local", w.email) = 0
      /\ IF tokens[w.token].create /\ ~tokens[w.token].userId
         THEN work' = [work EXCEPT ![a].pc = "find", ![a].verified = TRUE]
         ELSE End(a)
      /\ Unwritten

(* updateLocalPassword(pwd, pk) of a request that has no tenant yet.  The  *)
(* other update is never awaited, so that Prisma never executes it.        *)
Update(a) ==
  LET w == work[a]
      reset == tokens[w.token].resetPwd
  IN  /\ w.pc = "update"
      /\ IF reset /\ (w.pwd = "short" \/ ~RowVisible(w.found, None))
         THEN End(a) ELSE Goto(a, "commit")
      /\ Unwritten

(* Faulty: a password is taken whatever the token is for.                  *)
AfterConfirmAny(i, w) ==
  IF w.verified \/ w.pwd = None THEN identities[i]
  ELSE [identities[i] EXCEPT !.credentials = w.pwd]
(* An empty password leaves the old one; w.verified: was registered since. *)
AfterConfirm(i, w) ==
  IF w.verified \/ ~tokens[w.token].resetPwd \/ w.pwd = None THEN identities[i]
  ELSE [identities[i] EXCEPT !.credentials = w.pwd]

-----------------------------------------------------------------------------
(* Commit                                                                  *)

(* Faulty: the token is deleted if it is there.                            *)
TokenDeletedMany(w) == TRUE
TokenDeleted(w) == w.token \in DOMAIN tokens => tokens[w.token].live

TokensAfter(w) ==
  IF w.token = 0 THEN tokens
  ELSE [tokens EXCEPT ![w.token].live = FALSE, ![w.token].uses = @ + 1]

(* updateMany of users with this id "email: { not: null }".                *)
WithEmail(us, u, m) == [us EXCEPT ![u].email = IF @ = None THEN None ELSE m]

(* A new user, identity and, if need be, tenant.                           *)
UniqueKeys(w) == /\ IdentityOf(w.provider, w.uid) = 0
                 /\ w.tenant = 0 => TenantOfHost(HostOf(w.email)) = 0

CommitNew(a) ==
  LET w == work[a]
      t == IF w.tenant = 0 THEN Len(tenants) + 1 ELSE w.tenant
  IN  /\ w.pc = "commit" /\ w.found = 0
      /\ TokenDeleted(w) /\ UniqueKeys(w)
      /\ tenants' = IF w.tenant = 0
                    THEN Append(tenants, [emailHost |-> HostOf(w.email),
                                          active |-> TRUE])
                    ELSE tenants
      /\ users' = Append(users, [tenant |-> t, email |-> None])
      /\ identities' = Append(identities,
           [provider |-> w.provider, uid |-> w.uid, email |-> w.email,
            credentials |-> w.pwd, verified |-> w.verified, tenant |-> t,
            user |-> Len(users) + 1])
      /\ tokens' = TokensAfter(w)
      /\ End(a)
      /\ UNCHANGED <<requests, rowSecurity>>

(* A login through registration or OAuth, or a confirmed identity.         *)
CommitFound(a) ==
  LET w == work[a]
  IN  /\ w.pc = "commit" /\ w.found /= 0
      /\ TokenDeleted(w)
      /\ identities' = IF w.token = 0 THEN identities
                       ELSE [identities EXCEPT ![w.found] = AfterConfirm(w.found, w)]
      /\ users' = IF w.token = 0 \/ w.email = None THEN users
                  ELSE WithEmail(users, identities[w.found].user, w.email)
      /\ tokens' = TokensAfter(w)
      /\ End(a)
      /\ UNCHANGED <<tenants, requests, rowSecurity>>

CommitFails(a) ==
  /\ work[a].pc = "commit"
  /\ ~TokenDeleted(work[a]) \/ (work[a].found = 0 /\ ~UniqueKeys(work[a]))
  /\ Fail(a)

(* An operator suspends a tenant in the database.                          *)
Deactivate(t) ==
  /\ tenants[t].active
  /\ tenants' = [tenants EXCEPT ![t].active = FALSE]
  /\ UNCHANGED <<users, identities, tokens, work, requests, rowSecurity>>

-----------------------------------------------------------------------------
Next ==
  \/ \E a \in Actors, m \in Emails, p \in Given \ {None} : Register(a, m, p)
  \/ \E a \in Actors, o \in OauthIds, m \in Emails \cup {None}, v \in BOOLEAN :
       OauthLogin(a, o, m, v)
  \/ \E a \in Actors, m \in Emails, r, c, u \in BOOLEAN :
       SendConfirmEmail(a, m, [resetPwd |-> r, create |-> c, userId |-> u])
  \/ \E a \in Actors, k \in DOMAIN tokens, p \in Given : ConfirmEmail(a, k, p)
  \/ \E a \in Actors : Find(a)
  \/ \E a \in Actors : RegisterTenant(a)
  \/ \E a \in Actors : CheckPassword(a)
  \/ \E a \in Actors, sent \in BOOLEAN : SendValidationEmail(a, sent)
  \/ \E a \in Actors, expired \in BOOLEAN : VerifyToken(a, expired)
  \/ \E a \in Actors : LocateExisting(a)
  \/ \E a \in Actors : LocateAbsent(a)
  \/ \E a \in Actors : Update(a)
  \/ \E a \in Actors : CommitNew(a)
  \/ \E a \in Actors : CommitFound(a)
  \/ \E a \in Actors : CommitFails(a)
  \/ \E t \in DOMAIN tenants : Deactivate(t)

Spec == Init /\ [][Next]_vars

-----------------------------------------------------------------------------
(* A token is good for one confirmation, however many requests bring it at *)
(* the same time ("once: whether remove from db").                         *)
TokenUsedOnce == \A k \in DOMAIN tokens : tokens[k].uses <= 1

(* Registrations of one host race for its tenant, fail on the password and *)
(* on unique keys: none of them leaves a tenant without a user, or a user  *)
(* without an identity, behind.                                            *)
NothingHalfRegistered ==
  /\ \A t \in DOMAIN tenants : \E u \in DOMAIN users : users[u].tenant = t
  /\ \A u \in DOMAIN users :
       \E i \in DOMAIN identities : identities[i].user = u

(* A password changes only together with the use of a reset token of that  *)
(* address: not by a login, a registration or a link that only verifies.   *)
PasswordOnlyByReset ==
  [][\A i \in DOMAIN identities :
       identities'[i].credentials /= identities[i].credentials =>
         \E k \in DOMAIN tokens :
           /\ tokens[k].sub = identities[i].uid /\ tokens[k].resetPwd
           /\ tokens[k].live /\ ~tokens'[k].live]_vars

-----------------------------------------------------------------------------
(* The inductive invariant behind the safety properties. *)

(* A live token has never been used. *)
TokensFresh == \A k \in DOMAIN tokens : tokens[k].live => tokens[k].uses = 0

(* Rows refer to rows. *)
RowsOK ==
  /\ \A u \in DOMAIN users : users[u].tenant \in DOMAIN tenants
  /\ \A i \in DOMAIN identities :
       /\ identities[i].user \in DOMAIN users
       /\ identities[i].tenant = users[identities[i].user].tenant

(* A confirmation that has found an identity is about the address of its   *)
(* token, unless it came to it as a registration; the password of whoever  *)
(* is to be registered has been checked, as has one for a reset.           *)
WorkOK(w) ==
  /\ w.token \in 0..Len(tokens)
  /\ w.found \in 0..Len(identities)
  /\ w.tenant \in 0..Len(tenants)
  /\ w.pc \notin {"update", "commit"} => w.found = 0
  /\ w.pc = "update" => w.found # 0
  /\ w.pc \in {"verify", "locate", "update"} => w.token # 0 /\ ~w.verified
  /\ w.pc \in {"send", "locate"} => w.email # None
  /\ w.pc \notin {"idle", "send", "verify"} => w.uid # None
  /\ w.pc \in {"find", "tenant", "create", "commit"} /\ w.token # 0 /\ ~w.verified
       => w.found # 0
  /\ w.token # 0 /\ w.pc \notin {"idle", "send", "verify"}
       => w.email = tokens[w.token].sub
  /\ w.token # 0 /\ w.found # 0 /\ ~w.verified =>
       /\ identities[w.found].uid = tokens[w.token].sub
       /\ w.pc = "commit" /\ tokens[w.token].resetPwd => w.pwd # "short"
  /\ w.pc = "commit" /\ w.found = 0 => w.pwd \notin {"short", None}

IInv ==
  /\ TypeOK /\ RowsOK /\ TokensFresh
  /\ \A a \in Actors : WorkOK(work[a])
  /\ TokenUsedOnce /\ NothingHalfRegistered

============================================================================
