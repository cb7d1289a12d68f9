--------------------------- MODULE AccountsProofs ---------------------------
(***************************************************************************)
(* Proofs about Accounts, for any clients, addresses, passwords and number *)
(* of requests: tokens are used once, registrations leave nothing behind,  *)
(* and passwords change by resets only.                                    *)
(***************************************************************************)
EXTENDS Accounts, SequenceTheorems, TLAPS

LEMMA AppendFacts ==
  ASSUME NEW S, NEW s \in Seq(S), NEW x \in S
  PROVE  /\ Append(s, x) \in Seq(S)
         /\ Len(Append(s, x)) = Len(s) + 1
         /\ DOMAIN Append(s, x) = DOMAIN s \cup {Len(s) + 1}
         /\ DOMAIN s = 1..Len(s) /\ Len(s) \in Nat
         /\ Append(s, x)[Len(s) + 1] = x
         /\ \A i \in DOMAIN s : i # Len(s) + 1 /\ Append(s, x)[i] = s[i]
<1>1. Len(s) \in Nat /\ DOMAIN s = 1..Len(s)
  OBVIOUS
<1>2. /\ Append(s, x) \in Seq(S) /\ Len(Append(s, x)) = Len(s) + 1
      /\ Append(s, x)[Len(s) + 1] = x
      /\ \A i \in 1..Len(s) : Append(s, x)[i] = s[i]
  BY AppendProperties
<1>3. DOMAIN Append(s, x) = 1..(Len(s) + 1)
  BY <1>2
<1> QED BY <1>1, <1>2, <1>3

LEMMA ExceptFacts ==
  ASSUME NEW S, NEW s \in Seq(S), NEW i \in DOMAIN s, NEW x \in S
  PROVE  /\ [s EXCEPT ![i] = x] \in Seq(S)
         /\ Len([s EXCEPT ![i] = x]) = Len(s)
         /\ DOMAIN [s EXCEPT ![i] = x] = DOMAIN s
         /\ [s EXCEPT ![i] = x][i] = x
         /\ \A j \in DOMAIN s : j # i => [s EXCEPT ![i] = x][j] = s[j]
BY ExceptSeq

LEMMA SeqFacts ==
  ASSUME NEW S, NEW s \in Seq(S)
  PROVE  DOMAIN s = 1..Len(s) /\ Len(s) \in Nat /\ \A i \in DOMAIN s : s[i] \in S
BY ElementOfSeq

LEMMA IdleTyped ==
  /\ Idle \in Request
  /\ Idle.pc = "idle" /\ Idle.token = 0 /\ Idle.found = 0 /\ Idle.tenant = 0
  /\ Idle.uid = None /\ Idle.email = None /\ Idle.verified = FALSE
BY DEF Idle, Request, NoArgs, Given

LEMMA IdleOK == TypeOK => WorkOK(Idle)
BY IdleTyped, SeqFacts DEF TypeOK, WorkOK

LEMMA InvInit == Init => IInv
<1> SUFFICES ASSUME Init PROVE IInv
  OBVIOUS
<1>1. TypeOK
  BY AccountsAssumption, IdleTyped DEF Init, TypeOK
<1>2. RowsOK /\ TokensFresh /\ TokenUsedOnce /\ NothingHalfRegistered
  BY DEF Init, RowsOK, TokensFresh, TokenUsedOnce, NothingHalfRegistered
<1>3. \A a \in Actors : WorkOK(work[a])
  BY <1>1, IdleOK DEF Init
<1> QED BY <1>1, <1>2, <1>3 DEF IInv

----------------------------------------------------------------------------
(* Rows are only added, and what requests remember of them stays. *)
Grows ==
  /\ Len(tenants) <= Len(tenants') /\ Len(identities) <= Len(identities')
  /\ Len(tokens) <= Len(tokens')
  /\ \A i \in DOMAIN identities : identities'[i].uid = identities[i].uid
  /\ \A k \in DOMAIN tokens : /\ tokens'[k].sub = tokens[k].sub
                              /\ tokens'[k].resetPwd = tokens[k].resetPwd

LEMMA WorkKept ==
  ASSUME TypeOK, TypeOK', Grows, NEW w, WorkOK(w)
  PROVE  WorkOK(w)'
<1>1. /\ DOMAIN tokens = 1..Len(tokens) /\ Len(tokens) \in Nat
      /\ DOMAIN identities = 1..Len(identities) /\ Len(identities) \in Nat
      /\ Len(tenants) \in Nat
      /\ Len(tokens') \in Nat /\ Len(identities') \in Nat /\ Len(tenants') \in Nat
  BY DEF TypeOK
<1>2. /\ w.token \in 0..Len(tokens')
      /\ w.found \in 0..Len(identities')
      /\ w.tenant \in 0..Len(tenants')
  BY <1>1 DEF WorkOK, Grows
<1>3. w.token # 0 => /\ tokens'[w.token].sub = tokens[w.token].sub
                     /\ tokens'[w.token].resetPwd = tokens[w.token].resetPwd
  BY <1>1 DEF WorkOK, Grows
<1>4. w.found # 0 => identities'[w.found].uid = identities[w.found].uid
  BY <1>1 DEF WorkOK, Grows
<1> QED BY <1>2, <1>3, <1>4 DEF WorkOK

(* A step of the request of a that writes nothing. *)
LEMMA ReadKeeps ==
  ASSUME IInv, NEW a \in Actors, NEW r \in Request, WorkOK(r),
         work' = [work EXCEPT ![a] = r],
         UNCHANGED <<tenants, users, identities, tokens, rowSecurity>>,
         requests' \in 0..MaxRequests
  PROVE  IInv'
<1>1. TypeOK'
  BY DEF IInv, TypeOK
<1>2. RowsOK' /\ TokensFresh' /\ TokenUsedOnce' /\ NothingHalfRegistered'
  BY DEF IInv, RowsOK, TokensFresh, TokenUsedOnce, NothingHalfRegistered
<1>3. Grows
  BY DEF Grows, IInv, TypeOK
<1>4. ASSUME NEW o \in Actors PROVE WorkOK(work[o])'
  <2>1. WorkOK(work'[o])
    BY DEF IInv, TypeOK
  <2> QED BY <2>1 DEF WorkOK
<1> QED BY <1>1, <1>2, <1>4 DEF IInv

LEMMA EndKeeps ==
  ASSUME IInv, NEW a \in Actors, End(a), Unwritten
  PROVE  IInv'
<1>1. TypeOK
  BY DEF IInv
<1> QED BY <1>1, IdleTyped, IdleOK, ReadKeeps DEF End, Unwritten, TypeOK

----------------------------------------------------------------------------
(* Requests come in. *)

LEMMA BeginKeeps ==
  ASSUME IInv, NEW a \in Actors, NEW r \in Request, WorkOK(r), Begin(a, r)
  PROVE  IInv'
<1>1. requests' \in 0..MaxRequests
  BY AccountsAssumption DEF Begin, IInv, TypeOK
<1> QED BY <1>1, ReadKeeps DEF Begin

LEMMA RegisterKeeps ==
  ASSUME IInv, NEW a \in Actors, NEW m \in Emails, NEW p \in Given,
         Register(a, m, p)
  PROVE  IInv'
<1> DEFINE r == [Idle EXCEPT !.pc = "find", !.uid = m, !.email = m, !.pwd = p]
<1>1. r \in Request
  BY IdleTyped DEF Request
<1>2. WorkOK(r)
  <2>1. /\ r.pc = "find" /\ r.uid = m /\ r.token = 0 /\ r.found = 0
        /\ r.tenant = 0
    BY IdleTyped DEF Request
  <2>2. m # None
    BY AccountsAssumption
  <2> HIDE DEF r
  <2> QED BY <2>1, <2>2, SeqFacts DEF WorkOK, IInv, TypeOK
<1>3. Begin(a, r)
  BY DEF Register
<1> HIDE DEF r
<1> QED BY <1>1, <1>2, <1>3, BeginKeeps

LEMMA OauthLoginKeeps ==
  ASSUME IInv, NEW a \in Actors, NEW o \in OauthIds,
         NEW m \in Emails \cup {None}, NEW v \in BOOLEAN, OauthLogin(a, o, m, v)
  PROVE  IInv'
<1> DEFINE r == [Idle EXCEPT !.pc = "find", !.provider = "github", !.uid = o,
                    !.email = m, !.pwd = "oauth", !.verified = v]
<1>1. r \in Request
  BY IdleTyped DEF Request
<1>2. WorkOK(r)
  <2>1. /\ r.pc = "find" /\ r.uid = o /\ r.token = 0 /\ r.found = 0
        /\ r.tenant = 0
    BY IdleTyped DEF Request
  <2>2. o # None
    BY AccountsAssumption
  <2> HIDE DEF r
  <2> QED BY <2>1, <2>2, SeqFacts DEF WorkOK, IInv, TypeOK
<1>3. Begin(a, r)
  BY DEF OauthLogin
<1> HIDE DEF r
<1> QED BY <1>1, <1>2, <1>3, BeginKeeps

LEMMA SendConfirmEmailKeeps ==
  ASSUME IInv, NEW a \in Actors, NEW m \in Emails,
         NEW args \in [resetPwd : BOOLEAN, create : BOOLEAN, userId : BOOLEAN],
         SendConfirmEmail(a, m, args)
  PROVE  IInv'
<1> DEFINE r == [Idle EXCEPT !.pc = "send", !.email = m, !.args = args]
<1>1. r \in Request
  BY IdleTyped DEF Request
<1>2. WorkOK(r)
  <2>1. /\ r.pc = "send" /\ r.email = m /\ r.token = 0 /\ r.found = 0
        /\ r.tenant = 0
    BY IdleTyped DEF Request
  <2>2. m # None
    BY AccountsAssumption
  <2> HIDE DEF r
  <2> QED BY <2>1, <2>2, SeqFacts DEF WorkOK, IInv, TypeOK
<1>3. Begin(a, r)
  BY DEF SendConfirmEmail
<1> HIDE DEF r
<1> QED BY <1>1, <1>2, <1>3, BeginKeeps

LEMMA ConfirmEmailKeeps ==
  ASSUME IInv, NEW a \in Actors, NEW k, NEW p \in Given, ConfirmEmail(a, k, p)
  PROVE  IInv'
<1> DEFINE r == [Idle EXCEPT !.pc = "verify", !.token = k, !.pwd = p]
<1>1. k \in 1..Len(tokens) /\ Len(tokens) \in Nat /\ k \in Nat
  <2>1. DOMAIN tokens = 1..Len(tokens) /\ Len(tokens) \in Nat
    BY DEF IInv, TypeOK
  <2> QED BY <2>1 DEF ConfirmEmail
<1>2. r \in Request
  BY <1>1, IdleTyped DEF Request
<1>3. WorkOK(r)
  <2>1. /\ r.pc = "verify" /\ r.token = k /\ r.found = 0 /\ r.tenant = 0
        /\ ~r.verified
    BY IdleTyped DEF Request
  <2> HIDE DEF r
  <2> QED BY <1>1, <2>1, SeqFacts DEF WorkOK, IInv, TypeOK
<1>4. Begin(a, r)
  BY DEF ConfirmEmail
<1> HIDE DEF r
<1> QED BY <1>2, <1>3, <1>4, BeginKeeps

----------------------------------------------------------------------------
(* Requests read. *)

LEMMA IdentityOfFacts ==
  ASSUME NEW p, NEW u, IdentityOf(p, u) # 0
  PROVE  /\ IdentityOf(p, u) \in DOMAIN identities
         /\ identities[IdentityOf(p, u)].uid = u
         /\ identities[IdentityOf(p, u)].provider = p
BY DEF IdentityOf

LEMMA TenantOfHostFacts ==
  ASSUME NEW h, TenantOfHost(h) # 0
  PROVE  TenantOfHost(h) \in DOMAIN tenants
BY DEF TenantOfHost

LEMMA FindKeeps ==
  ASSUME IInv, NEW a \in Actors, Find(a)
  PROVE  IInv'
<1> DEFINE w == work[a]
           i == IdentityOf(w.provider, w.uid)
<1>1. /\ w \in Request /\ WorkOK(w) /\ requests \in 0..MaxRequests
      /\ work \in [Actors -> Request]
  BY DEF IInv, TypeOK
<1>2. w.pc = "find" /\ Unwritten
  BY DEF Find
<1>3. CASE i = 0 /\ Goto(a, "tenant")
  <2> DEFINE r == [w EXCEPT !.pc = "tenant"]
  <2>1. /\ r \in Request /\ r.pc = "tenant" /\ r.uid = w.uid
        /\ r.email = w.email /\ r.verified = w.verified /\ r.token = w.token
        /\ r.found = w.found /\ r.tenant = w.tenant
    BY <1>1 DEF Request
  <2>2. work' = [work EXCEPT ![a] = r]
    BY <1>3 DEF Goto
  <2> HIDE DEF r, w
  <2>3. WorkOK(r)
    BY <1>1, <1>2, <2>1 DEF WorkOK
  <2> QED BY <1>1, <1>2, <2>1, <2>2, <2>3, ReadKeeps DEF Unwritten
<1>4. CASE i # 0 /\ work' = [work EXCEPT ![a].pc = "commit", ![a].found = i]
  <2> DEFINE r == [w EXCEPT !.pc = "commit", !.found = i]
  <2>1. i \in 1..Len(identities) /\ Len(identities) \in Nat /\ i \in Nat
    <3>1. DOMAIN identities = 1..Len(identities) /\ Len(identities) \in Nat
      BY DEF IInv, TypeOK
    <3> QED BY <1>4, <3>1, IdentityOfFacts
  <2>2. work' = [work EXCEPT ![a] = r]
    BY <1>1, <1>4
  <2> HIDE DEF i
  <2>3. /\ r \in Request /\ r.pc = "commit" /\ r.uid = w.uid
        /\ r.email = w.email /\ r.verified = w.verified /\ r.token = w.token
        /\ r.found = i /\ r.tenant = w.tenant
    BY <1>1, <2>1 DEF Request
  <2> HIDE DEF r, w
  <2>4. WorkOK(r)
    BY <1>1, <1>2, <2>1, <2>3 DEF WorkOK
  <2> QED BY <1>1, <1>2, <2>2, <2>3, <2>4, ReadKeeps DEF Unwritten
<1>5. CASE End(a)
  BY <1>2, <1>5, EndKeeps
<1> QED BY <1>3, <1>4, <1>5 DEF Find

LEMMA RegisterTenantKeeps ==
  ASSUME IInv, NEW a \in Actors, RegisterTenant(a)
  PROVE  IInv'
<1> DEFINE w == work[a]
           t == TenantOfHost(HostOf(w.email))
           r == [w EXCEPT !.pc = "create", !.tenant = t]
<1>1. /\ w \in Request /\ WorkOK(w) /\ requests \in 0..MaxRequests
      /\ work \in [Actors -> Request]
  BY DEF IInv, TypeOK
<1>2. w.pc = "tenant" /\ Unwritten
  BY DEF RegisterTenant
<1>3. t \in 0..Len(tenants) /\ t \in Nat
  <2>1. DOMAIN tenants = 1..Len(tenants) /\ Len(tenants) \in Nat
    BY DEF IInv, TypeOK
  <2> QED BY <2>1, TenantOfHostFacts
<1>4. CASE End(a)
  BY <1>2, <1>4, EndKeeps
<1>5. CASE work' = [work EXCEPT ![a].pc = "create", ![a].tenant = t]
  <2>1. work' = [work EXCEPT ![a] = r]
    BY <1>1, <1>5
  <2> HIDE DEF t
  <2>2. /\ r \in Request /\ r.pc = "create" /\ r.uid = w.uid
        /\ r.email = w.email /\ r.verified = w.verified /\ r.token = w.token
        /\ r.found = w.found /\ r.tenant = t
    BY <1>1, <1>3 DEF Request
  <2> HIDE DEF r, w
  <2>3. WorkOK(r)
    BY <1>1, <1>2, <1>3, <2>2 DEF WorkOK
  <2> QED BY <1>1, <1>2, <2>1, <2>2, <2>3, ReadKeeps DEF Unwritten
<1> QED BY <1>4, <1>5 DEF RegisterTenant

LEMMA CheckPasswordKeeps ==
  ASSUME IInv, NEW a \in Actors, CheckPassword(a)
  PROVE  IInv'
<1> DEFINE w == work[a]
           r == [w EXCEPT !.pc = "commit"]
<1>1. /\ w \in Request /\ WorkOK(w) /\ requests \in 0..MaxRequests
  BY DEF IInv, TypeOK
<1>2. w.pc = "create" /\ Unwritten
  BY DEF CheckPassword
<1>3. CASE End(a)
  BY <1>2, <1>3, EndKeeps
<1>4. CASE w.pwd \notin {"short", None} /\ Goto(a, "commit")
  <2>1. work' = [work EXCEPT ![a] = r]
    BY <1>4 DEF Goto
  <2>2. /\ r \in Request /\ r.pc = "commit" /\ r.uid = w.uid
        /\ r.email = w.email /\ r.verified = w.verified /\ r.token = w.token
        /\ r.found = w.found /\ r.tenant = w.tenant /\ r.pwd = w.pwd
    BY <1>1 DEF Request
  <2> HIDE DEF r
  <2>3. WorkOK(r)
    BY <1>1, <1>2, <1>4, <2>2 DEF WorkOK
  <2> QED BY <1>1, <1>2, <2>1, <2>2, <2>3, ReadKeeps DEF Unwritten
<1> QED BY <1>3, <1>4 DEF CheckPassword

LEMMA LocatesKeep ==
  ASSUME IInv, NEW a \in Actors, LocateExisting(a) \/ LocateAbsent(a)
  PROVE  IInv'
<1> DEFINE w == work[a]
           i == IdentityOf("local", w.email)
<1>1. /\ w \in Request /\ WorkOK(w) /\ requests \in 0..MaxRequests
      /\ work \in [Actors -> Request]
  BY DEF IInv, TypeOK
<1>2. w.pc = "locate" /\ Unwritten
  BY DEF LocateExisting, LocateAbsent
<1>3. CASE End(a)
  BY <1>2, <1>3, EndKeeps
<1>4. CASE i # 0 /\ work' = [work EXCEPT ![a].pc = "update", ![a].found = i]
  <2> DEFINE r == [w EXCEPT !.pc = "update", !.found = i]
  <2>1. /\ i \in 1..Len(identities) /\ Len(identities) \in Nat /\ i \in Nat
        /\ identities[i].uid = w.email
    <3>1. DOMAIN identities = 1..Len(identities) /\ Len(identities) \in Nat
      BY DEF IInv, TypeOK
    <3> QED BY <1>4, <3>1, IdentityOfFacts
  <2>2. work' = [work EXCEPT ![a] = r]
    BY <1>1, <1>4
  <2> HIDE DEF i
  <2>3. /\ r \in Request /\ r.pc = "update" /\ r.uid = w.uid
        /\ r.email = w.email /\ r.verified = w.verified /\ r.token = w.token
        /\ r.found = i /\ r.tenant = w.tenant
    BY <1>1, <2>1 DEF Request
  <2> HIDE DEF r, w
  <2>4. WorkOK(r)
    BY <1>1, <1>2, <2>1, <2>3 DEF WorkOK
  <2> QED BY <1>1, <1>2, <2>2, <2>3, <2>4, ReadKeeps DEF Unwritten
<1>5. CASE work' = [work EXCEPT ![a].pc = "find", ![a].verified = TRUE]
  <2> DEFINE r == [w EXCEPT !.pc = "find", !.verified = TRUE]
  <2>1. work' = [work EXCEPT ![a] = r]
    BY <1>1, <1>5
  <2>2. /\ r \in Request /\ r.pc = "find" /\ r.uid = w.uid
        /\ r.email = w.email /\ r.verified = TRUE /\ r.token = w.token
        /\ r.found = w.found /\ r.tenant = w.tenant
    BY <1>1 DEF Request
  <2> HIDE DEF r, w
  <2>3. WorkOK(r)
    BY <1>1, <1>2, <2>2 DEF WorkOK
  <2> QED BY <1>1, <1>2, <2>1, <2>2, <2>3, ReadKeeps DEF Unwritten
<1> QED BY <1>3, <1>4, <1>5 DEF LocateExisting, LocateAbsent

LEMMA UpdateKeeps ==
  ASSUME IInv, NEW a \in Actors, Update(a)
  PROVE  IInv'
<1> DEFINE w == work[a]
           r == [w EXCEPT !.pc = "commit"]
<1>1. /\ w \in Request /\ WorkOK(w) /\ requests \in 0..MaxRequests
  BY DEF IInv, TypeOK
<1>2. w.pc = "update" /\ Unwritten
  BY DEF Update
<1>3. CASE End(a)
  BY <1>2, <1>3, EndKeeps
<1>4. CASE (tokens[w.token].resetPwd => w.pwd # "short") /\ Goto(a, "commit")
  <2>1. work' = [work EXCEPT ![a] = r]
    BY <1>4 DEF Goto
  <2>2. /\ r \in Request /\ r.pc = "commit" /\ r.uid = w.uid
        /\ r.email = w.email /\ r.verified = w.verified /\ r.token = w.token
        /\ r.found = w.found /\ r.tenant = w.tenant /\ r.pwd = w.pwd
    BY <1>1 DEF Request
  <2> HIDE DEF r
  <2>3. WorkOK(r)
    BY <1>1, <1>2, <1>4, <2>2 DEF WorkOK
  <2> QED BY <1>1, <1>2, <2>1, <2>2, <2>3, ReadKeeps DEF Unwritten
<1> QED BY <1>3, <1>4 DEF Update

----------------------------------------------------------------------------
(* Tokens are issued and expire. *)

(* A step of the request of a that writes tokens only. *)
LEMMA TokensKeep ==
  ASSUME IInv, NEW a \in Actors, NEW r \in Request, WorkOK(r),
         work' = [work EXCEPT ![a] = r],
         UNCHANGED <<tenants, users, identities, requests, rowSecurity>>,
         tokens' \in Seq(Token), Grows, TokensFresh', TokenUsedOnce'
  PROVE  IInv'
<1>1. TypeOK /\ TypeOK'
  BY DEF IInv, TypeOK
<1>2. RowsOK' /\ NothingHalfRegistered'
  BY DEF IInv, RowsOK, NothingHalfRegistered
<1>3. ASSUME NEW o \in Actors PROVE WorkOK(work[o])'
  <2>1. WorkOK(work'[o])
    BY DEF IInv, TypeOK
  <2>2. \A x : WorkOK(x) => WorkOK(x)'
    BY <1>1, WorkKept
  <2> QED BY <2>1, <2>2 DEF WorkOK
<1> QED BY <1>1, <1>2, <1>3 DEF IInv

LEMMA SendValidationEmailKeeps ==
  ASSUME IInv, NEW a \in Actors, NEW sent \in BOOLEAN,
         SendValidationEmail(a, sent)
  PROVE  IInv'
<1> DEFINE w == work[a]
           i == IdentityOf("local", w.email)
           t == NewToken(w.email, i, w.args)
<1>1. w \in Request /\ WorkOK(w) /\ w.pc = "send" /\ tokens \in Seq(Token)
  BY DEF IInv, TypeOK, SendValidationEmail
<1>2. t \in Token /\ t.live /\ t.uses = 0
  <2>1. /\ w.email \in Emails
        /\ w.args \in [resetPwd : BOOLEAN, create : BOOLEAN, userId : BOOLEAN]
    BY <1>1 DEF WorkOK, Request
  <2> HIDE DEF i, w
  <2> QED BY <2>1 DEF NewToken, Token
<1>3. CASE tokens' = tokens
  BY <1>3, IdleTyped, IdleOK, ReadKeeps
     DEF SendValidationEmail, End, IInv, TypeOK
<1>4. CASE tokens' = Append(tokens, t)
  <2> HIDE DEF t
  <2>1. /\ tokens' \in Seq(Token) /\ Len(tokens) <= Len(tokens')
        /\ \A k \in DOMAIN tokens : tokens'[k] = tokens[k]
        /\ \A k \in DOMAIN tokens' : k \in DOMAIN tokens \/ tokens'[k] = t
    BY <1>1, <1>2, <1>4, AppendFacts
  <2>2. /\ work' = [work EXCEPT ![a] = Idle]
        /\ UNCHANGED <<tenants, users, identities, requests, rowSecurity>>
    BY DEF SendValidationEmail, End
  <2>3. TokensFresh' /\ TokenUsedOnce'
    BY <1>2, <2>1 DEF IInv, TokensFresh, TokenUsedOnce
  <2>4. WorkOK(Idle) /\ Idle \in Request
    BY IdleOK, IdleTyped DEF IInv
  <2>5. Grows
    BY <2>1, <2>2, SeqFacts DEF Grows, IInv, TypeOK
  <2> QED BY <2>1, <2>2, <2>3, <2>4, <2>5, TokensKeep
<1> QED BY <1>3, <1>4 DEF SendValidationEmail

LEMMA VerifyTokenKeeps ==
  ASSUME IInv, NEW a \in Actors, NEW expired \in BOOLEAN,
         VerifyToken(a, expired)
  PROVE  IInv'
<1> DEFINE w == work[a]
           k == w.token
           d == [tokens[k] EXCEPT !.live = FALSE]
           r == [w EXCEPT !.pc = "locate", !.uid = tokens[k].sub,
                          !.email = tokens[k].sub]
<1>1. /\ w \in Request /\ WorkOK(w) /\ w.pc = "verify"
      /\ tokens \in Seq(Token) /\ requests \in 0..MaxRequests
      /\ work \in [Actors -> Request]
      /\ UNCHANGED <<tenants, users, identities, requests, rowSecurity>>
  BY DEF IInv, TypeOK, VerifyToken
<1>2. k \in DOMAIN tokens /\ tokens[k] \in Token
  <2>1. DOMAIN tokens = 1..Len(tokens) /\ Len(tokens) \in Nat
    BY <1>1
  <2>2. k \in DOMAIN tokens
    BY <1>1, <2>1 DEF WorkOK
  <2> QED BY <1>1, <2>2, SeqFacts
<1>3. CASE expired
  <2>1. tokens' = [tokens EXCEPT ![k] = d] /\ work' = [work EXCEPT ![a] = Idle]
    BY <1>3 DEF VerifyToken, End
  <2>2. /\ d \in Token /\ d.sub = tokens[k].sub /\ ~d.live
        /\ d.resetPwd = tokens[k].resetPwd /\ d.uses = tokens[k].uses
    BY <1>2 DEF Token
  <2> HIDE DEF d, k
  <2>3. /\ tokens' \in Seq(Token) /\ Len(tokens') = Len(tokens)
        /\ DOMAIN tokens' = DOMAIN tokens /\ tokens'[k] = d
        /\ \A j \in DOMAIN tokens : j # k => tokens'[j] = tokens[j]
    BY <1>1, <1>2, <2>1, <2>2, ExceptFacts
  <2>4. TokensFresh' /\ TokenUsedOnce'
    BY <2>2, <2>3 DEF IInv, TokensFresh, TokenUsedOnce
  <2>5. WorkOK(Idle) /\ Idle \in Request
    BY IdleOK, IdleTyped DEF IInv
  <2>6. Grows
    <3>1. \A j \in DOMAIN tokens : /\ tokens'[j].sub = tokens[j].sub
                                  /\ tokens'[j].resetPwd = tokens[j].resetPwd
      BY <2>2, <2>3
    <3> QED BY <1>1, <2>3, <3>1, SeqFacts DEF Grows, IInv, TypeOK
  <2> QED BY <1>1, <2>1, <2>3, <2>4, <2>5, <2>6, TokensKeep
<1>4. CASE ~expired /\ End(a)
  BY <1>1, <1>4, EndKeeps DEF VerifyToken, Unwritten
<1>5. CASE /\ ~expired
           /\ work' = [work EXCEPT ![a].pc = "locate",
                          ![a].uid = tokens[k].sub, ![a].email = tokens[k].sub]
  <2>1. work' = [work EXCEPT ![a] = r] /\ tokens' = tokens
    BY <1>1, <1>5 DEF VerifyToken
  <2>2. tokens[k].sub \in Emails /\ tokens[k].sub # None
    BY <1>2, AccountsAssumption DEF Token
  <2>3. /\ r \in Request /\ r.pc = "locate" /\ r.uid = tokens[k].sub
        /\ r.email = tokens[k].sub /\ r.verified = w.verified
        /\ r.token = w.token /\ r.found = w.found /\ r.tenant = w.tenant
    BY <1>1, <2>2 DEF Request
  <2> HIDE DEF r
  <2>4. WorkOK(r)
    BY <1>1, <2>2, <2>3 DEF WorkOK
  <2> QED BY <1>1, <2>1, <2>3, <2>4, ReadKeeps
<1> QED BY <1>3, <1>4, <1>5 DEF VerifyToken

----------------------------------------------------------------------------
(* Requests commit. *)

(* A token that was there is deleted, and has been used once. *)
LEMMA TokensAfterFacts ==
  ASSUME IInv, NEW a \in Actors, TokenDeleted(work[a]),
         tokens' = TokensAfter(work[a])
  PROVE  /\ tokens' \in Seq(Token) /\ Len(tokens') = Len(tokens)
         /\ TokensFresh' /\ TokenUsedOnce'
         /\ \A k \in DOMAIN tokens :
              /\ tokens'[k].sub = tokens[k].sub
              /\ tokens'[k].resetPwd = tokens[k].resetPwd
         /\ work[a].token # 0 => /\ work[a].token \in DOMAIN tokens
                                 /\ tokens[work[a].token].live
                                 /\ ~tokens'[work[a].token].live
<1> DEFINE k == work[a].token
           d == [tokens[k] EXCEPT !.live = FALSE, !.uses = @ + 1]
<1>1. /\ tokens \in Seq(Token) /\ DOMAIN tokens = 1..Len(tokens)
      /\ Len(tokens) \in Nat /\ k \in 0..Len(tokens)
  BY SeqFacts DEF IInv, TypeOK, WorkOK
<1>2. TokensFresh /\ TokenUsedOnce
  BY DEF IInv
<1>3. CASE k = 0
  BY <1>1, <1>2, <1>3 DEF TokensAfter, TokensFresh, TokenUsedOnce
<1>4. CASE k # 0
  <2>1. k \in DOMAIN tokens /\ tokens[k] \in Token
    BY <1>1, <1>4, SeqFacts
  <2>2. tokens[k].live /\ tokens[k].uses = 0
    BY <1>2, <2>1 DEF TokenDeleted, TokensFresh
  <2>3. tokens' = [tokens EXCEPT ![k] = d]
    BY <1>4, <2>1 DEF TokensAfter
  <2>4. /\ d \in Token /\ d.sub = tokens[k].sub /\ ~d.live
        /\ d.resetPwd = tokens[k].resetPwd /\ d.uses = 1
    <3>1. d = [tokens[k] EXCEPT !.live = FALSE, !.uses = 1]
      <4>1. tokens[k].uses + 1 = 1
        BY <2>2
      <4> QED BY <2>1, <4>1 DEF Token
    <3> HIDE DEF d, k
    <3> QED BY <2>1, <3>1 DEF Token
  <2> HIDE DEF d
  <2>5. /\ tokens' \in Seq(Token) /\ Len(tokens') = Len(tokens)
        /\ DOMAIN tokens' = DOMAIN tokens /\ tokens'[k] = d
        /\ \A j \in DOMAIN tokens : j # k => tokens'[j] = tokens[j]
    BY <1>1, <2>1, <2>3, <2>4, ExceptFacts
  <2>6. TokensFresh' /\ TokenUsedOnce'
    BY <1>2, <2>4, <2>5 DEF TokensFresh, TokenUsedOnce
  <2>7. \A j \in DOMAIN tokens : /\ tokens'[j].sub = tokens[j].sub
                                  /\ tokens'[j].resetPwd = tokens[j].resetPwd
    BY <2>4, <2>5
  <2>8. ~tokens'[k].live
    BY <2>4, <2>5
  <2>9. tokens' \in Seq(Token) /\ Len(tokens') = Len(tokens)
    BY <2>5
  <2> HIDE DEF k
  <2>10. k # 0 => k \in DOMAIN tokens /\ tokens[k].live /\ ~tokens'[k].live
    BY <2>1, <2>2, <2>8
  <2> QED BY <2>6, <2>7, <2>9, <2>10 DEF k
<1> QED BY <1>3, <1>4

(* The tables after a commit, and what is left to say about each. *)
LEMMA CommitKeeps ==
  ASSUME IInv, NEW a \in Actors, TokenDeleted(work[a]),
         tokens' = TokensAfter(work[a]), End(a),
         UNCHANGED <<requests, rowSecurity>>,
         tenants' \in Seq(Tenant), users' \in Seq(User),
         identities' \in Seq(Identity),
         Len(tenants) <= Len(tenants'), Len(identities) <= Len(identities'),
         \A i \in DOMAIN identities : identities'[i].uid = identities[i].uid,
         RowsOK', NothingHalfRegistered'
  PROVE  IInv'
<1>1. /\ tokens' \in Seq(Token) /\ Len(tokens') = Len(tokens)
      /\ TokensFresh' /\ TokenUsedOnce'
      /\ \A k \in DOMAIN tokens : /\ tokens'[k].sub = tokens[k].sub
                                  /\ tokens'[k].resetPwd = tokens[k].resetPwd
  BY TokensAfterFacts
<1>2. TypeOK /\ TypeOK'
  BY <1>1, IdleTyped DEF IInv, TypeOK, End
<1>3. Grows
  BY <1>1, <1>2, SeqFacts DEF Grows, TypeOK
<1>4. ASSUME NEW o \in Actors PROVE WorkOK(work[o])'
  <2>1. WorkOK(work'[o])
    BY <1>2, IdleOK DEF IInv, TypeOK, End
  <2>2. \A x : WorkOK(x) => WorkOK(x)'
    BY <1>2, <1>3, WorkKept
  <2> QED BY <2>1, <2>2 DEF WorkOK
<1> QED BY <1>1, <1>2, <1>4 DEF IInv

LEMMA CommitNewKeeps ==
  ASSUME IInv, NEW a \in Actors, CommitNew(a)
  PROVE  /\ IInv'
         /\ \A i \in DOMAIN identities : identities'[i] = identities[i]
<1> DEFINE w == work[a]
           t == IF w.tenant = 0 THEN Len(tenants) + 1 ELSE w.tenant
           newTenant == [emailHost |-> HostOf(w.email), active |-> TRUE]
           newUser == [tenant |-> t, email |-> None]
           newIdentity == [provider |-> w.provider, uid |-> w.uid,
                           email |-> w.email, credentials |-> w.pwd,
                           verified |-> w.verified, tenant |-> t,
                           user |-> Len(users) + 1]
<1>1. /\ w \in Request /\ WorkOK(w) /\ w.pc = "commit" /\ w.found = 0
      /\ tenants \in Seq(Tenant) /\ users \in Seq(User)
      /\ identities \in Seq(Identity)
      /\ Len(tenants) \in Nat /\ DOMAIN tenants = 1..Len(tenants)
      /\ Len(users) \in Nat
      /\ DOMAIN users = 1..Len(users)
      /\ \A u \in DOMAIN users : users[u].tenant \in DOMAIN tenants
      /\ \A i \in DOMAIN identities :
           /\ identities[i].user \in DOMAIN users
           /\ identities[i].tenant = users[identities[i].user].tenant
      /\ NothingHalfRegistered
  BY SeqFacts DEF IInv, TypeOK, RowsOK, CommitNew
<1>2. /\ TokenDeleted(w) /\ tokens' = TokensAfter(w) /\ End(a)
      /\ tenants' = IF w.tenant = 0 THEN Append(tenants, newTenant) ELSE tenants
      /\ users' = Append(users, newUser)
      /\ identities' = Append(identities, newIdentity)
      /\ UNCHANGED <<requests, rowSecurity>>
  BY DEF CommitNew
<1>3. /\ t \in Nat /\ newTenant \in Tenant /\ newUser \in User
      /\ newUser.tenant = t
  <2>1. t \in Nat
    BY <1>1 DEF WorkOK
  <2> HIDE DEF t, w
  <2> QED BY <2>1 DEF Tenant, User, HostOf
<1>4. newIdentity \in Identity /\ newIdentity.user = Len(users) + 1
      /\ newIdentity.tenant = t
  <2>1. w.uid \in Emails \cup OauthIds /\ w.pwd \in Secret
    BY <1>1 DEF WorkOK, Request, Secret, Given
  <2>2. Len(users) + 1 \in Nat
    BY <1>1
  <2> HIDE DEF t
  <2> QED BY <1>1, <1>3, <2>1, <2>2 DEF Request, Identity
<1> HIDE DEF newTenant, newUser, newIdentity
<1>5. /\ tenants' \in Seq(Tenant) /\ Len(tenants) <= Len(tenants')
      /\ DOMAIN tenants \subseteq DOMAIN tenants' /\ t \in DOMAIN tenants'
      /\ \A j \in DOMAIN tenants' : j \in DOMAIN tenants \/ j = t
  <2>1. CASE w.tenant = 0
    BY <1>1, <1>2, <1>3, <2>1, AppendFacts
  <2>2. CASE w.tenant # 0
    BY <1>1, <1>2, <2>2 DEF WorkOK
  <2> QED BY <2>1, <2>2
<1> HIDE DEF t
<1>6. /\ users' \in Seq(User)
      /\ DOMAIN users' = DOMAIN users \cup {Len(users) + 1}
      /\ users'[Len(users) + 1] = newUser
      /\ \A u \in DOMAIN users : u # Len(users) + 1 /\ users'[u] = users[u]
  BY <1>1, <1>2, <1>3, AppendFacts
<1>7. /\ identities' \in Seq(Identity) /\ Len(identities) <= Len(identities')
      /\ DOMAIN identities' = DOMAIN identities \cup {Len(identities) + 1}
      /\ identities'[Len(identities) + 1] = newIdentity
      /\ \A i \in DOMAIN identities : identities'[i] = identities[i]
  BY <1>1, <1>2, <1>4, AppendFacts
<1>8. \A u \in DOMAIN users' : users'[u].tenant \in DOMAIN tenants'
  BY <1>1, <1>3, <1>5, <1>6
<1>9. \A i \in DOMAIN identities' :
        /\ identities'[i].user \in DOMAIN users'
        /\ identities'[i].tenant = users'[identities'[i].user].tenant
  BY <1>1, <1>3, <1>4, <1>6, <1>7
<1>10. NothingHalfRegistered'
  <2>1. ASSUME NEW j \in DOMAIN tenants'
        PROVE  \E u \in DOMAIN users' : users'[u].tenant = j
    <3>1. CASE j = t
      BY <1>3, <1>6, <3>1
    <3>2. CASE j \in DOMAIN tenants
      <4>1. PICK u \in DOMAIN users : users[u].tenant = j
        BY <1>1, <3>2 DEF NothingHalfRegistered
      <4> QED BY <1>6, <4>1
    <3> QED BY <1>5, <3>1, <3>2
  <2>2. ASSUME NEW u \in DOMAIN users'
        PROVE  \E i \in DOMAIN identities' : identities'[i].user = u
    <3>1. CASE u = Len(users) + 1
      BY <1>4, <1>7, <3>1
    <3>2. CASE u \in DOMAIN users
      <4>1. PICK i \in DOMAIN identities : identities[i].user = u
        BY <1>1, <3>2 DEF NothingHalfRegistered
      <4> QED BY <1>7, <4>1
    <3> QED BY <1>6, <3>1, <3>2
  <2> QED BY <2>1, <2>2 DEF NothingHalfRegistered
<1>11. /\ \A i \in DOMAIN identities : identities'[i].uid = identities[i].uid
       /\ RowsOK'
  BY <1>7, <1>8, <1>9 DEF RowsOK
<1>12. IInv'
  BY <1>2, <1>5, <1>6, <1>7, <1>10, <1>11, CommitKeeps
<1> QED BY <1>7, <1>12

(* Only the identity a confirmation has found is written, and its password *)
(* only if that confirmation uses up a reset token of its address.         *)
LEMMA CommitFoundKeeps ==
  ASSUME IInv, NEW a \in Actors, CommitFound(a)
  PROVE  /\ IInv'
         /\ \A i \in DOMAIN identities :
              identities'[i].credentials # identities[i].credentials =>
                \E k \in DOMAIN tokens :
                  /\ tokens[k].sub = identities[i].uid /\ tokens[k].resetPwd
                  /\ tokens[k].live /\ ~tokens'[k].live
<1> DEFINE w == work[a]
           f == w.found
           after == AfterConfirm(f, w)
           owner == identities[f].user
           u2 == [users[owner] EXCEPT !.email = IF @ = None THEN None ELSE w.email]
<1>1. /\ w \in Request /\ WorkOK(w) /\ w.pc = "commit" /\ f # 0
      /\ users \in Seq(User) /\ identities \in Seq(Identity)
      /\ tenants \in Seq(Tenant)
      /\ Len(tenants) \in Nat /\ DOMAIN tenants = 1..Len(tenants)
      /\ Len(identities) \in Nat /\ DOMAIN identities = 1..Len(identities)
      /\ \A u \in DOMAIN users : users[u].tenant \in DOMAIN tenants
      /\ \A i \in DOMAIN identities :
           /\ identities[i].user \in DOMAIN users
           /\ identities[i].tenant = users[identities[i].user].tenant
      /\ NothingHalfRegistered
  BY SeqFacts DEF IInv, TypeOK, RowsOK, CommitFound
<1>2. /\ TokenDeleted(w) /\ tokens' = TokensAfter(w) /\ End(a)
      /\ identities' = IF w.token = 0 THEN identities
                       ELSE [identities EXCEPT ![f] = after]
      /\ users' = IF w.token = 0 \/ w.email = None THEN users
                  ELSE WithEmail(users, owner, w.email)
      /\ UNCHANGED <<tenants, requests, rowSecurity>>
  BY DEF CommitFound
<1>3. f \in DOMAIN identities /\ identities[f] \in Identity
  <2>1. f \in DOMAIN identities
    BY <1>1 DEF WorkOK
  <2> QED BY <1>1, <2>1, SeqFacts
<1>4. owner \in DOMAIN users /\ users[owner] \in User
  BY <1>1, <1>3, SeqFacts
<1>5. CASE w.token = 0
  <2>1. identities' = identities /\ users' = users
    BY <1>2, <1>5
  <2>2. RowsOK' /\ NothingHalfRegistered'
    <3>1. tenants' = tenants
      BY <1>2
    <3>2. RowsOK'
      BY <1>1, <2>1, <3>1 DEF RowsOK
    <3>3. NothingHalfRegistered'
      BY <1>1, <2>1, <3>1 DEF NothingHalfRegistered
    <3> QED BY <3>2, <3>3
  <2>3. /\ identities' \in Seq(Identity) /\ users' \in Seq(User)
        /\ tenants' \in Seq(Tenant)
        /\ Len(tenants) <= Len(tenants') /\ Len(identities) <= Len(identities')
        /\ \A i \in DOMAIN identities : identities'[i].uid = identities[i].uid
    <3>1. tenants' = tenants
      BY <1>2
    <3>2. Len(tenants) <= Len(tenants') /\ Len(identities) <= Len(identities')
      BY <1>1, <2>1, <3>1
    <3> QED BY <1>1, <2>1, <3>1, <3>2
  <2>4. IInv'
    BY <1>2, <2>2, <2>3, CommitKeeps
  <2> QED BY <2>1, <2>4
<1>6. CASE w.token # 0
  <2>1. /\ after \in Identity /\ after.uid = identities[f].uid
        /\ after.user = identities[f].user
        /\ after.tenant = identities[f].tenant
        /\ after.credentials # identities[f].credentials =>
             /\ tokens[w.token].sub = identities[f].uid
             /\ tokens[w.token].resetPwd
    <3>1. CASE w.verified \/ ~tokens[w.token].resetPwd \/ w.pwd = None
      BY <1>3, <3>1 DEF AfterConfirm
    <3>2. CASE ~w.verified /\ tokens[w.token].resetPwd /\ w.pwd # None
      <4>1. after = [identities[f] EXCEPT !.credentials = w.pwd]
        BY <3>2 DEF AfterConfirm
      <4>2. w.pwd \in Secret /\ tokens[w.token].sub = identities[f].uid
        BY <1>1, <1>6, <3>2 DEF WorkOK, Request, Secret, Given
      <4> HIDE DEF after, f, w
      <4> QED BY <1>3, <3>2, <4>1, <4>2 DEF Identity
    <3> QED BY <3>1, <3>2
  <2> HIDE DEF after
  <2>2. /\ identities' \in Seq(Identity) /\ Len(identities') = Len(identities)
        /\ DOMAIN identities' = DOMAIN identities /\ identities'[f] = after
        /\ \A i \in DOMAIN identities : i # f => identities'[i] = identities[i]
    BY <1>1, <1>2, <1>3, <1>6, <2>1, ExceptFacts
  <2>3. /\ users' \in Seq(User) /\ DOMAIN users' = DOMAIN users
        /\ \A u \in DOMAIN users : users'[u].tenant = users[u].tenant
    <3>1. CASE w.email = None
      BY <1>1, <1>2, <3>1
    <3>2. CASE w.email # None
      <4>1. u2 \in User /\ u2.tenant = users[owner].tenant
        BY <1>1, <1>4 DEF User, Request
      <4>2. users' = [users EXCEPT ![owner] = u2]
        BY <1>2, <1>6, <3>2, <1>4 DEF WithEmail
      <4> HIDE DEF u2, owner
      <4> QED BY <1>1, <1>4, <4>1, <4>2, ExceptFacts
    <3> QED BY <3>1, <3>2
  <2>4. \A i \in DOMAIN identities :
          /\ identities'[i].uid = identities[i].uid
          /\ identities'[i].user = identities[i].user
          /\ identities'[i].tenant = identities[i].tenant
    BY <2>1, <2>2
  <2>5. RowsOK'
    <3>1. \A u \in DOMAIN users' : users'[u].tenant \in DOMAIN tenants'
      BY <1>1, <1>2, <2>3
    <3>2. ASSUME NEW i \in DOMAIN identities'
          PROVE  /\ identities'[i].user \in DOMAIN users'
                 /\ identities'[i].tenant = users'[identities'[i].user].tenant
      <4>1. i \in DOMAIN identities
        BY <2>2
      <4>2. /\ identities'[i].user = identities[i].user
            /\ identities'[i].tenant = identities[i].tenant
        BY <2>4, <4>1
      <4>3. /\ identities[i].user \in DOMAIN users
            /\ identities[i].tenant = users[identities[i].user].tenant
        BY <1>1, <4>1
      <4> QED BY <2>3, <4>2, <4>3
    <3> QED BY <3>1, <3>2 DEF RowsOK
  <2>6. NothingHalfRegistered'
    <3>1. ASSUME NEW t \in DOMAIN tenants'
          PROVE  \E u \in DOMAIN users' : users'[u].tenant = t
      <4>1. PICK u \in DOMAIN users : users[u].tenant = t
        BY <1>1, <1>2 DEF NothingHalfRegistered
      <4> QED BY <2>3, <4>1
    <3>2. ASSUME NEW u \in DOMAIN users'
          PROVE  \E i \in DOMAIN identities' : identities'[i].user = u
      <4>1. PICK i \in DOMAIN identities : identities[i].user = u
        BY <1>1, <2>3 DEF NothingHalfRegistered
      <4>2. i \in DOMAIN identities' /\ identities'[i].user = u
        BY <2>2, <2>4, <4>1
      <4> QED BY <4>2
    <3> QED BY <3>1, <3>2 DEF NothingHalfRegistered
  <2>7. Len(tenants) <= Len(tenants') /\ Len(identities) <= Len(identities')
    BY <1>1, <1>2, <2>2
  <2>8. IInv'
    <3>1. tenants' \in Seq(Tenant)
      BY <1>1, <1>2
    <3>2. \A i \in DOMAIN identities : identities'[i].uid = identities[i].uid
      BY <2>4
    <3> QED BY <1>2, <2>2, <2>3, <2>5, <2>6, <2>7, <3>1, <3>2, CommitKeeps
  <2>9. ASSUME NEW i \in DOMAIN identities,
               identities'[i].credentials # identities[i].credentials
        PROVE  \E k \in DOMAIN tokens :
                 /\ tokens[k].sub = identities[i].uid /\ tokens[k].resetPwd
                 /\ tokens[k].live /\ ~tokens'[k].live
    <3>1. i = f
      BY <2>2, <2>9
    <3>2. tokens[w.token].sub = identities[i].uid /\ tokens[w.token].resetPwd
      BY <2>1, <2>2, <2>9, <3>1
    <3>3. /\ w.token \in DOMAIN tokens /\ tokens[w.token].live
          /\ ~tokens'[w.token].live
      BY <1>2, <1>6, TokensAfterFacts
    <3> QED BY <3>2, <3>3
  <2> QED BY <2>8, <2>9
<1> QED BY <1>5, <1>6

----------------------------------------------------------------------------
LEMMA DeactivateKeeps ==
  ASSUME IInv, NEW t \in DOMAIN tenants, Deactivate(t)
  PROVE  IInv'
<1> DEFINE d == [tenants[t] EXCEPT !.active = FALSE]
<1>1. /\ tenants' = [tenants EXCEPT ![t] = d]
      /\ UNCHANGED <<users, identities, tokens, work, requests, rowSecurity>>
  BY DEF Deactivate
<1>2. d \in Tenant
  <2>1. tenants[t] \in Tenant
    BY SeqFacts DEF IInv, TypeOK
  <2> QED BY <2>1 DEF Tenant
<1> HIDE DEF d
<1>3. /\ tenants' \in Seq(Tenant) /\ Len(tenants') = Len(tenants)
      /\ DOMAIN tenants' = DOMAIN tenants
  BY <1>1, <1>2, ExceptFacts DEF IInv, TypeOK
<1>4. TypeOK /\ TypeOK'
  BY <1>1, <1>3 DEF IInv, TypeOK
<1>5. RowsOK' /\ TokensFresh' /\ TokenUsedOnce' /\ NothingHalfRegistered'
  BY <1>1, <1>3
     DEF IInv, RowsOK, TokensFresh, TokenUsedOnce, NothingHalfRegistered
<1>6. ASSUME NEW o \in Actors PROVE WorkOK(work[o])'
  <2>1. WorkOK(work'[o])
    BY <1>1 DEF IInv
  <2>2. Grows
    BY <1>1, <1>3, <1>4, SeqFacts DEF Grows, TypeOK
  <2>3. \A x : WorkOK(x) => WorkOK(x)'
    BY <1>4, <2>2, WorkKept
  <2> QED BY <2>1, <2>3 DEF WorkOK
<1> QED BY <1>4, <1>5, <1>6 DEF IInv

LEMMA NextKeeps ==
  ASSUME IInv, [Next]_vars
  PROVE  IInv'
<1>1. \A a \in Actors, m \in Emails, p \in Given \ {None} :
        Register(a, m, p) => IInv'
  BY RegisterKeeps
<1>2. \A a \in Actors, o \in OauthIds, m \in Emails \cup {None}, v \in BOOLEAN :
        OauthLogin(a, o, m, v) => IInv'
  BY OauthLoginKeeps
<1>3. \A a \in Actors, m \in Emails, r, c, u \in BOOLEAN :
        SendConfirmEmail(a, m, [resetPwd |-> r, create |-> c, userId |-> u])
          => IInv'
  BY SendConfirmEmailKeeps
<1>4. \A a \in Actors, k \in DOMAIN tokens, p \in Given :
        ConfirmEmail(a, k, p) => IInv'
  BY ConfirmEmailKeeps
<1>5. ASSUME NEW a \in Actors,
             \/ Find(a) \/ RegisterTenant(a) \/ CheckPassword(a)
             \/ LocateExisting(a) \/ LocateAbsent(a) \/ Update(a)
      PROVE  IInv'
  BY <1>5, FindKeeps, RegisterTenantKeeps, CheckPasswordKeeps, LocatesKeep,
     UpdateKeeps
<1>6. \A a \in Actors, b \in BOOLEAN :
        SendValidationEmail(a, b) \/ VerifyToken(a, b) => IInv'
  BY SendValidationEmailKeeps, VerifyTokenKeeps
<1>7. \A a \in Actors : CommitNew(a) \/ CommitFound(a) => IInv'
  BY CommitNewKeeps, CommitFoundKeeps
<1>8. \A a \in Actors : CommitFails(a) => IInv'
  BY EndKeeps DEF CommitFails, Fail
<1>9. \A t \in DOMAIN tenants : Deactivate(t) => IInv'
  BY DeactivateKeeps
<1>10. CASE UNCHANGED vars
  BY <1>10
     DEF vars, IInv, TypeOK, RowsOK, TokensFresh, TokenUsedOnce,
         NothingHalfRegistered, WorkOK
<1> QED
  BY <1>1, <1>2, <1>3, <1>4, <1>5, <1>6, <1>7, <1>8, <1>9, <1>10 DEF Next

(* However requests race, fail and come late, IInv holds of the tables and *)
(* of what requests have read: UsersService and AuthTokensService.         *)
THEOREM Invariance == Spec => []IInv
<1> QED BY InvInit, NextKeeps, PTL DEF Spec

(* Every table and request keeps its type. *)
THEOREM TypeCorrect == Spec => []TypeOK
<1>1. IInv => TypeOK
  BY DEF IInv
<1> QED BY <1>1, Invariance, PTL

(* verify() deletes a token once, for any number of concurrent requests.   *)
THEOREM TokenUsedOnceHolds == Spec => []TokenUsedOnce
<1>1. IInv => TokenUsedOnce
  BY DEF IInv
<1> QED BY <1>1, Invariance, PTL

(* registerUserFromIdentity() leaves no tenant without a user and no user  *)
(* without an identity.                                                    *)
THEOREM NothingHalfRegisteredHolds == Spec => []NothingHalfRegistered
<1>1. IInv => NothingHalfRegistered
  BY DEF IInv
<1> QED BY <1>1, Invariance, PTL

(* validateEmail() is all that changes a password, and it uses up a reset  *)
(* token of that address.                                                  *)
THEOREM PasswordOnlyByResetHolds == Spec => PasswordOnlyByReset
<1> DEFINE ByReset ==
      \A i \in DOMAIN identities :
        identities'[i].credentials # identities[i].credentials =>
          \E k \in DOMAIN tokens :
            /\ tokens[k].sub = identities[i].uid /\ tokens[k].resetPwd
            /\ tokens[k].live /\ ~tokens'[k].live
<1>1. IInv /\ [Next]_vars => [ByReset]_vars
  <2> SUFFICES ASSUME IInv, Next PROVE ByReset
    OBVIOUS
  <2>1. CASE \E a \in Actors : CommitNew(a)
    BY <2>1, CommitNewKeeps
  <2>2. CASE \E a \in Actors : CommitFound(a)
    BY <2>2, CommitFoundKeeps
  <2>3. CASE UNCHANGED identities
    BY <2>3
  <2> QED
    BY <2>1, <2>2, <2>3
       DEF Next, Register, OauthLogin, SendConfirmEmail, ConfirmEmail, Begin,
           Find, RegisterTenant, CheckPassword, SendValidationEmail,
           VerifyToken, LocateExisting, LocateAbsent, Update, CommitFails,
           Fail, Unwritten, Deactivate
<1> QED BY <1>1, Invariance, PTL DEF Spec, PasswordOnlyByReset

============================================================================
