------------------------- MODULE CallgentTreeProofs -------------------------
(***************************************************************************)
(* Proofs about CallgentTree, for any administrators, tenants and realm    *)
(* keys and any number of rows and requests: a tree is in one tenant, its  *)
(* securities refer to its own realms, and only a request that goes on     *)
(* with what it had read leaves a reference to a row that is gone.         *)
(***************************************************************************)
EXTENDS CallgentTree, FiniteSetTheorems, SequenceTheorems, TLAPS

(* Sequences. *)
LEMMA SeqFacts ==
  ASSUME NEW S, NEW s \in Seq(S)
  PROVE  /\ DOMAIN s = 1..Len(s) /\ Len(s) \in Nat
         /\ \A i \in DOMAIN s : s[i] \in S /\ i \in Pk
BY ElementOfSeq DEF Pk

LEMMA CatFacts ==
  ASSUME NEW S, NEW s \in Seq(S), NEW t \in Seq(S)
  PROVE  /\ s \o t \in Seq(S)
         /\ Len(s \o t) = Len(s) + Len(t)
         /\ DOMAIN s \subseteq DOMAIN (s \o t)
         /\ \A i \in DOMAIN s : (s \o t)[i] = s[i]
         /\ \A i \in DOMAIN t : /\ Len(s) + i \in DOMAIN (s \o t) \ DOMAIN s
                                /\ (s \o t)[Len(s) + i] = t[i]
         /\ \A k \in DOMAIN (s \o t) \ DOMAIN s :
              \E i \in DOMAIN t : k = Len(s) + i /\ (s \o t)[k] = t[i]
<1>1. /\ s \o t \in Seq(S) /\ Len(s \o t) = Len(s) + Len(t)
      /\ \A i \in 1..(Len(s) + Len(t)) :
           (s \o t)[i] = IF i <= Len(s) THEN s[i] ELSE t[i - Len(s)]
  BY ConcatProperties
<1>2. /\ DOMAIN s = 1..Len(s) /\ Len(s) \in Nat
      /\ DOMAIN t = 1..Len(t) /\ Len(t) \in Nat
      /\ DOMAIN (s \o t) = 1..(Len(s) + Len(t))
  BY <1>1, SeqFacts
<1>3. ASSUME NEW i \in DOMAIN t
      PROVE  /\ Len(s) + i \in DOMAIN (s \o t) \ DOMAIN s
             /\ (s \o t)[Len(s) + i] = t[i]
  <2>1. /\ Len(s) + i \in 1..(Len(s) + Len(t)) /\ ~(Len(s) + i <= Len(s))
        /\ (Len(s) + i) - Len(s) = i
    BY <1>2
  <2> QED BY <2>1, <1>1, <1>2
<1>4. ASSUME NEW k \in DOMAIN (s \o t) \ DOMAIN s
      PROVE  \E i \in DOMAIN t : k = Len(s) + i /\ (s \o t)[k] = t[i]
  <2>1. k \in 1..(Len(s) + Len(t)) /\ ~(k <= Len(s))
    BY <1>2
  <2>2. k - Len(s) \in DOMAIN t /\ k = Len(s) + (k - Len(s))
    BY <2>1, <1>2
  <2>3. (s \o t)[k] = t[k - Len(s)]
    BY <2>1, <1>1
  <2> QED BY <2>2, <2>3
<1> QED BY <1>1, <1>2, <1>3, <1>4

LEMMA AppendFacts ==
  ASSUME NEW S, NEW s \in Seq(S), NEW x \in S
  PROVE  /\ Append(s, x) \in Seq(S)
         /\ DOMAIN Append(s, x) = DOMAIN s \cup {Len(s) + 1}
         /\ Append(s, x)[Len(s) + 1] = x
         /\ \A i \in DOMAIN s : i # Len(s) + 1 /\ Append(s, x)[i] = s[i]
<1>1. Len(s) \in Nat /\ DOMAIN s = 1..Len(s)
  OBVIOUS
<1>2. /\ Append(s, x) \in Seq(S) /\ Len(Append(s, x)) = Len(s) + 1
      /\ Append(s, x)[Len(s) + 1] = x
      /\ \A i \in 1..Len(s) : Append(s, x)[i] = s[i]
  BY AppendProperties
<1>3. DOMAIN Append(s, x) = 1..(Len(s) + 1)
  BY <1>2
<1> QED BY <1>1, <1>2, <1>3

(* A table whose rows are rewritten keeps its length. *)
LEMMA Rewritten ==
  ASSUME NEW S, NEW s \in Seq(S), NEW t, t = [i \in DOMAIN s |-> t[i]],
         \A i \in DOMAIN s : t[i] \in S
  PROVE  t \in Seq(S) /\ DOMAIN t = DOMAIN s
<1>1. DOMAIN s = 1..Len(s) /\ Len(s) \in Nat
  OBVIOUS
<1>2. t \in [1..Len(s) -> S]
  BY <1>1
<1> QED BY <1>1, <1>2, SeqDef

(* A sequence made from another, row by row. *)
LEMMA MadeFrom ==
  ASSUME NEW R, NEW s \in Seq(R), NEW S, NEW t, t = [i \in DOMAIN s |-> t[i]],
         \A i \in DOMAIN s : t[i] \in S
  PROVE  t \in Seq(S) /\ DOMAIN t = DOMAIN s
<1>1. DOMAIN s = 1..Len(s) /\ Len(s) \in Nat
  OBVIOUS
<1>2. t \in [1..Len(s) -> S]
  BY <1>1
<1> QED BY <1>1, <1>2, SeqDef

(* A row of a sequence made from the first n numbers. *)
LEMMA MadeSeq ==
  ASSUME NEW S, NEW n \in Nat, NEW t \in [1..n -> S]
  PROVE  t \in Seq(S) /\ Len(t) = n
<1>1. t \in Seq(S)
  BY SeqDef
<1> QED BY <1>1

(* The keys of a query in order: finite, so a sequence of all of them.     *)
LEMMA InOrderFacts ==
  ASSUME NEW S, IsFiniteSet(S), NEW s \in InOrder(S)
  PROVE  /\ s \in Seq(S)
         /\ \A x \in S : \E i \in DOMAIN s : s[i] = x
<1>1. Cardinality(S) \in Nat
  BY FS_CardinalityType
<1> QED BY <1>1, MadeSeq DEF InOrder

LEMMA PosOfFacts ==
  ASSUME NEW s, NEW x, \E i \in DOMAIN s : s[i] = x
  PROVE  PosOf(s, x) \in DOMAIN s /\ s[PosOf(s, x)] = x
BY DEF PosOf

LEMMA PartFinite ==
  ASSUME NEW S, NEW s \in Seq(S), NEW T \in SUBSET DOMAIN s
  PROVE  IsFiniteSet(T)
<1>1. IsFiniteSet(1..Len(s))
  BY FS_Interval
<1> QED BY <1>1, SeqFacts, FS_Subset

----------------------------------------------------------------------------
(* Requests in flight and rows. *)

LEMMA IdleTyped ==
  Idle \in Request /\ Idle.op = "idle"
BY DEF Idle, Request

LEMMA RequestFields ==
  ASSUME NEW w \in Request
  PROVE  /\ w.op = "create" => w.callgent \in Pk
         /\ w.op = "import" => w.entry \in Pk
         /\ w.op = "edit" => w.callgent \in Nat /\ w.entry \in Nat
         /\ w.op = "secure" =>
              w.table \in {"entry", "endpoint"} /\ w.pk \in Pk /\ w.secs \in Securities
         /\ w.op = "realm" => w.callgent \in Pk /\ w.old \in RealmRow
         /\ w.op = "copy" =>
              w.from \in Pk /\ w.to \in Tenants /\ w.ens \in Seq(Pk \X EntryRow)
         /\ w.op = "copyRealms" =>
              /\ w.from \in Pk /\ w.to \in Tenants /\ w.ens \in Seq(Pk \X EntryRow)
              /\ w.pks \in Seq(Pk) /\ w.rows \in Seq(RealmRow)
BY DEF Request, Idle

LEMMA NewRows ==
  ASSUME NEW c \in Pk, NEW t \in Tenants
  PROVE  /\ \A type \in EntryType, secs \in Securities :
              NewEntry(c, t, type, secs) \in EntryRow
         /\ \A e \in Pk, secs \in Securities : NewEndpoint(c, e, t, secs) \in EndpointRow
         /\ \A k \in Keys : ConstructRealm(c, t, k) \in RealmRow
BY DEF NewEntry, NewEndpoint, ConstructRealm, EntryRow, EndpointRow, RealmRow, Pk

(* The tables row by row. *)
EntryOK(e) ==
  /\ entries[e].callgent \in DOMAIN callgents
  /\ entries[e].tenant = callgents[entries[e].callgent].tenant
  /\ Refers(entries[e].secs, entries[e].callgent)
EndpointOK(p) ==
  /\ endpoints[p].callgent # 0 =>
       /\ endpoints[p].callgent \in DOMAIN callgents
       /\ endpoints[p].tenant = callgents[endpoints[p].callgent].tenant
  /\ endpoints[p].entry # 0 =>
       /\ endpoints[p].entry \in DOMAIN entries
       /\ endpoints[p].tenant = entries[endpoints[p].entry].tenant
  /\ ~endpoints[p].edited =>
       /\ endpoints[p].entry # 0
       /\ endpoints[p].callgent = entries[endpoints[p].entry].callgent
       /\ Refers(endpoints[p].secs, endpoints[p].callgent)
RealmOK(r) ==
  /\ realms[r].callgent \in DOMAIN callgents
  /\ realms[r].tenant = callgents[realms[r].callgent].tenant
RowsOK ==
  /\ \A e \in DOMAIN entries : EntryOK(e)
  /\ \A p \in DOMAIN endpoints : EndpointOK(p)
  /\ \A r \in DOMAIN realms : RealmOK(r)

LEMMA ByRow == IInv <=> TypeOK /\ RowsOK /\ \A a \in Admins : RequestOK(a)
BY DEF IInv, SecuritiesStayInCallgent, TreeInOneTenant, RowsOK, EntryOK, EndpointOK, RealmOK

(* Rows are only added, and stay where they are, unless edited.            *)
Grows ==
  /\ \A c \in DOMAIN callgents :
       c \in DOMAIN callgents' /\ callgents'[c].tenant = callgents[c].tenant
  /\ \A e \in DOMAIN entries :
       /\ e \in DOMAIN entries'
       /\ entries'[e].callgent = entries[e].callgent
       /\ entries'[e].tenant = entries[e].tenant
  /\ \A p \in DOMAIN endpoints :
       /\ p \in DOMAIN endpoints'
       /\ endpoints'[p].tenant = endpoints[p].tenant
       /\ ~endpoints'[p].edited => /\ ~endpoints[p].edited
                                  /\ endpoints'[p].callgent = endpoints[p].callgent
  /\ \A r \in DOMAIN realms :
       /\ r \in DOMAIN realms'
       /\ realms'[r].callgent = realms[r].callgent
       /\ realms'[r].tenant = realms[r].tenant

(* A row that was there refers to nothing more, and to nothing that the    *)
(* step deletes.                                                           *)
EntryKept(e) ==
  /\ e \in DOMAIN entries
  /\ \A r \in UNION entries'[e].secs :
       r \in UNION entries[e].secs /\ (realms[r].live => realms'[r].live)
  /\ entries'[e].live =>
       /\ entries[e].live
       /\ LET c == entries[e].callgent IN callgents[c].live => callgents'[c].live
EndpointKept(p) ==
  /\ p \in DOMAIN endpoints
  /\ endpoints'[p].callgent = endpoints[p].callgent
  /\ endpoints'[p].entry = endpoints[p].entry
  /\ endpoints'[p].edited = endpoints[p].edited
  /\ ~endpoints[p].edited =>
       \A r \in UNION endpoints'[p].secs :
         r \in UNION endpoints[p].secs /\ (realms[r].live => realms'[r].live)
  /\ endpoints'[p].live =>
       /\ endpoints[p].live
       /\ ~endpoints[p].edited =>
            LET e == endpoints[p].entry IN entries[e].live => entries'[e].live
       /\ endpoints[p].callgent # 0 =>
            LET c == endpoints[p].callgent IN callgents[c].live => callgents'[c].live

EntryByRace(e) ==
  \A y \in LostByEntry(e)' :
    y \in HeldByAny \/ (e \in DOMAIN entries /\ y \in LostByEntry(e))
EndpointByRace(p) ==
  \A y \in LostByEndpoint(p)' :
    y \in HeldByAny \/ (p \in DOMAIN endpoints /\ y \in LostByEndpoint(p))

LEMMA RefersKept ==
  ASSUME Grows, NEW secs, NEW more, NEW c, Refers(more, c), UNION secs \subseteq UNION more
  PROVE  \A r \in UNION secs : r \in DOMAIN realms' /\ realms'[r].callgent = c
BY DEF Grows, Refers

LEMMA EntryKeptOK ==
  ASSUME Grows, NEW e, EntryKept(e), EntryOK(e)
  PROVE  EntryOK(e)' /\ EntryByRace(e)
<1>1. /\ entries'[e].callgent = entries[e].callgent
      /\ entries'[e].tenant = entries[e].tenant
      /\ entries[e].callgent \in DOMAIN callgents'
      /\ callgents'[entries[e].callgent].tenant = callgents[entries[e].callgent].tenant
  BY DEF Grows, EntryKept, EntryOK
<1>2. Refers(entries[e].secs, entries[e].callgent)'
  <2>1. \A r \in UNION entries'[e].secs :
          r \in DOMAIN realms' /\ realms'[r].callgent = entries[e].callgent
    BY RefersKept DEF EntryKept, EntryOK
  <2> QED BY <2>1, <1>1 DEF Refers
<1>3. ASSUME NEW y \in LostByEntry(e)'
      PROVE  y \in LostByEntry(e)
  <2>1. CASE y \in GoneRealms(entries[e].secs)'
    <3>1. PICK r \in UNION entries'[e].secs : y = <<"realm", r>> /\ ~realms'[r].live
      BY <2>1 DEF GoneRealms
    <3>2. r \in UNION entries[e].secs /\ ~realms[r].live
      BY <3>1 DEF EntryKept
    <3> QED BY <3>1, <3>2 DEF LostByEntry, GoneRealms
  <2>2. CASE y \notin GoneRealms(entries[e].secs)'
    <3>1. /\ entries'[e].live /\ ~callgents'[entries'[e].callgent].live
          /\ y = <<"callgent", entries'[e].callgent>>
      BY <2>2 DEF LostByEntry
    <3>2. entries[e].live /\ ~callgents[entries[e].callgent].live
      BY <3>1, <1>1 DEF EntryKept
    <3> QED BY <3>1, <3>2, <1>1 DEF LostByEntry
  <2> QED BY <2>1, <2>2
<1> QED BY <1>1, <1>2, <1>3 DEF EntryOK, EntryByRace, EntryKept

LEMMA EndpointKeptOK ==
  ASSUME Grows, NEW p, EndpointKept(p), EndpointOK(p)
  PROVE  EndpointOK(p)' /\ EndpointByRace(p)
<1> DEFINE c == endpoints[p].callgent
           e == endpoints[p].entry
<1>1. /\ endpoints'[p].callgent = c /\ endpoints'[p].entry = e
      /\ endpoints'[p].tenant = endpoints[p].tenant
      /\ endpoints'[p].edited = endpoints[p].edited
  BY DEF Grows, EndpointKept
<1>2. c # 0 => c \in DOMAIN callgents' /\ endpoints[p].tenant = callgents'[c].tenant
  BY DEF Grows, EndpointOK
<1>3. e # 0 => e \in DOMAIN entries' /\ endpoints[p].tenant = entries'[e].tenant
  BY DEF Grows, EndpointOK
<1>4. ~endpoints[p].edited => /\ e # 0 /\ c = entries'[e].callgent
                              /\ Refers(endpoints[p].secs, c)'
  <2> SUFFICES ASSUME ~endpoints[p].edited
               PROVE  e # 0 /\ c = entries'[e].callgent /\ Refers(endpoints[p].secs, c)'
    OBVIOUS
  <2>1. e # 0 /\ e \in DOMAIN entries /\ c = entries[e].callgent
    BY DEF EndpointOK
  <2>2. c = entries'[e].callgent
    BY <2>1 DEF Grows
  <2>3. \A r \in UNION endpoints'[p].secs : r \in DOMAIN realms' /\ realms'[r].callgent = c
    BY RefersKept DEF EndpointKept, EndpointOK
  <2> QED BY <2>1, <2>2, <2>3, <1>1 DEF Refers
<1>5. EndpointOK(p)'
  BY <1>1, <1>2, <1>3, <1>4 DEF EndpointOK
<1>6. ASSUME NEW y \in LostByEndpoint(p)'
      PROVE  y \in LostByEndpoint(p)
  <2>1. CASE /\ ~endpoints[p].edited
             /\ y \in GoneRealms(endpoints[p].secs)'
    <3>1. PICK r \in UNION endpoints'[p].secs : y = <<"realm", r>> /\ ~realms'[r].live
      BY <2>1 DEF GoneRealms
    <3>2. r \in UNION endpoints[p].secs /\ ~realms[r].live
      BY <3>1, <2>1 DEF EndpointKept
    <3> QED BY <2>1, <3>1, <3>2 DEF LostByEndpoint, GoneRealms
  <2>2. CASE /\ ~endpoints[p].edited /\ endpoints'[p].live /\ ~entries'[e].live
             /\ y = <<"entry", e>>
    BY <2>2 DEF LostByEndpoint, EndpointKept
  <2>3. CASE /\ endpoints'[p].live /\ c # 0 /\ ~callgents'[c].live
             /\ y = <<"callgent", c>>
    BY <2>3 DEF LostByEndpoint, EndpointKept
  <2> QED BY <2>1, <2>2, <2>3, <1>1 DEF LostByEndpoint
<1>7. EndpointByRace(p)
  BY <1>6 DEF EndpointByRace, EndpointKept
<1> QED BY <1>5, <1>7

(* What a request in flight has read stays true of the rows. *)
LEMMA RequestKept ==
  ASSUME Grows, NEW b, work'[b] = work[b], RequestOK(b)
  PROVE  RequestOK(b)'
<1>1. ASSUME NEW secs, NEW c, Refers(secs, c)
      PROVE  \A r \in UNION secs : r \in DOMAIN realms' /\ realms'[r].callgent = c
  BY <1>1 DEF Grows, Refers
<1>2. work[b].op = "secure" /\ work[b].table = "entry" =>
        work[b].pk \in DOMAIN entries' /\ Refers(work[b].secs, entries[work[b].pk].callgent)'
  <2>1. SUFFICES ASSUME work[b].op = "secure", work[b].table = "entry"
                 PROVE  /\ work[b].pk \in DOMAIN entries'
                        /\ Refers(work[b].secs, entries[work[b].pk].callgent)'
    OBVIOUS
  <2>2. work[b].pk \in DOMAIN entries /\ Refers(work[b].secs, entries[work[b].pk].callgent)
    BY <2>1 DEF RequestOK
  <2>3. /\ work[b].pk \in DOMAIN entries'
        /\ entries'[work[b].pk].callgent = entries[work[b].pk].callgent
    BY <2>2 DEF Grows
  <2>4. \A r \in UNION work[b].secs :
          r \in DOMAIN realms' /\ realms'[r].callgent = entries[work[b].pk].callgent
    BY <2>2, <1>1
  <2> QED BY <2>3, <2>4 DEF Refers
<1>3. work[b].op = "secure" /\ work[b].table = "endpoint" =>
        /\ work[b].pk \in DOMAIN endpoints'
        /\ ~endpoints'[work[b].pk].edited =>
             Refers(work[b].secs, endpoints[work[b].pk].callgent)'
  <2>1. SUFFICES ASSUME work[b].op = "secure", work[b].table = "endpoint"
                 PROVE  /\ work[b].pk \in DOMAIN endpoints'
                        /\ ~endpoints'[work[b].pk].edited =>
                             Refers(work[b].secs, endpoints[work[b].pk].callgent)'
    OBVIOUS
  <2>2. /\ work[b].pk \in DOMAIN endpoints
        /\ ~endpoints[work[b].pk].edited =>
             Refers(work[b].secs, endpoints[work[b].pk].callgent)
    BY <2>1 DEF RequestOK
  <2>3. /\ work[b].pk \in DOMAIN endpoints'
        /\ ~endpoints'[work[b].pk].edited =>
             /\ ~endpoints[work[b].pk].edited
             /\ endpoints'[work[b].pk].callgent = endpoints[work[b].pk].callgent
    BY <2>2 DEF Grows
  <2>4. ~endpoints[work[b].pk].edited =>
          \A r \in UNION work[b].secs :
            r \in DOMAIN realms' /\ realms'[r].callgent = endpoints[work[b].pk].callgent
    BY <2>2, <1>1
  <2> QED BY <2>3, <2>4 DEF Refers
<1>4. /\ work[b].op = "create" =>
           /\ work[b].callgent \in DOMAIN callgents'
           /\ callgents'[work[b].callgent].tenant = TenantOf[b]
      /\ work[b].op = "import" =>
           /\ work[b].entry \in DOMAIN entries'
           /\ entries'[work[b].entry].tenant = TenantOf[b]
      /\ work[b].op = "edit" =>
           /\ work[b].callgent # 0 =>
                /\ work[b].callgent \in DOMAIN callgents'
                /\ callgents'[work[b].callgent].tenant = TenantOf[b]
           /\ work[b].entry # 0 =>
                /\ work[b].entry \in DOMAIN entries'
                /\ entries'[work[b].entry].tenant = TenantOf[b]
      /\ work[b].op = "realm" =>
           /\ work[b].old.callgent \in DOMAIN callgents'
           /\ work[b].old.tenant = callgents'[work[b].old.callgent].tenant
      /\ work[b].op = "copyRealms" => DOMAIN work[b].rows = DOMAIN work[b].pks
  BY DEF RequestOK, Grows
<1> QED BY <1>2, <1>3, <1>4 DEF RequestOK

(* A step of request a is safe when what it leaves of old rows is kept and *)
(* what it adds or rewrites is in place.                                   *)
LEMMA Preserved ==
  ASSUME IInv, TypeOK', Grows, NEW a \in Admins,
         \A b \in Admins : b # a => work'[b] = work[b],
         RequestOK(a)',
         \A e \in DOMAIN entries' : EntryKept(e) \/ (EntryOK(e)' /\ EntryByRace(e)),
         \A p \in DOMAIN endpoints' : EndpointKept(p) \/ (EndpointOK(p)' /\ EndpointByRace(p)),
         \A r \in DOMAIN realms' : r \in DOMAIN realms \/ RealmOK(r)'
  PROVE  IInv' /\ OnlyByRace
<1>1. RowsOK /\ \A b \in Admins : RequestOK(b)
  BY ByRow
<1>2. \A e \in DOMAIN entries' : EntryOK(e)' /\ EntryByRace(e)
  BY <1>1, EntryKeptOK DEF RowsOK, EntryKept
<1>3. \A p \in DOMAIN endpoints' : EndpointOK(p)' /\ EndpointByRace(p)
  BY <1>1, EndpointKeptOK DEF RowsOK, EndpointKept
<1>4. \A r \in DOMAIN realms' : RealmOK(r)'
  <2>1. \A r \in DOMAIN realms : RealmOK(r)'
    BY <1>1 DEF RowsOK, RealmOK, Grows
  <2> QED BY <2>1
<1>5. \A b \in Admins : RequestOK(b)'
  BY <1>1, RequestKept
<1>6. RowsOK'
  BY <1>2, <1>3, <1>4 DEF RowsOK
<1>7. IInv'
  <2>1. SecuritiesStayInCallgent' /\ TreeInOneTenant'
    BY <1>6 DEF SecuritiesStayInCallgent, TreeInOneTenant, RowsOK, EntryOK, EndpointOK, RealmOK
  <2> QED BY <2>1, <1>5 DEF IInv
<1> QED BY <1>7, <1>2, <1>3 DEF OnlyByRace, EntryByRace, EndpointByRace

(* Steps that only add rows. *)
AddsTo(s, t) == \A i \in DOMAIN s : i \in DOMAIN t /\ t[i] = s[i]

(* Rows t are added to s, which makes u. *)
AddsRows(s, t, u) ==
  /\ AddsTo(s, u)
  /\ \A i \in DOMAIN t : Len(s) + i \in DOMAIN u /\ u[Len(s) + i] = t[i]
  /\ \A k \in DOMAIN u : k \in DOMAIN s \/ \E i \in DOMAIN t : u[k] = t[i]

LEMMA CatAdds ==
  ASSUME NEW S, NEW s \in Seq(S), NEW t \in Seq(S)
  PROVE  s \o t \in Seq(S) /\ AddsRows(s, t, s \o t)
<1>1. DOMAIN s \subseteq DOMAIN (s \o t) /\ s \o t \in Seq(S)
  BY CatFacts
<1>2. \A i \in DOMAIN s : (s \o t)[i] = s[i]
  BY CatFacts
<1>3. \A i \in DOMAIN t : Len(s) + i \in DOMAIN (s \o t) /\ (s \o t)[Len(s) + i] = t[i]
  BY CatFacts
<1>4. \A k \in DOMAIN (s \o t) \ DOMAIN s : \E i \in DOMAIN t : (s \o t)[k] = t[i]
  BY CatFacts
<1> QED BY <1>1, <1>2, <1>3, <1>4 DEF AddsTo, AddsRows

LEMMA AddedRows ==
  ASSUME IInv,
         AddsTo(callgents, callgents'), AddsTo(entries, entries'),
         AddsTo(endpoints, endpoints'), AddsTo(realms, realms')
  PROVE  /\ Grows
         /\ \A e \in DOMAIN entries : EntryKept(e)
         /\ \A p \in DOMAIN endpoints : EndpointKept(p)
<1>1. RowsOK
  BY ByRow
<1>2. Grows
  BY DEF Grows, AddsTo
<1>3. ASSUME NEW e \in DOMAIN entries
      PROVE  EntryKept(e)
  <2>1. entries'[e] = entries[e]
    BY DEF AddsTo
  <2>2. \A r \in UNION entries[e].secs : r \in DOMAIN realms
    BY <1>1 DEF RowsOK, EntryOK, Refers
  <2>3. entries[e].callgent \in DOMAIN callgents
    BY <1>1 DEF RowsOK, EntryOK
  <2> QED BY <2>1, <2>2, <2>3 DEF AddsTo, EntryKept
<1>4. ASSUME NEW p \in DOMAIN endpoints
      PROVE  EndpointKept(p)
  <2>1. endpoints'[p] = endpoints[p]
    BY DEF AddsTo
  <2>2. ~endpoints[p].edited => \A r \in UNION endpoints[p].secs : r \in DOMAIN realms
    BY <1>1 DEF RowsOK, EndpointOK, Refers
  <2>3. /\ ~endpoints[p].edited => endpoints[p].entry \in DOMAIN entries
        /\ endpoints[p].callgent # 0 => endpoints[p].callgent \in DOMAIN callgents
    BY <1>1 DEF RowsOK, EndpointOK
  <2> QED BY <2>1, <2>2, <2>3 DEF AddsTo, EndpointKept
<1> QED BY <1>2, <1>3, <1>4

LEMMA WorkSet ==
  ASSUME TypeOK, NEW a \in Admins, NEW w \in Request, work' = [work EXCEPT ![a] = w]
  PROVE  /\ work' \in [Admins -> Request]
         /\ work'[a] = w
         /\ \A b \in Admins : b # a => work'[b] = work[b]
BY DEF TypeOK

LEMMA WorkDone ==
  ASSUME TypeOK, NEW a \in Admins, Finish(a)
  PROVE  /\ work' \in [Admins -> Request]
         /\ RequestOK(a)'
         /\ \A b \in Admins : b # a => work'[b] = work[b]
<1>1. work' = [work EXCEPT ![a] = Idle]
  BY DEF Finish
<1>2. work'[a].op = "idle" /\ work' \in [Admins -> Request]
  BY <1>1, WorkSet, IdleTyped
<1>3. RequestOK(a)'
  BY <1>2 DEF RequestOK
<1> QED BY <1>1, <1>2, <1>3, WorkSet, IdleTyped

(* A request that begins and ends in one step has not been idle before.    *)
LEMMA WorkIdle ==
  ASSUME TypeOK, NEW a \in Admins, Begin(a), UNCHANGED work
  PROVE  /\ work' \in [Admins -> Request]
         /\ RequestOK(a)'
         /\ \A b \in Admins : b # a => work'[b] = work[b]
<1>1. work'[a].op = "idle"
  BY IdleTyped DEF Begin
<1>2. RequestOK(a)'
  BY <1>1 DEF RequestOK
<1> QED BY <1>2 DEF TypeOK

LEMMA BeginCounts ==
  ASSUME TypeOK, NEW a \in Admins, Begin(a)
  PROVE  requests' \in 0..MaxRequests
BY TreeAssumption DEF Begin, TypeOK

(* Steps that read and write nothing but the request itself. *)
LEMMA OnlyRequest ==
  ASSUME IInv, NEW a \in Admins, NEW w \in Request,
         work' = [work EXCEPT ![a] = w], RequestOK(a)',
         requests' \in 0..MaxRequests,
         UNCHANGED <<callgents, entries, endpoints, realms>>
  PROVE  IInv' /\ OnlyByRace
<1>1. TypeOK
  BY DEF IInv
<1>2. TypeOK'
  BY <1>1, WorkSet DEF TypeOK
<1>3. /\ Grows
      /\ \A e \in DOMAIN entries' : EntryKept(e)
      /\ \A p \in DOMAIN endpoints' : EndpointKept(p)
  BY AddedRows DEF AddsTo
<1>4. \A b \in Admins : b # a => work'[b] = work[b]
  BY <1>1, WorkSet
<1> QED BY <1>2, <1>3, <1>4, Preserved

LEMMA FailStep ==
  ASSUME IInv, NEW a \in Admins, Fail(a)
  PROVE  IInv' /\ OnlyByRace
<1>1. /\ work' = [work EXCEPT ![a] = Idle]
      /\ UNCHANGED <<callgents, entries, endpoints, realms>>
      /\ requests' \in 0..MaxRequests
  BY DEF Fail, Finish, IInv, TypeOK
<1>2. RequestOK(a)'
  BY WorkDone DEF Fail, IInv
<1> QED BY <1>1, <1>2, OnlyRequest, IdleTyped

LEMMA CheckCallgentStep ==
  ASSUME IInv, NEW a \in Admins, NEW c \in DOMAIN callgents, CheckCallgent(a, c)
  PROVE  IInv' /\ OnlyByRace
<1> DEFINE w == [op |-> "create", callgent |-> c]
<1>1. w \in Request
  BY SeqFacts DEF IInv, TypeOK, Request
<1>2. /\ work' = [work EXCEPT ![a] = w]
      /\ UNCHANGED <<callgents, entries, endpoints, realms>>
      /\ callgents[c].tenant = TenantOf[a]
  BY DEF CheckCallgent
<1>3. requests' \in 0..MaxRequests
  BY BeginCounts DEF CheckCallgent, IInv
<1>4. work'[a] = w
  BY <1>1, <1>2, WorkSet DEF IInv
<1>5. RequestOK(a)'
  BY <1>4, <1>2 DEF RequestOK
<1> QED BY <1>1, <1>2, <1>3, <1>5, OnlyRequest

LEMMA CheckEntryStep ==
  ASSUME IInv, NEW a \in Admins, NEW e \in DOMAIN entries, CheckEntry(a, e)
  PROVE  IInv' /\ OnlyByRace
<1> DEFINE w == [op |-> "import", entry |-> e]
<1>1. w \in Request
  BY SeqFacts DEF IInv, TypeOK, Request
<1>2. /\ work' = [work EXCEPT ![a] = w]
      /\ UNCHANGED <<callgents, entries, endpoints, realms>>
      /\ entries[e].tenant = TenantOf[a]
  BY DEF CheckEntry
<1>3. requests' \in 0..MaxRequests
  BY BeginCounts DEF CheckEntry, IInv
<1>4. work'[a] = w
  BY <1>1, <1>2, WorkSet DEF IInv
<1>5. RequestOK(a)'
  BY <1>4, <1>2 DEF RequestOK
<1> QED BY <1>1, <1>2, <1>3, <1>5, OnlyRequest

LEMMA CheckEditStep ==
  ASSUME IInv, NEW a \in Admins, NEW c \in {0} \cup DOMAIN callgents,
         NEW e \in {0} \cup DOMAIN entries, CheckEdit(a, c, e)
  PROVE  IInv' /\ OnlyByRace
<1> DEFINE w == [op |-> "edit", callgent |-> c, entry |-> e]
<1>1. w \in Request
  <2>1. c \in Nat /\ e \in Nat
    BY SeqFacts DEF IInv, TypeOK, Pk
  <2> QED BY <2>1 DEF Request
<1>2. /\ work' = [work EXCEPT ![a] = w]
      /\ UNCHANGED <<callgents, entries, endpoints, realms>>
      /\ c # 0 => c \in DOMAIN callgents /\ callgents[c].tenant = TenantOf[a]
      /\ e # 0 => e \in DOMAIN entries /\ entries[e].tenant = TenantOf[a]
  BY DEF CheckEdit
<1>3. requests' \in 0..MaxRequests
  BY BeginCounts DEF CheckEdit, IInv
<1>4. work'[a] = w
  BY <1>1, <1>2, WorkSet DEF IInv
<1>5. RequestOK(a)'
  BY <1>4, <1>2 DEF RequestOK
<1> QED BY <1>1, <1>2, <1>3, <1>5, OnlyRequest

LEMMA ReadRealmStep ==
  ASSUME IInv, NEW a \in Admins, NEW r \in DOMAIN realms, ReadRealm(a, r)
  PROVE  IInv' /\ OnlyByRace
<1> DEFINE w == [op |-> "realm", callgent |-> realms[r].callgent, old |-> realms[r]]
<1>0. realms[r] \in RealmRow
  BY SeqFacts DEF IInv, TypeOK
<1>1. w \in Request
  <2>1. realms[r].callgent \in Pk
    BY <1>0 DEF RealmRow
  <2> QED BY <1>0, <2>1 DEF Request
<1>2. /\ work' = [work EXCEPT ![a] = w]
      /\ UNCHANGED <<callgents, entries, endpoints, realms>>
  BY DEF ReadRealm
<1>3. requests' \in 0..MaxRequests
  BY BeginCounts DEF ReadRealm, IInv
<1>4. work'[a] = w
  BY <1>1, <1>2, WorkSet DEF IInv
<1>5. RealmOK(r)
  BY ByRow DEF RowsOK
<1>6. RequestOK(a)'
  BY <1>4, <1>2, <1>5 DEF RequestOK, RealmOK
<1> QED BY <1>1, <1>2, <1>3, <1>6, OnlyRequest

(* The securities a request will write refer to realms of the row's callgent. *)
LEMMA ReadSecuritiesStep ==
  ASSUME IInv, NEW a \in Admins, NEW table \in {"entry", "endpoint"}, NEW pk, NEW c,
         NEW pks \in SUBSET DOMAIN realms, ReadSecurities(a, table, pk, c, pks),
         table = "entry" => pk \in DOMAIN entries /\ entries[pk].callgent = c,
         table = "endpoint" =>
           /\ pk \in DOMAIN endpoints
           /\ ~endpoints[pk].edited => endpoints[pk].callgent = c
  PROVE  IInv' /\ OnlyByRace
<1> DEFINE w == [op |-> "secure", table |-> table, pk |-> pk, secs |-> {{r} : r \in pks}]
<1>1. w \in Request
  <2>1. pk \in Pk /\ pks \subseteq Pk
    BY SeqFacts DEF IInv, TypeOK
  <2>2. {{r} : r \in pks} \in Securities
    BY <2>1 DEF Securities
  <2> QED BY <2>1, <2>2 DEF Request
<1>2. /\ work' = [work EXCEPT ![a] = w]
      /\ UNCHANGED <<callgents, entries, endpoints, realms>>
      /\ pks \subseteq RealmsOf(c)
  BY DEF ReadSecurities
<1>3. requests' \in 0..MaxRequests
  BY BeginCounts DEF ReadSecurities, IInv
<1>4. work'[a] = w
  BY <1>1, <1>2, WorkSet DEF IInv
<1>5. Refers(w.secs, c)'
  <2>1. \A r \in UNION w.secs : r \in DOMAIN realms /\ realms[r].callgent = c
    BY <1>2 DEF RealmsOf
  <2> QED BY <2>1, <1>2 DEF Refers
<1>6. RequestOK(a)'
  BY <1>4, <1>2, <1>5 DEF RequestOK
<1> QED BY <1>1, <1>2, <1>3, <1>6, OnlyRequest

LEMMA ReadEntrySecuritiesStep ==
  ASSUME IInv, NEW a \in Admins, NEW e \in DOMAIN entries,
         NEW pks \in SUBSET DOMAIN realms, ReadEntrySecurities(a, e, pks)
  PROVE  IInv' /\ OnlyByRace
BY ReadSecuritiesStep DEF ReadEntrySecurities

LEMMA ReadEndpointSecuritiesStep ==
  ASSUME IInv, NEW a \in Admins, NEW p \in DOMAIN endpoints,
         NEW pks \in SUBSET DOMAIN realms, ReadEndpointSecurities(a, p, pks)
  PROVE  IInv' /\ OnlyByRace
<1>1. ~endpoints[p].edited => endpoints[p].callgent = entries[endpoints[p].entry].callgent
  BY ByRow DEF RowsOK, EndpointOK
<1>2. ReadSecurities(a, "endpoint", p, entries[endpoints[p].entry].callgent, pks)
  BY DEF ReadEndpointSecurities
<1> QED BY <1>1, <1>2, ReadSecuritiesStep

LEMMA CopyReadStep ==
  ASSUME IInv, NEW a \in Admins, NEW c \in DOMAIN callgents, NEW to \in Tenants,
         CopyRead(a, c, to)
  PROVE  IInv' /\ OnlyByRace
<1> DEFINE E == {e \in DOMAIN entries :
                   /\ entries[e].live /\ entries[e].callgent = c
                   /\ entries[e].tenant = FromTenant(a, to)}
<1>1. PICK es \in InOrder(E) :
        work' = [work EXCEPT ![a] =
                   [op |-> "copy", from |-> c, to |-> to,
                    ens |-> [i \in DOMAIN es |-> <<es[i], entries[es[i]]>>]]]
  BY DEF CopyRead
<1> DEFINE ens == [i \in DOMAIN es |-> <<es[i], entries[es[i]]>>]
           w == [op |-> "copy", from |-> c, to |-> to, ens |-> ens]
<1>2. entries \in Seq(EntryRow) /\ callgents \in Seq(CallgentRow)
  BY DEF IInv, TypeOK
<1>3. es \in Seq(E)
  BY <1>2, PartFinite, InOrderFacts
<1>4. \A i \in DOMAIN es : es[i] \in DOMAIN entries
  BY <1>3, SeqFacts
<1>5. ens \in Seq(Pk \X EntryRow)
  <2>1. \A i \in DOMAIN es : ens[i] \in Pk \X EntryRow
    BY <1>2, <1>4, SeqFacts
  <2>2. DOMAIN es = 1..Len(es) /\ Len(es) \in Nat
    BY <1>3, SeqFacts
  <2>3. ens \in [1..Len(es) -> Pk \X EntryRow]
    BY <2>1, <2>2
  <2> QED BY <2>2, <2>3, MadeSeq
<1>6. w \in Request
  BY <1>2, <1>5, SeqFacts DEF Request
<1>7. work' = [work EXCEPT ![a] = w] /\ UNCHANGED <<callgents, entries, endpoints, realms>>
  BY <1>1 DEF CopyRead
<1>8. requests' \in 0..MaxRequests
  BY BeginCounts DEF CopyRead, IInv
<1>9. work'[a].op = "copy"
  BY <1>6, <1>7, WorkSet DEF IInv
<1>10. RequestOK(a)'
  BY <1>9 DEF RequestOK
<1> QED BY <1>6, <1>7, <1>8, <1>10, OnlyRequest

LEMMA CopyReadRealmsStep ==
  ASSUME IInv, NEW a \in Admins, CopyReadRealms(a)
  PROVE  IInv' /\ OnlyByRace
<1> DEFINE v == work[a]
           R == {r \in RealmsOf(v.from) : realms[r].tenant = FromTenant(a, v.to)}
<1>1. PICK rs \in InOrder(R) :
        work' = [work EXCEPT ![a] =
                   [op |-> "copyRealms", from |-> v.from, to |-> v.to, ens |-> v.ens,
                    pks |-> rs, rows |-> [i \in DOMAIN rs |-> realms[rs[i]]]]]
  BY DEF CopyReadRealms
<1> DEFINE rows == [i \in DOMAIN rs |-> realms[rs[i]]]
           w == [op |-> "copyRealms", from |-> v.from, to |-> v.to, ens |-> v.ens,
                 pks |-> rs, rows |-> rows]
<1>2. realms \in Seq(RealmRow) /\ v \in Request /\ v.op = "copy"
  BY DEF IInv, TypeOK, CopyReadRealms
<1>3. v.from \in Pk /\ v.to \in Tenants /\ v.ens \in Seq(Pk \X EntryRow)
  BY <1>2, RequestFields
<1>4. R \subseteq DOMAIN realms
  BY DEF RealmsOf
<1>5. rs \in Seq(R)
  BY <1>2, <1>4, PartFinite, InOrderFacts
<1>6. DOMAIN rs = 1..Len(rs) /\ Len(rs) \in Nat /\ \A i \in DOMAIN rs : rs[i] \in DOMAIN realms
  BY <1>4, <1>5, SeqFacts
<1>7. rs \in Seq(Pk) /\ rows \in Seq(RealmRow)
  <2>1. \A i \in DOMAIN rs : rs[i] \in Pk /\ realms[rs[i]] \in RealmRow
    BY <1>2, <1>6, SeqFacts
  <2>2. rows \in [1..Len(rs) -> RealmRow]
    BY <1>6, <2>1
  <2>3. rs \in Seq(Pk)
    BY <1>5, <1>6, <2>1, Rewritten
  <2> QED BY <1>6, <2>2, <2>3, MadeSeq
<1>8. w \in Request
  BY <1>3, <1>7 DEF Request
<1>9. work' = [work EXCEPT ![a] = w] /\ UNCHANGED <<callgents, entries, endpoints, realms>>
  BY <1>1 DEF CopyReadRealms
<1>10. requests' \in 0..MaxRequests
  BY DEF CopyReadRealms, IInv, TypeOK
<1>11. work'[a] = w
  BY <1>8, <1>9, WorkSet DEF IInv
<1>12. RequestOK(a)'
  BY <1>11 DEF RequestOK
<1> QED BY <1>8, <1>9, <1>10, <1>12, OnlyRequest

----------------------------------------------------------------------------
(* Rows are deleted softly, or their securities change. *)

LEMMA DeleteCallgentStep ==
  ASSUME IInv, NEW a \in Admins, NEW c \in DOMAIN callgents, DeleteCallgent(a, c)
  PROVE  IInv' /\ OnlyByRace
<1>1. /\ callgents \in Seq(CallgentRow) /\ entries \in Seq(EntryRow)
      /\ endpoints \in Seq(EndpointRow) /\ RowsOK
  BY ByRow DEF TypeOK
<1>2. /\ DOMAIN callgents' = DOMAIN callgents
      /\ callgents' \in Seq(CallgentRow)
      /\ \A d \in DOMAIN callgents : /\ callgents'[d].tenant = callgents[d].tenant
                                     /\ d # c => callgents'[d] = callgents[d]
  <2>1. callgents' = [d \in DOMAIN callgents |-> callgents'[d]]
    BY DEF DeleteCallgent
  <2>2. /\ callgents'[c] = [callgents[c] EXCEPT !.live = FALSE]
        /\ \A d \in DOMAIN callgents : d # c => callgents'[d] = callgents[d]
    BY DEF DeleteCallgent
  <2>3. \A d \in DOMAIN callgents : callgents[d] \in CallgentRow
    BY <1>1, SeqFacts
  <2>4. callgents'[c] \in CallgentRow /\ callgents'[c].tenant = callgents[c].tenant
    BY <2>2, <2>3 DEF CallgentRow
  <2>5. \A d \in DOMAIN callgents : callgents'[d] \in CallgentRow
    BY <2>2, <2>3, <2>4
  <2> QED BY <1>1, <2>1, <2>2, <2>4, <2>5, Rewritten
<1>3. /\ entries' \in Seq(EntryRow) /\ DOMAIN entries' = DOMAIN entries
      /\ \A e \in DOMAIN entries :
           /\ entries'[e].callgent = entries[e].callgent
           /\ entries'[e].tenant = entries[e].tenant
           /\ entries'[e].secs = entries[e].secs
           /\ entries'[e].live = (entries[e].live /\ entries[e].callgent # c)
  <2>1. entries' = [e \in DOMAIN entries |-> entries'[e]]
    BY DEF DeleteCallgent
  <2>2. ASSUME NEW e \in DOMAIN entries
        PROVE  /\ entries'[e] \in EntryRow
               /\ entries'[e].callgent = entries[e].callgent
               /\ entries'[e].tenant = entries[e].tenant
               /\ entries'[e].secs = entries[e].secs
               /\ entries'[e].live = (entries[e].live /\ entries[e].callgent # c)
    <3>1. entries[e] \in EntryRow
      BY <1>1, SeqFacts
    <3>2. entries'[e] = [entries[e] EXCEPT !.live = entries[e].live /\ entries[e].callgent # c]
      BY DEF DeleteCallgent
    <3> QED BY <3>1, <3>2 DEF EntryRow
  <2> QED BY <1>1, <2>1, <2>2, Rewritten
<1>4. /\ endpoints' \in Seq(EndpointRow) /\ DOMAIN endpoints' = DOMAIN endpoints
      /\ \A p \in DOMAIN endpoints :
           /\ endpoints'[p].callgent = endpoints[p].callgent
           /\ endpoints'[p].entry = endpoints[p].entry
           /\ endpoints'[p].tenant = endpoints[p].tenant
           /\ endpoints'[p].edited = endpoints[p].edited
           /\ endpoints'[p].secs = endpoints[p].secs
           /\ endpoints'[p].live = (endpoints[p].live /\ endpoints[p].callgent # c)
  <2>1. endpoints' = [p \in DOMAIN endpoints |-> endpoints'[p]]
    BY DEF DeleteCallgent
  <2>2. ASSUME NEW p \in DOMAIN endpoints
        PROVE  /\ endpoints'[p] \in EndpointRow
               /\ endpoints'[p].callgent = endpoints[p].callgent
               /\ endpoints'[p].entry = endpoints[p].entry
               /\ endpoints'[p].tenant = endpoints[p].tenant
               /\ endpoints'[p].edited = endpoints[p].edited
               /\ endpoints'[p].secs = endpoints[p].secs
               /\ endpoints'[p].live = (endpoints[p].live /\ endpoints[p].callgent # c)
    <3>1. endpoints[p] \in EndpointRow
      BY <1>1, SeqFacts
    <3>2. endpoints'[p] =
            [endpoints[p] EXCEPT !.live = endpoints[p].live /\ endpoints[p].callgent # c]
      BY DEF DeleteCallgent
    <3> QED BY <3>1, <3>2 DEF EndpointRow
  <2> QED BY <1>1, <2>1, <2>2, Rewritten
<1>5. realms' = realms
  BY DEF DeleteCallgent
<1>6. /\ RequestOK(a)' /\ work' \in [Admins -> Request]
      /\ \A b \in Admins : b # a => work'[b] = work[b]
  BY WorkIdle DEF DeleteCallgent, IInv
<1>7. TypeOK'
  BY <1>2, <1>3, <1>4, <1>5, <1>6, BeginCounts DEF TypeOK, DeleteCallgent, IInv
<1>8. Grows
  BY <1>2, <1>3, <1>4, <1>5 DEF Grows
<1>9. ASSUME NEW e \in DOMAIN entries'
      PROVE  EntryKept(e)
  <2>1. entries[e].callgent \in DOMAIN callgents
    BY <1>1, <1>3 DEF RowsOK, EntryOK
  <2> QED BY <2>1, <1>2, <1>3, <1>5 DEF EntryKept
<1>10. ASSUME NEW p \in DOMAIN endpoints'
       PROVE  EndpointKept(p)
  <2>1. /\ ~endpoints[p].edited =>
             /\ endpoints[p].entry \in DOMAIN entries
             /\ endpoints[p].callgent = entries[endpoints[p].entry].callgent
        /\ endpoints[p].callgent # 0 => endpoints[p].callgent \in DOMAIN callgents
    BY <1>1, <1>4 DEF RowsOK, EndpointOK
  <2>2. /\ endpoints'[p].secs = endpoints[p].secs
        /\ endpoints'[p].live => endpoints[p].live /\ endpoints[p].callgent # c
    BY <1>4
  <2>3. endpoints'[p].live =>
          /\ ~endpoints[p].edited =>
               (entries[endpoints[p].entry].live => entries'[endpoints[p].entry].live)
          /\ endpoints[p].callgent # 0 =>
               callgents'[endpoints[p].callgent] = callgents[endpoints[p].callgent]
    BY <2>1, <2>2, <1>2, <1>3
  <2> QED BY <2>2, <2>3, <1>4, <1>5 DEF EndpointKept
<1> QED BY <1>5, <1>6, <1>7, <1>8, <1>9, <1>10, Preserved

LEMMA DeleteEntryStep ==
  ASSUME IInv, NEW a \in Admins, NEW d \in DOMAIN entries, DeleteEntry(a, d)
  PROVE  IInv' /\ OnlyByRace
<1>1. /\ entries \in Seq(EntryRow) /\ endpoints \in Seq(EndpointRow) /\ RowsOK
  BY ByRow DEF TypeOK
<1>2. callgents' = callgents /\ realms' = realms
  BY DEF DeleteEntry
<1>3. /\ entries' \in Seq(EntryRow) /\ DOMAIN entries' = DOMAIN entries
      /\ \A e \in DOMAIN entries :
           /\ entries'[e].callgent = entries[e].callgent
           /\ entries'[e].tenant = entries[e].tenant
           /\ entries'[e].secs = entries[e].secs
           /\ entries'[e].live => entries[e].live
           /\ e # d => entries'[e] = entries[e]
  <2>1. entries' = [e \in DOMAIN entries |-> entries'[e]]
    BY DEF DeleteEntry
  <2>2. /\ entries'[d] = [entries[d] EXCEPT !.live = FALSE]
        /\ \A e \in DOMAIN entries : e # d => entries'[e] = entries[e]
    BY DEF DeleteEntry
  <2>3. \A e \in DOMAIN entries : entries[e] \in EntryRow
    BY <1>1, SeqFacts
  <2>4. /\ entries'[d] \in EntryRow
        /\ entries'[d].callgent = entries[d].callgent
        /\ entries'[d].tenant = entries[d].tenant
        /\ entries'[d].secs = entries[d].secs
        /\ entries'[d].live = FALSE
    BY <2>2, <2>3 DEF EntryRow
  <2>5. \A e \in DOMAIN entries : entries'[e] \in EntryRow
    BY <2>2, <2>3, <2>4
  <2> QED BY <1>1, <2>1, <2>2, <2>4, <2>5, Rewritten
<1>4. /\ endpoints' \in Seq(EndpointRow) /\ DOMAIN endpoints' = DOMAIN endpoints
      /\ \A p \in DOMAIN endpoints :
           /\ endpoints'[p].callgent = endpoints[p].callgent
           /\ endpoints'[p].entry = endpoints[p].entry
           /\ endpoints'[p].tenant = endpoints[p].tenant
           /\ endpoints'[p].edited = endpoints[p].edited
           /\ endpoints'[p].secs = endpoints[p].secs
           /\ endpoints'[p].live = (endpoints[p].live /\ endpoints[p].entry # d)
  <2>1. endpoints' = [p \in DOMAIN endpoints |-> endpoints'[p]]
    BY DEF DeleteEntry
  <2>2. ASSUME NEW p \in DOMAIN endpoints
        PROVE  /\ endpoints'[p] \in EndpointRow
               /\ endpoints'[p].callgent = endpoints[p].callgent
               /\ endpoints'[p].entry = endpoints[p].entry
               /\ endpoints'[p].tenant = endpoints[p].tenant
               /\ endpoints'[p].edited = endpoints[p].edited
               /\ endpoints'[p].secs = endpoints[p].secs
               /\ endpoints'[p].live = (endpoints[p].live /\ endpoints[p].entry # d)
    <3>1. endpoints[p] \in EndpointRow
      BY <1>1, SeqFacts
    <3>2. endpoints'[p] =
            [endpoints[p] EXCEPT !.live = endpoints[p].live /\ endpoints[p].entry # d]
      BY DEF DeleteEntry
    <3> QED BY <3>1, <3>2 DEF EndpointRow
  <2> QED BY <1>1, <2>1, <2>2, Rewritten
<1>5. /\ RequestOK(a)' /\ work' \in [Admins -> Request]
      /\ \A b \in Admins : b # a => work'[b] = work[b]
  BY WorkIdle DEF DeleteEntry, IInv
<1>6. TypeOK'
  BY <1>2, <1>3, <1>4, <1>5, BeginCounts DEF TypeOK, DeleteEntry, IInv
<1>7. Grows
  BY <1>2, <1>3, <1>4 DEF Grows
<1>8. \A e \in DOMAIN entries' : EntryKept(e)
  BY <1>2, <1>3 DEF EntryKept
<1>9. ASSUME NEW p \in DOMAIN endpoints'
      PROVE  EndpointKept(p)
  <2>1. ~endpoints[p].edited => endpoints[p].entry \in DOMAIN entries
    BY <1>1, <1>4 DEF RowsOK, EndpointOK
  <2> QED BY <2>1, <1>2, <1>3, <1>4 DEF EndpointKept
<1> QED BY <1>2, <1>5, <1>6, <1>7, <1>8, <1>9, Preserved

LEMMA DeleteEndpointStep ==
  ASSUME IInv, NEW a \in Admins, NEW d \in DOMAIN endpoints, DeleteEndpoint(a, d)
  PROVE  IInv' /\ OnlyByRace
<1>1. endpoints \in Seq(EndpointRow)
  BY DEF IInv, TypeOK
<1>2. callgents' = callgents /\ realms' = realms /\ entries' = entries
  BY DEF DeleteEndpoint
<1>3. /\ endpoints' \in Seq(EndpointRow) /\ DOMAIN endpoints' = DOMAIN endpoints
      /\ \A p \in DOMAIN endpoints :
           /\ endpoints'[p].callgent = endpoints[p].callgent
           /\ endpoints'[p].entry = endpoints[p].entry
           /\ endpoints'[p].tenant = endpoints[p].tenant
           /\ endpoints'[p].edited = endpoints[p].edited
           /\ endpoints'[p].secs = endpoints[p].secs
           /\ endpoints'[p].live => endpoints[p].live
  <2>1. endpoints' = [p \in DOMAIN endpoints |-> endpoints'[p]]
    BY DEF DeleteEndpoint
  <2>2. /\ endpoints'[d] = [endpoints[d] EXCEPT !.live = FALSE]
        /\ \A p \in DOMAIN endpoints : p # d => endpoints'[p] = endpoints[p]
    BY DEF DeleteEndpoint
  <2>3. \A p \in DOMAIN endpoints : endpoints[p] \in EndpointRow
    BY <1>1, SeqFacts
  <2>4. /\ endpoints'[d] \in EndpointRow
        /\ endpoints'[d].callgent = endpoints[d].callgent
        /\ endpoints'[d].entry = endpoints[d].entry
        /\ endpoints'[d].tenant = endpoints[d].tenant
        /\ endpoints'[d].edited = endpoints[d].edited
        /\ endpoints'[d].secs = endpoints[d].secs
        /\ endpoints'[d].live = FALSE
    BY <2>2, <2>3 DEF EndpointRow
  <2>5. \A p \in DOMAIN endpoints : endpoints'[p] \in EndpointRow
    BY <2>2, <2>3, <2>4
  <2> QED BY <1>1, <2>1, <2>2, <2>4, <2>5, Rewritten
<1>4. /\ RequestOK(a)' /\ work' \in [Admins -> Request]
      /\ \A b \in Admins : b # a => work'[b] = work[b]
  BY WorkIdle DEF DeleteEndpoint, IInv
<1>5. TypeOK'
  BY <1>2, <1>3, <1>4, BeginCounts DEF TypeOK, DeleteEndpoint, IInv
<1>6. Grows
  BY <1>2, <1>3 DEF Grows
<1>7. \A e \in DOMAIN entries' : EntryKept(e)
  BY <1>2 DEF EntryKept
<1>8. \A p \in DOMAIN endpoints' : EndpointKept(p)
  BY <1>2, <1>3 DEF EndpointKept
<1> QED BY <1>2, <1>4, <1>5, <1>6, <1>7, <1>8, Preserved

LEMMA HeldFacts ==
  ASSUME NEW a \in Admins
  PROVE  /\ work[a].op = "create" => <<"callgent", work[a].callgent>> \in HeldByAny
         /\ work[a].op = "import" =>
              /\ <<"entry", work[a].entry>> \in HeldByAny
              /\ <<"callgent", entries[work[a].entry].callgent>> \in HeldByAny
         /\ work[a].op = "edit" => <<"callgent", work[a].callgent>> \in HeldByAny
         /\ work[a].op = "secure" =>
              \A r \in UNION work[a].secs : <<"realm", r>> \in HeldByAny
<1>1. Held(work[a]) \subseteq HeldByAny
  BY DEF HeldByAny
<1>2. work[a].op = "create" => Held(work[a]) = {<<"callgent", work[a].callgent>>}
  BY DEF Held
<1>3. work[a].op = "import" =>
        Held(work[a]) = {<<"entry", work[a].entry>>,
                         <<"callgent", entries[work[a].entry].callgent>>}
  BY DEF Held
<1>4. work[a].op = "secure" => Held(work[a]) = {<<"realm", r>> : r \in UNION work[a].secs}
  BY DEF Held
<1>5. work[a].op = "edit" =>
        Held(work[a]) = {<<"callgent", work[a].callgent>>, <<"entry", work[a].entry>>}
  BY DEF Held
<1> QED BY <1>1, <1>2, <1>3, <1>4, <1>5

LEMMA WithoutFacts ==
  ASSUME NEW secs \in Securities, NEW r
  PROVE  /\ Without(secs, r) \in Securities
         /\ \A x \in UNION Without(secs, r) : x \in UNION secs /\ x # r
BY DEF Without, Securities

LEMMA DeleteRealmStep ==
  ASSUME IInv, NEW a \in Admins, NEW d \in DOMAIN realms, DeleteRealm(a, d)
  PROVE  IInv' /\ OnlyByRace
<1> DEFINE c == realms[d].callgent
<1>1. /\ entries \in Seq(EntryRow) /\ endpoints \in Seq(EndpointRow)
      /\ realms \in Seq(RealmRow) /\ RowsOK
  BY ByRow DEF TypeOK
<1>2. callgents' = callgents
  BY DEF DeleteRealm
<1>3. /\ realms' \in Seq(RealmRow) /\ DOMAIN realms' = DOMAIN realms
      /\ \A r \in DOMAIN realms :
           /\ realms'[r].callgent = realms[r].callgent
           /\ realms'[r].tenant = realms[r].tenant
           /\ r # d => realms'[r] = realms[r]
  <2>1. realms' = [r \in DOMAIN realms |-> realms'[r]]
    BY DEF DeleteRealm
  <2>2. /\ realms'[d] = [realms[d] EXCEPT !.live = FALSE]
        /\ \A r \in DOMAIN realms : r # d => realms'[r] = realms[r]
    BY DEF DeleteRealm
  <2>3. \A r \in DOMAIN realms : realms[r] \in RealmRow
    BY <1>1, SeqFacts
  <2>4. /\ realms'[d] \in RealmRow
        /\ realms'[d].callgent = realms[d].callgent
        /\ realms'[d].tenant = realms[d].tenant
    BY <2>2, <2>3 DEF RealmRow
  <2>5. \A r \in DOMAIN realms : realms'[r] \in RealmRow
    BY <2>2, <2>3, <2>4
  <2> QED BY <1>1, <2>1, <2>2, <2>4, <2>5, Rewritten
<1>4. /\ entries' \in Seq(EntryRow) /\ DOMAIN entries' = DOMAIN entries
      /\ \A e \in DOMAIN entries :
           /\ entries'[e].callgent = entries[e].callgent
           /\ entries'[e].tenant = entries[e].tenant
           /\ entries'[e].live = entries[e].live
           /\ \A x \in UNION entries'[e].secs : x \in UNION entries[e].secs /\ x # d
  <2>1. entries' = [e \in DOMAIN entries |-> entries'[e]]
    BY DEF DeleteRealm
  <2>2. ASSUME NEW e \in DOMAIN entries
        PROVE  /\ entries'[e] \in EntryRow
               /\ entries'[e].callgent = entries[e].callgent
               /\ entries'[e].tenant = entries[e].tenant
               /\ entries'[e].live = entries[e].live
               /\ \A x \in UNION entries'[e].secs : x \in UNION entries[e].secs /\ x # d
    <3>0. entries[e] \in EntryRow
      BY <1>1, SeqFacts
    <3>1. entries[e] \in EntryRow /\ entries[e].secs \in Securities
      BY <3>0 DEF EntryRow
    <3>2. CASE entries[e].callgent = c
      <4>1. entries'[e] = [entries[e] EXCEPT !.secs = Without(entries[e].secs, d)]
        BY <3>2 DEF DeleteRealm
      <4>2. Without(entries[e].secs, d) \in Securities
        BY <3>1, WithoutFacts
      <4>3. entries'[e].secs = Without(entries[e].secs, d) /\ entries'[e] \in EntryRow
        BY <3>1, <4>1, <4>2 DEF EntryRow
      <4>4. /\ entries'[e].callgent = entries[e].callgent
            /\ entries'[e].tenant = entries[e].tenant
            /\ entries'[e].live = entries[e].live
        BY <3>1, <4>1 DEF EntryRow
      <4> QED BY <3>1, <4>3, <4>4, WithoutFacts
    <3>3. CASE entries[e].callgent # c
      <4>1. entries'[e] = entries[e]
        BY <3>3 DEF DeleteRealm
      <4>2. d \notin UNION entries[e].secs
        BY <3>3, <1>1 DEF RowsOK, EntryOK, Refers
      <4> QED BY <3>1, <4>1, <4>2
    <3> QED BY <3>2, <3>3
  <2> QED BY <1>1, <2>1, <2>2, Rewritten
<1>5. /\ endpoints' \in Seq(EndpointRow) /\ DOMAIN endpoints' = DOMAIN endpoints
      /\ \A p \in DOMAIN endpoints :
           /\ endpoints'[p].callgent = endpoints[p].callgent
           /\ endpoints'[p].entry = endpoints[p].entry
           /\ endpoints'[p].tenant = endpoints[p].tenant
           /\ endpoints'[p].edited = endpoints[p].edited
           /\ endpoints'[p].live = endpoints[p].live
           /\ ~endpoints[p].edited =>
                \A x \in UNION endpoints'[p].secs : x \in UNION endpoints[p].secs /\ x # d
  <2>1. endpoints' = [p \in DOMAIN endpoints |-> endpoints'[p]]
    BY DEF DeleteRealm
  <2>2. ASSUME NEW p \in DOMAIN endpoints
        PROVE  /\ endpoints'[p] \in EndpointRow
               /\ endpoints'[p].callgent = endpoints[p].callgent
               /\ endpoints'[p].entry = endpoints[p].entry
               /\ endpoints'[p].tenant = endpoints[p].tenant
               /\ endpoints'[p].edited = endpoints[p].edited
               /\ endpoints'[p].live = endpoints[p].live
               /\ ~endpoints[p].edited =>
                    \A x \in UNION endpoints'[p].secs : x \in UNION endpoints[p].secs /\ x # d
    <3>0. endpoints[p] \in EndpointRow
      BY <1>1, SeqFacts
    <3>1. endpoints[p] \in EndpointRow /\ endpoints[p].secs \in Securities
      BY <3>0 DEF EndpointRow
    <3>2. CASE endpoints[p].callgent = c
      <4>1. endpoints'[p] = [endpoints[p] EXCEPT !.secs = Without(endpoints[p].secs, d)]
        BY <3>2 DEF DeleteRealm
      <4>2. Without(endpoints[p].secs, d) \in Securities
        BY <3>1, WithoutFacts
      <4>3. endpoints'[p].secs = Without(endpoints[p].secs, d) /\ endpoints'[p] \in EndpointRow
        BY <3>1, <4>1, <4>2 DEF EndpointRow
      <4>4. /\ endpoints'[p].callgent = endpoints[p].callgent
            /\ endpoints'[p].entry = endpoints[p].entry
            /\ endpoints'[p].tenant = endpoints[p].tenant
            /\ endpoints'[p].edited = endpoints[p].edited
            /\ endpoints'[p].live = endpoints[p].live
        BY <3>1, <4>1 DEF EndpointRow
      <4> QED BY <3>1, <4>3, <4>4, WithoutFacts
    <3>3. CASE endpoints[p].callgent # c
      <4>1. endpoints'[p] = endpoints[p]
        BY <3>3 DEF DeleteRealm
      <4>2. ~endpoints[p].edited => d \notin UNION endpoints[p].secs
        BY <3>3, <1>1 DEF RowsOK, EndpointOK, Refers
      <4> QED BY <3>1, <4>1, <4>2
    <3> QED BY <3>2, <3>3
  <2> QED BY <1>1, <2>1, <2>2, Rewritten
<1>6. /\ RequestOK(a)' /\ work' \in [Admins -> Request]
      /\ \A b \in Admins : b # a => work'[b] = work[b]
  BY WorkIdle DEF DeleteRealm, IInv
<1>7. TypeOK'
  BY <1>2, <1>3, <1>4, <1>5, <1>6, BeginCounts DEF TypeOK, DeleteRealm, IInv
<1>8. Grows
  BY <1>2, <1>3, <1>4, <1>5 DEF Grows
<1>9. ASSUME NEW e \in DOMAIN entries'
      PROVE  EntryKept(e)
  <2>1. \A r \in UNION entries[e].secs : r \in DOMAIN realms
    BY <1>1, <1>4 DEF RowsOK, EntryOK, Refers
  <2>2. \A r \in UNION entries'[e].secs : r \in UNION entries[e].secs /\ realms'[r] = realms[r]
    BY <2>1, <1>3, <1>4
  <2> QED BY <2>2, <1>2, <1>4 DEF EntryKept
<1>10. ASSUME NEW p \in DOMAIN endpoints'
       PROVE  EndpointKept(p)
  <2>1. ~endpoints[p].edited =>
          /\ endpoints[p].entry \in DOMAIN entries
          /\ \A r \in UNION endpoints[p].secs : r \in DOMAIN realms
    BY <1>1, <1>5 DEF RowsOK, EndpointOK, Refers
  <2>2. ~endpoints[p].edited => \A r \in UNION endpoints'[p].secs :
          r \in UNION endpoints[p].secs /\ realms'[r] = realms[r]
    BY <2>1, <1>3, <1>5
  <2> QED BY <2>1, <2>2, <1>2, <1>4, <1>5 DEF EndpointKept
<1> QED BY <1>3, <1>6, <1>7, <1>8, <1>9, <1>10, Preserved

LEMMA UpdateRealmStep ==
  ASSUME IInv, NEW a \in Admins, NEW k \in Keys, UpdateRealm(a, k)
  PROVE  IInv' /\ OnlyByRace
<1> DEFINE old == work[a].old
<1>1. /\ realms \in Seq(RealmRow) /\ RowsOK /\ work[a] \in Request /\ RequestOK(a)
      /\ work[a].op = "realm"
  BY ByRow DEF TypeOK, UpdateRealm
<1>2. PICK d \in RealmsAt(old.callgent, old.key) :
        realms' = [realms EXCEPT ![d] = Merged(old, k)]
  BY DEF UpdateRealm
<1>3. d \in DOMAIN realms /\ realms[d].callgent = old.callgent
  BY DEF RealmsAt, RealmsOf
<1>4. old \in RealmRow
  BY <1>1, RequestFields
<1>5. /\ Merged(old, k) \in RealmRow
      /\ Merged(old, k).callgent = old.callgent
      /\ Merged(old, k).tenant = old.tenant
      /\ Merged(old, k).live = TRUE
  BY <1>4 DEF Merged, ConstructRealm, RealmRow
<1>6. old.tenant = realms[d].tenant
  BY <1>1, <1>3 DEF RowsOK, RealmOK, RequestOK
<1>7. callgents' = callgents /\ entries' = entries /\ endpoints' = endpoints
  BY DEF UpdateRealm
<1>8. /\ realms' \in Seq(RealmRow) /\ DOMAIN realms' = DOMAIN realms
      /\ \A r \in DOMAIN realms :
           /\ realms'[r].callgent = realms[r].callgent
           /\ realms'[r].tenant = realms[r].tenant
           /\ realms[r].live => realms'[r].live
  <2>1. realms' = [r \in DOMAIN realms |-> realms'[r]]
    BY <1>2
  <2>2. /\ realms'[d] = Merged(old, k)
        /\ \A r \in DOMAIN realms : r # d => realms'[r] = realms[r]
    BY <1>2, <1>3
  <2>3. \A r \in DOMAIN realms : realms[r] \in RealmRow
    BY <1>1, SeqFacts
  <2>4. \A r \in DOMAIN realms : realms'[r] \in RealmRow
    BY <2>2, <2>3, <1>5
  <2> QED BY <1>1, <1>3, <1>5, <1>6, <2>1, <2>2, <2>4, Rewritten
<1>9. /\ RequestOK(a)' /\ work' \in [Admins -> Request]
      /\ \A b \in Admins : b # a => work'[b] = work[b]
  BY WorkDone DEF UpdateRealm, IInv
<1>10. TypeOK'
  BY <1>7, <1>8, <1>9 DEF TypeOK, UpdateRealm, IInv
<1>11. Grows
  BY <1>7, <1>8 DEF Grows
<1>12. \A e \in DOMAIN entries' : EntryKept(e)
  BY <1>1, <1>7, <1>8 DEF EntryKept, RowsOK, EntryOK, Refers
<1>13. \A p \in DOMAIN endpoints' : EndpointKept(p)
  BY <1>1, <1>7, <1>8 DEF EndpointKept, RowsOK, EndpointOK, Refers
<1> QED BY <1>8, <1>9, <1>10, <1>11, <1>12, <1>13, Preserved

(* The securities written may refer to a realm deleted since it was read,  *)
(* which the request held.                                                 *)
LEMMA WriteEntrySecurities ==
  ASSUME IInv, NEW a \in Admins, WriteSecurities(a), work[a].table = "entry"
  PROVE  IInv' /\ OnlyByRace
<1>1. /\ entries \in Seq(EntryRow) /\ RowsOK /\ RequestOK(a)
      /\ work[a] \in Request /\ work[a].op = "secure"
  BY ByRow DEF TypeOK, WriteSecurities
<1>2. PICK d \in DOMAIN entries, secs \in Securities :
        d = work[a].pk /\ secs = work[a].secs /\ Refers(secs, entries[d].callgent)
  BY <1>1, RequestFields DEF RequestOK
<1>3. /\ entries' = [entries EXCEPT ![d].secs = secs]
      /\ callgents' = callgents /\ endpoints' = endpoints /\ realms' = realms
  BY <1>2 DEF WriteSecurities
<1>4. /\ entries' \in Seq(EntryRow) /\ DOMAIN entries' = DOMAIN entries
      /\ \A e \in DOMAIN entries :
           /\ entries'[e].callgent = entries[e].callgent
           /\ entries'[e].tenant = entries[e].tenant
           /\ entries'[e].live = entries[e].live
           /\ e # d => entries'[e] = entries[e]
      /\ entries'[d].secs = secs
  <2>1. entries' = [e \in DOMAIN entries |-> entries'[e]]
    BY <1>3
  <2>2. /\ entries'[d] = [entries[d] EXCEPT !.secs = secs]
        /\ \A e \in DOMAIN entries : e # d => entries'[e] = entries[e]
    BY <1>2, <1>3
  <2>3. \A e \in DOMAIN entries : entries[e] \in EntryRow
    BY <1>1, SeqFacts
  <2>4. /\ entries'[d] \in EntryRow
        /\ entries'[d].callgent = entries[d].callgent
        /\ entries'[d].tenant = entries[d].tenant
        /\ entries'[d].live = entries[d].live
        /\ entries'[d].secs = secs
    BY <1>2, <2>2, <2>3 DEF EntryRow
  <2>5. \A e \in DOMAIN entries : entries'[e] \in EntryRow
    BY <2>2, <2>3, <2>4
  <2> QED BY <1>1, <2>1, <2>2, <2>4, <2>5, Rewritten
<1>5. /\ RequestOK(a)' /\ work' \in [Admins -> Request]
      /\ \A b \in Admins : b # a => work'[b] = work[b]
  BY WorkDone DEF WriteSecurities, IInv
<1>6. TypeOK'
  BY <1>3, <1>4, <1>5 DEF TypeOK, WriteSecurities, IInv
<1>7. Grows
  BY <1>3, <1>4 DEF Grows
<1>8. ASSUME NEW e \in DOMAIN entries', e # d
      PROVE  EntryKept(e)
  BY <1>3, <1>4, <1>8 DEF EntryKept
<1>9. EntryOK(d)'
  <2>1. EntryOK(d)
    BY <1>1 DEF RowsOK
  <2>2. \A r \in UNION secs : r \in DOMAIN realms' /\ realms'[r].callgent = entries'[d].callgent
    <3>1. \A r \in UNION secs : r \in DOMAIN realms /\ realms[r].callgent = entries[d].callgent
      BY <1>2 DEF Refers
    <3>2. realms' = realms /\ entries'[d].callgent = entries[d].callgent
      BY <1>3, <1>4
    <3> QED BY <3>1, <3>2
  <2>3. Refers(entries[d].secs, entries[d].callgent)'
    BY <2>2, <1>4 DEF Refers
  <2> QED BY <2>1, <2>3, <1>3, <1>4 DEF EntryOK
<1>10. EntryByRace(d)
  <2> SUFFICES ASSUME NEW y \in LostByEntry(d)'
               PROVE  y \in HeldByAny \/ y \in LostByEntry(d)
    BY <1>2 DEF EntryByRace
  <2>1. CASE y \in GoneRealms(entries[d].secs)'
    <3>1. PICK r \in UNION secs : y = <<"realm", r>>
      BY <2>1, <1>4 DEF GoneRealms
    <3> QED BY <3>1, <1>1, <1>2, HeldFacts
  <2>2. CASE y \notin GoneRealms(entries[d].secs)'
    BY <2>2, <1>2, <1>3, <1>4 DEF LostByEntry
  <2> QED BY <2>1, <2>2
<1>11. \A p \in DOMAIN endpoints' : EndpointKept(p)
  BY <1>1, <1>3, <1>4 DEF EndpointKept, RowsOK, EndpointOK
<1> QED BY <1>3, <1>5, <1>6, <1>7, <1>8, <1>9, <1>10, <1>11, Preserved

LEMMA WriteEndpointSecurities ==
  ASSUME IInv, NEW a \in Admins, WriteSecurities(a), work[a].table # "entry"
  PROVE  IInv' /\ OnlyByRace
<1>1. /\ endpoints \in Seq(EndpointRow) /\ RowsOK /\ RequestOK(a)
      /\ work[a] \in Request /\ work[a].op = "secure"
  BY ByRow DEF TypeOK, WriteSecurities
<1>2. PICK d \in DOMAIN endpoints, secs \in Securities :
        /\ d = work[a].pk /\ secs = work[a].secs
        /\ ~endpoints[d].edited => Refers(secs, endpoints[d].callgent)
  BY <1>1, RequestFields DEF RequestOK
<1>3. /\ endpoints' = [endpoints EXCEPT ![d].secs = secs]
      /\ callgents' = callgents /\ entries' = entries /\ realms' = realms
  BY <1>2 DEF WriteSecurities
<1>4. /\ endpoints' \in Seq(EndpointRow) /\ DOMAIN endpoints' = DOMAIN endpoints
      /\ \A p \in DOMAIN endpoints :
           /\ endpoints'[p].callgent = endpoints[p].callgent
           /\ endpoints'[p].entry = endpoints[p].entry
           /\ endpoints'[p].tenant = endpoints[p].tenant
           /\ endpoints'[p].edited = endpoints[p].edited
           /\ endpoints'[p].live = endpoints[p].live
           /\ p # d => endpoints'[p] = endpoints[p]
      /\ endpoints'[d].secs = secs
  <2>1. endpoints' = [p \in DOMAIN endpoints |-> endpoints'[p]]
    BY <1>3
  <2>2. /\ endpoints'[d] = [endpoints[d] EXCEPT !.secs = secs]
        /\ \A p \in DOMAIN endpoints : p # d => endpoints'[p] = endpoints[p]
    BY <1>2, <1>3
  <2>3. \A p \in DOMAIN endpoints : endpoints[p] \in EndpointRow
    BY <1>1, SeqFacts
  <2>4. /\ endpoints'[d] \in EndpointRow
        /\ endpoints'[d].callgent = endpoints[d].callgent
        /\ endpoints'[d].entry = endpoints[d].entry
        /\ endpoints'[d].tenant = endpoints[d].tenant
        /\ endpoints'[d].edited = endpoints[d].edited
        /\ endpoints'[d].live = endpoints[d].live
        /\ endpoints'[d].secs = secs
    BY <1>2, <2>2, <2>3 DEF EndpointRow
  <2>5. \A p \in DOMAIN endpoints : endpoints'[p] \in EndpointRow
    BY <2>2, <2>3, <2>4
  <2> QED BY <1>1, <2>1, <2>2, <2>4, <2>5, Rewritten
<1>5. /\ RequestOK(a)' /\ work' \in [Admins -> Request]
      /\ \A b \in Admins : b # a => work'[b] = work[b]
  BY WorkDone DEF WriteSecurities, IInv
<1>6. TypeOK'
  BY <1>3, <1>4, <1>5 DEF TypeOK, WriteSecurities, IInv
<1>7. Grows
  BY <1>3, <1>4 DEF Grows
<1>8. ASSUME NEW p \in DOMAIN endpoints', p # d
      PROVE  EndpointKept(p)
  BY <1>3, <1>4, <1>8 DEF EndpointKept
<1>9. EndpointOK(d)'
  <2>1. EndpointOK(d)
    BY <1>1 DEF RowsOK
  <2>2. ~endpoints[d].edited =>
          \A r \in UNION secs : r \in DOMAIN realms' /\ realms'[r].callgent = endpoints'[d].callgent
    <3>1. ~endpoints[d].edited =>
            \A r \in UNION secs : r \in DOMAIN realms /\ realms[r].callgent = endpoints[d].callgent
      BY <1>2 DEF Refers
    <3>2. realms' = realms /\ endpoints'[d].callgent = endpoints[d].callgent
      BY <1>3, <1>4
    <3> QED BY <3>1, <3>2
  <2>3. ~endpoints[d].edited => Refers(endpoints[d].secs, endpoints[d].callgent)'
    BY <2>2, <1>4 DEF Refers
  <2> QED BY <2>1, <2>3, <1>3, <1>4 DEF EndpointOK
<1>10. EndpointByRace(d)
  <2> SUFFICES ASSUME NEW y \in LostByEndpoint(d)'
               PROVE  y \in HeldByAny \/ y \in LostByEndpoint(d)
    BY <1>2 DEF EndpointByRace
  <2>1. CASE y \in GoneRealms(endpoints[d].secs)'
    <3>1. PICK r \in UNION secs : y = <<"realm", r>>
      BY <2>1, <1>4 DEF GoneRealms
    <3> QED BY <3>1, <1>1, <1>2, HeldFacts
  <2>2. CASE y \notin GoneRealms(endpoints[d].secs)'
    <3> DEFINE e == endpoints[d].entry
               c == endpoints[d].callgent
    <3>1. /\ endpoints'[d].entry = e /\ endpoints'[d].callgent = c
          /\ endpoints'[d].live = endpoints[d].live
          /\ endpoints'[d].edited = endpoints[d].edited
          /\ callgents' = callgents /\ entries' = entries
      BY <1>3, <1>4
    <3>2. \/ /\ ~endpoints[d].edited /\ endpoints[d].live /\ ~entries[e].live
             /\ y = <<"entry", e>>
          \/ /\ endpoints[d].live /\ c # 0 /\ ~callgents[c].live
             /\ y = <<"callgent", c>>
      <4> HIDE DEF e, c
      <4> QED BY <2>2, <3>1 DEF LostByEndpoint
    <3> QED BY <3>2 DEF LostByEndpoint
  <2> QED BY <2>1, <2>2
<1>11. \A e \in DOMAIN entries' : EntryKept(e)
  BY <1>3 DEF EntryKept
<1> QED BY <1>3, <1>5, <1>6, <1>7, <1>8, <1>9, <1>10, <1>11, Preserved

(* A request that edits an endpoint puts it where its validators looked.   *)
LEMMA UpdateEndpointStep ==
  ASSUME IInv, NEW a \in Admins, NEW d \in DOMAIN endpoints, NEW columns \in SUBSET Columns,
         NEW pks \in SUBSET (1..MaxRealms),
         UpdateEndpoint(a, d, columns, {{r} : r \in pks})
  PROVE  IInv' /\ OnlyByRace
<1>1. /\ endpoints \in Seq(EndpointRow) /\ RowsOK /\ RequestOK(a)
      /\ work[a] \in Request /\ work[a].op = "edit"
      /\ endpoints[d].tenant = TenantOf[a]
  BY ByRow DEF TypeOK, UpdateEndpoint
<1>2. PICK c \in Nat, e \in Nat, secs \in Securities :
        /\ c = IF "callgent" \in columns THEN work[a].callgent ELSE endpoints[d].callgent
        /\ e = IF "entry" \in columns THEN work[a].entry ELSE endpoints[d].entry
        /\ secs = IF "secs" \in columns THEN {{r} : r \in pks} ELSE endpoints[d].secs
  <2>1. work[a].callgent \in Nat /\ work[a].entry \in Nat
    BY <1>1, RequestFields
  <2>2. endpoints[d] \in EndpointRow
    BY <1>1, SeqFacts
  <2>3. /\ endpoints[d].callgent \in Nat /\ endpoints[d].entry \in Nat
        /\ endpoints[d].secs \in Securities
    BY <2>2 DEF EndpointRow
  <2>4. {{r} : r \in pks} \in Securities
    BY DEF Securities, Pk
  <2> QED BY <2>1, <2>3, <2>4
<1>3. /\ endpoints' = [endpoints EXCEPT ![d] =
           [endpoints[d] EXCEPT !.callgent = c, !.entry = e, !.secs = secs, !.edited = TRUE]]
      /\ callgents' = callgents /\ entries' = entries /\ realms' = realms
  BY <1>2 DEF UpdateEndpoint
<1>4. /\ endpoints' \in Seq(EndpointRow) /\ DOMAIN endpoints' = DOMAIN endpoints
      /\ \A p \in DOMAIN endpoints : p # d => endpoints'[p] = endpoints[p]
      /\ endpoints'[d].callgent = c /\ endpoints'[d].entry = e
      /\ endpoints'[d].tenant = endpoints[d].tenant
      /\ endpoints'[d].live = endpoints[d].live
      /\ endpoints'[d].edited = TRUE
  <2>1. endpoints' = [p \in DOMAIN endpoints |-> endpoints'[p]]
    BY <1>3
  <2>2. /\ endpoints'[d] =
             [endpoints[d] EXCEPT !.callgent = c, !.entry = e, !.secs = secs, !.edited = TRUE]
        /\ \A p \in DOMAIN endpoints : p # d => endpoints'[p] = endpoints[p]
    BY <1>3
  <2>3. \A p \in DOMAIN endpoints : endpoints[p] \in EndpointRow
    BY <1>1, SeqFacts
  <2>4. /\ endpoints'[d] \in EndpointRow
        /\ endpoints'[d].callgent = c /\ endpoints'[d].entry = e
        /\ endpoints'[d].tenant = endpoints[d].tenant
        /\ endpoints'[d].live = endpoints[d].live
        /\ endpoints'[d].edited = TRUE
    BY <1>2, <2>2, <2>3 DEF EndpointRow
  <2>5. \A p \in DOMAIN endpoints : endpoints'[p] \in EndpointRow
    BY <2>2, <2>3, <2>4
  <2> QED BY <1>1, <2>1, <2>2, <2>4, <2>5, Rewritten
<1>5. /\ RequestOK(a)' /\ work' \in [Admins -> Request]
      /\ \A b \in Admins : b # a => work'[b] = work[b]
  BY WorkDone DEF UpdateEndpoint, IInv
<1>6. TypeOK'
  BY <1>3, <1>4, <1>5 DEF TypeOK, UpdateEndpoint, IInv
<1>7. Grows
  BY <1>3, <1>4 DEF Grows
<1>8. ASSUME NEW p \in DOMAIN endpoints', p # d
      PROVE  EndpointKept(p)
  BY <1>3, <1>4, <1>8 DEF EndpointKept
<1>9. EndpointOK(d)
  BY <1>1 DEF RowsOK
<1>10. /\ c # 0 => c \in DOMAIN callgents /\ callgents[c].tenant = endpoints[d].tenant
       /\ e # 0 => e \in DOMAIN entries /\ entries[e].tenant = endpoints[d].tenant
  BY <1>1, <1>2, <1>9 DEF EndpointOK, RequestOK
<1>11. EndpointOK(d)'
  BY <1>3, <1>4, <1>10 DEF EndpointOK
<1>12. EndpointByRace(d)
  <2> SUFFICES ASSUME NEW y \in LostByEndpoint(d)'
               PROVE  y \in HeldByAny \/ y \in LostByEndpoint(d)
    BY DEF EndpointByRace
  <2>1. /\ endpoints[d].live /\ c # 0 /\ ~callgents[c].live
        /\ y = <<"callgent", c>>
    BY <1>3, <1>4 DEF LostByEndpoint
  <2>2. CASE "callgent" \in columns
    BY <2>1, <2>2, <1>1, <1>2, HeldFacts
  <2>3. CASE "callgent" \notin columns
    BY <2>1, <2>3, <1>2 DEF LostByEndpoint
  <2> QED BY <2>2, <2>3
<1>13. \A e2 \in DOMAIN entries' : EntryKept(e2)
  BY <1>3 DEF EntryKept
<1> QED BY <1>3, <1>5, <1>6, <1>7, <1>8, <1>11, <1>12, <1>13, Preserved

LEMMA WriteSecuritiesStep ==
  ASSUME IInv, NEW a \in Admins, WriteSecurities(a)
  PROVE  IInv' /\ OnlyByRace
BY WriteEntrySecurities, WriteEndpointSecurities

----------------------------------------------------------------------------
(* Rows are created. *)

(* The realms of a new row are there and live; its parents are live, or    *)
(* some request had read them.                                             *)
RefersLive(secs, c) ==
  \A r \in UNION secs : r \in DOMAIN realms /\ realms[r].callgent = c /\ realms[r].live
LiveOrHeld(live, y) == live = TRUE \/ y \in HeldByAny

LEMMA NewEntryOK ==
  ASSUME NEW e, NEW c, NEW t, NEW type, NEW secs,
         entries'[e] = NewEntry(c, t, type, secs),
         c \in DOMAIN callgents', callgents'[c].tenant = t,
         LiveOrHeld(callgents'[c].live, <<"callgent", c>>), RefersLive(secs, c)'
  PROVE  EntryOK(e)' /\ EntryByRace(e)
<1>1. /\ entries'[e].callgent = c /\ entries'[e].tenant = t
      /\ entries'[e].secs = secs
  BY DEF NewEntry
<1>2. Refers(entries[e].secs, entries[e].callgent)'
  BY <1>1 DEF Refers, RefersLive
<1>3. ASSUME NEW y \in LostByEntry(e)'
      PROVE  y \in HeldByAny
  <2>1. y \notin GoneRealms(entries[e].secs)'
    BY <1>1 DEF GoneRealms, RefersLive
  <2>2. ~callgents'[c].live /\ y = <<"callgent", c>>
    BY <1>1, <2>1 DEF LostByEntry
  <2> QED BY <2>2 DEF LiveOrHeld
<1> QED BY <1>1, <1>2, <1>3 DEF EntryOK, EntryByRace

LEMMA NewEndpointOK ==
  ASSUME NEW p, NEW c, NEW e, NEW t, NEW secs,
         endpoints'[p] = NewEndpoint(c, e, t, secs),
         e \in DOMAIN entries', entries'[e].callgent = c, entries'[e].tenant = t, e # 0,
         c \in DOMAIN callgents', callgents'[c].tenant = t,
         LiveOrHeld(entries'[e].live, <<"entry", e>>),
         LiveOrHeld(callgents'[c].live, <<"callgent", c>>), RefersLive(secs, c)'
  PROVE  EndpointOK(p)' /\ EndpointByRace(p)
<1>1. /\ endpoints'[p].callgent = c /\ endpoints'[p].tenant = t
      /\ endpoints'[p].entry = e /\ endpoints'[p].secs = secs
      /\ endpoints'[p].edited = FALSE
  BY DEF NewEndpoint
<1>2. Refers(endpoints[p].secs, endpoints[p].callgent)'
  BY <1>1 DEF Refers, RefersLive
<1>3. ASSUME NEW y \in LostByEndpoint(p)'
      PROVE  y \in HeldByAny
  <2>1. y \notin GoneRealms(endpoints[p].secs)'
    BY <1>1 DEF GoneRealms, RefersLive
  <2>2. \/ ~entries'[e].live /\ y = <<"entry", e>>
        \/ ~callgents'[c].live /\ y = <<"callgent", c>>
    BY <1>1, <2>1 DEF LostByEndpoint
  <2> QED BY <2>2 DEF LiveOrHeld
<1> QED BY <1>1, <1>2, <1>3 DEF EndpointOK, EndpointByRace

LEMMA CreateCallgentStep ==
  ASSUME IInv, NEW a \in Admins, CreateCallgent(a)
  PROVE  IInv' /\ OnlyByRace
<1>1. /\ callgents \in Seq(CallgentRow) /\ entries \in Seq(EntryRow)
      /\ TenantOf[a] \in Tenants
  BY TreeAssumption DEF IInv, TypeOK
<1>2. PICK c \in Pk, t \in Tenants : c = Len(callgents) + 1 /\ t = TenantOf[a]
  BY <1>1, SeqFacts DEF Pk
<1> DEFINE client == NewEntry(c, t, "CLIENT", {})
           row == [tenant |-> t, live |-> TRUE]
<1>3. /\ callgents' = Append(callgents, row)
      /\ entries' = entries \o <<client, client>>
      /\ realms' = realms /\ endpoints' = endpoints
  BY <1>2 DEF CreateCallgent
<1>4. /\ callgents' \in Seq(CallgentRow) /\ AddsTo(callgents, callgents')
      /\ c \in DOMAIN callgents' /\ callgents'[c] = row
  <2>1. row \in CallgentRow
    BY <1>1 DEF CallgentRow
  <2> QED BY <1>1, <1>2, <1>3, <2>1, AppendFacts DEF AddsTo
<1>5. <<client, client>> \in Seq(EntryRow)
  <2>1. client \in EntryRow
    BY <1>1, NewRows DEF EntryType, Securities
  <2> HIDE DEF client
  <2> QED BY <2>1
<1>6. /\ entries' \in Seq(EntryRow) /\ AddsTo(entries, entries')
      /\ \A e \in DOMAIN entries' \ DOMAIN entries : entries'[e] = client
  <2>1. \A i \in DOMAIN <<client, client>> : <<client, client>>[i] = client
    OBVIOUS
  <2> HIDE DEF client
  <2> QED BY <1>1, <1>3, <1>5, <2>1, CatFacts DEF AddsTo
<1>7. /\ RequestOK(a)' /\ work' \in [Admins -> Request]
      /\ \A b \in Admins : b # a => work'[b] = work[b]
  BY WorkIdle DEF CreateCallgent, IInv
<1>8. TypeOK'
  BY <1>3, <1>4, <1>6, <1>7, BeginCounts DEF TypeOK, CreateCallgent, IInv
<1>9. /\ Grows
      /\ \A e \in DOMAIN entries : EntryKept(e)
      /\ \A p \in DOMAIN endpoints : EndpointKept(p)
  BY <1>3, <1>4, <1>6, AddedRows DEF AddsTo
<1>10. ASSUME NEW e \in DOMAIN entries', e \notin DOMAIN entries
       PROVE  EntryOK(e)' /\ EntryByRace(e)
  <2>1. entries'[e] = client
    BY <1>6, <1>10
  <2>2. /\ c \in DOMAIN callgents' /\ callgents'[c].tenant = t
        /\ LiveOrHeld(callgents'[c].live, <<"callgent", c>>)
    BY <1>4 DEF LiveOrHeld
  <2>3. RefersLive({}, c)'
    BY DEF RefersLive
  <2> QED BY <2>1, <2>2, <2>3, NewEntryOK
<1> QED BY <1>3, <1>7, <1>8, <1>9, <1>10, Preserved

LEMMA CreateEntryStep ==
  ASSUME IInv, NEW a \in Admins, NEW type \in EntryType, CreateEntry(a, type)
  PROVE  IInv' /\ OnlyByRace
<1>1. /\ entries \in Seq(EntryRow) /\ TenantOf[a] \in Tenants
      /\ callgents \in Seq(CallgentRow) /\ RequestOK(a) /\ work[a].op = "create"
  BY TreeAssumption DEF IInv, TypeOK, CreateEntry
<1>2. PICK c \in DOMAIN callgents : c = work[a].callgent /\ callgents[c].tenant = TenantOf[a]
  BY <1>1 DEF RequestOK
<1> DEFINE row == NewEntry(c, TenantOf[a], type, {})
<1>3. /\ entries' = Append(entries, row)
      /\ callgents' = callgents /\ realms' = realms /\ endpoints' = endpoints
  BY <1>2 DEF CreateEntry
<1>4. row \in EntryRow
  <2>1. c \in Pk /\ {} \in Securities
    BY <1>1, SeqFacts DEF Securities
  <2> QED BY <1>1, <2>1, NewRows
<1>5. /\ entries' \in Seq(EntryRow) /\ AddsTo(entries, entries')
      /\ \A e \in DOMAIN entries' \ DOMAIN entries : entries'[e] = row
  <2> HIDE DEF row
  <2> QED BY <1>1, <1>3, <1>4, AppendFacts DEF AddsTo
<1>6. /\ RequestOK(a)' /\ work' \in [Admins -> Request]
      /\ \A b \in Admins : b # a => work'[b] = work[b]
  BY WorkDone DEF CreateEntry, IInv
<1>7. TypeOK'
  BY <1>3, <1>5, <1>6 DEF TypeOK, CreateEntry, IInv
<1>8. /\ Grows
      /\ \A e \in DOMAIN entries : EntryKept(e)
      /\ \A p \in DOMAIN endpoints : EndpointKept(p)
  BY <1>3, <1>5, AddedRows DEF AddsTo
<1>9. ASSUME NEW e \in DOMAIN entries', e \notin DOMAIN entries
      PROVE  EntryOK(e)' /\ EntryByRace(e)
  <2>1. entries'[e] = row
    BY <1>5, <1>9
  <2>2. c \in DOMAIN callgents' /\ callgents'[c].tenant = TenantOf[a]
    BY <1>2, <1>3
  <2>3. LiveOrHeld(callgents'[c].live, <<"callgent", c>>)
    BY <1>1, <1>2, HeldFacts DEF LiveOrHeld
  <2>4. RefersLive({}, c)'
    BY DEF RefersLive
  <2> QED BY <2>1, <2>2, <2>3, <2>4, NewEntryOK
<1> QED BY <1>3, <1>6, <1>7, <1>8, <1>9, Preserved

LEMMA CreateRealmStep ==
  ASSUME IInv, NEW a \in Admins, NEW k \in Keys, CreateRealm(a, k)
  PROVE  IInv' /\ OnlyByRace
<1>1. /\ realms \in Seq(RealmRow) /\ TenantOf[a] \in Tenants
      /\ callgents \in Seq(CallgentRow) /\ RequestOK(a) /\ work[a].op = "create"
  BY TreeAssumption DEF IInv, TypeOK, CreateRealm
<1>2. PICK c \in DOMAIN callgents : c = work[a].callgent /\ callgents[c].tenant = TenantOf[a]
  BY <1>1 DEF RequestOK
<1> DEFINE row == ConstructRealm(c, TenantOf[a], k)
<1>3. /\ realms' = Append(realms, row)
      /\ callgents' = callgents /\ entries' = entries /\ endpoints' = endpoints
  BY <1>2 DEF CreateRealm
<1>4. row \in RealmRow
  <2>1. c \in Pk
    BY <1>1, SeqFacts
  <2> QED BY <1>1, <2>1, NewRows
<1>5. /\ realms' \in Seq(RealmRow) /\ AddsTo(realms, realms')
      /\ \A r \in DOMAIN realms' \ DOMAIN realms : realms'[r] = row
  <2> HIDE DEF row
  <2> QED BY <1>1, <1>3, <1>4, AppendFacts DEF AddsTo
<1>6. /\ RequestOK(a)' /\ work' \in [Admins -> Request]
      /\ \A b \in Admins : b # a => work'[b] = work[b]
  BY WorkDone DEF CreateRealm, IInv
<1>7. TypeOK'
  BY <1>3, <1>5, <1>6 DEF TypeOK, CreateRealm, IInv
<1>8. /\ Grows
      /\ \A e \in DOMAIN entries : EntryKept(e)
      /\ \A p \in DOMAIN endpoints : EndpointKept(p)
  BY <1>3, <1>5, AddedRows DEF AddsTo
<1>9. ASSUME NEW r \in DOMAIN realms', r \notin DOMAIN realms
      PROVE  RealmOK(r)'
  BY <1>2, <1>3, <1>5, <1>9 DEF RealmOK, ConstructRealm
<1> QED BY <1>3, <1>6, <1>7, <1>8, <1>9, Preserved

(* An import: the realm of each scheme is in the callgent of the entry,    *)
(* found or new.                                                           *)
LEMMA CreateBatchStep ==
  ASSUME IInv, NEW a \in Admins, NEW schemes \in SUBSET Keys,
         NEW alternatives \in SUBSET ((SUBSET schemes) \ {{}}),
         CreateBatch(a, schemes, alternatives)
  PROVE  IInv' /\ OnlyByRace
<1>1. /\ endpoints \in Seq(EndpointRow) /\ realms \in Seq(RealmRow)
      /\ entries \in Seq(EntryRow) /\ callgents \in Seq(CallgentRow)
      /\ TenantOf[a] \in Tenants
      /\ RowsOK /\ RequestOK(a) /\ work[a].op = "import"
  BY ByRow, TreeAssumption DEF TypeOK, CreateBatch
<1>2. PICK e \in DOMAIN entries : e = work[a].entry /\ entries[e].tenant = TenantOf[a]
  BY <1>1 DEF RequestOK
<1>3. PICK c \in DOMAIN callgents :
        c = entries[e].callgent /\ callgents[c].tenant = TenantOf[a]
  BY <1>1, <1>2 DEF RowsOK, EntryOK
<1>4. PICK t \in Tenants : t = TenantOf[a]
  BY <1>1
<1>5. e \in Pk /\ c \in Pk
  BY <1>1, SeqFacts
<1> DEFINE e0 == work[a].entry
           c0 == entries[e0].callgent
           new == {k \in schemes : RealmsAt(c0, k) = {}}
<1>6. PICK keys \in {s \in [1..Cardinality(new) -> new] :
                       \A k \in new : \E i \in DOMAIN s : s[i] = k} :
        /\ realms' = realms \o [i \in DOMAIN keys |->
                                  ConstructRealm(c0, TenantOf[a], keys[i])]
        /\ endpoints' = Append(endpoints, NewEndpoint(c0, e0, TenantOf[a],
             {{RealmFor(c0, keys, k) : k \in alt} : alt \in alternatives}))
  BY DEF CreateBatch
<1>0. PICK secs : secs = {{RealmFor(c0, keys, k) : k \in alt} : alt \in alternatives}
  OBVIOUS
<1> DEFINE Realm(k) == RealmFor(c, keys, k)
           rows == [i \in DOMAIN keys |-> ConstructRealm(c, t, keys[i])]
           row == NewEndpoint(c, e, t, secs)
<1>7. /\ realms' = realms \o rows
      /\ endpoints' = Append(endpoints, row)
      /\ callgents' = callgents /\ entries' = entries
  <2>1. c = c0 /\ e = e0
    BY <1>2, <1>3
  <2> HIDE DEF c0, e0
  <2>2. realms' = realms \o rows
    BY <2>1, <1>4, <1>6
  <2>3. endpoints' = Append(endpoints, row)
    BY <2>1, <1>4, <1>6, <1>0
  <2> QED BY <2>2, <2>3 DEF CreateBatch
<1>8. /\ DOMAIN keys = 1..Cardinality(new) /\ Cardinality(new) \in Nat
      /\ \A i \in DOMAIN keys : keys[i] \in Keys
      /\ \A k \in new : \E i \in DOMAIN keys : keys[i] = k
  <2>1. IsFiniteSet(new)
    BY FS_Subset DEF CreateBatch
  <2>2. Cardinality(new) \in Nat
    BY <2>1, FS_CardinalityType
  <2> QED BY <2>2
<1>9. rows \in Seq(RealmRow) /\ DOMAIN rows = DOMAIN keys
  <2>1. \A i \in DOMAIN keys : rows[i] \in RealmRow
    BY <1>1, <1>5, <1>8, NewRows
  <2>2. rows \in [1..Cardinality(new) -> RealmRow]
    BY <1>8, <2>1
  <2> QED BY <1>8, <2>2, MadeSeq
<1>10. /\ realms' \in Seq(RealmRow) /\ AddsTo(realms, realms')
       /\ \A i \in DOMAIN keys : /\ Len(realms) + i \in DOMAIN realms'
                                 /\ realms'[Len(realms) + i] = rows[i]
       /\ \A r \in DOMAIN realms' \ DOMAIN realms :
            \E i \in DOMAIN keys : realms'[r] = rows[i]
  <2> HIDE DEF rows
  <2>1. realms \in Seq(RealmRow) /\ rows \in Seq(RealmRow) /\ realms' = realms \o rows
    BY <1>1, <1>7, <1>9
  <2>2. realms' \in Seq(RealmRow) /\ AddsRows(realms, rows, realms')
    BY <2>1, CatAdds
  <2> QED BY <2>2, <1>9 DEF AddsRows
<1>11. \A i \in DOMAIN keys :
         rows[i].callgent = c /\ rows[i].tenant = t /\ rows[i].live = TRUE
  BY DEF ConstructRealm
<1>12. ASSUME NEW k \in schemes
       PROVE  /\ Realm(k) \in DOMAIN realms'
              /\ realms'[Realm(k)].callgent = c /\ realms'[Realm(k)].live
  <2>1. CASE RealmsAt(c, k) = {}
    <3>1. PICK i \in DOMAIN keys : i = PosOf(keys, k)
      BY <2>1, <1>2, <1>3, <1>8, PosOfFacts
    <3>2. Realm(k) = Len(realms) + i
      BY <2>1, <3>1 DEF RealmFor
    <3> HIDE DEF Realm, rows
    <3>3. Realm(k) \in DOMAIN realms' /\ realms'[Realm(k)] = rows[i]
      BY <3>2, <1>10
    <3> QED BY <3>3, <1>11
  <2>2. CASE RealmsAt(c, k) # {}
    <3>1. Realm(k) \in RealmsAt(c, k)
      BY <2>2 DEF RealmFor
    <3> HIDE DEF Realm
    <3>2. /\ Realm(k) \in DOMAIN realms
          /\ realms[Realm(k)].callgent = c /\ realms[Realm(k)].live
      BY <3>1 DEF RealmsAt, RealmsOf
    <3> QED BY <3>2, <1>10 DEF AddsTo
  <2> QED BY <2>1, <2>2
<1>13. \A r \in UNION secs : /\ r \in DOMAIN realms'
                             /\ realms'[r].callgent = c /\ realms'[r].live
  <2>1. ASSUME NEW r \in UNION secs
        PROVE  \E k \in schemes : r = Realm(k)
    <3>1. PICK alt \in alternatives : r \in {RealmFor(c0, keys, k) : k \in alt}
      BY <1>0
    <3>2. PICK k \in alt : r = RealmFor(c0, keys, k)
      BY <3>1
    <3> QED BY <3>2, <1>2, <1>3
  <2> HIDE DEF Realm
  <2> QED BY <2>1, <1>12
<1>14. secs \in Securities
  <2>1. \A r \in UNION secs : r \in Pk
    BY <1>10, <1>13, SeqFacts
  <2>2. {} \notin secs
    BY <1>0
  <2> QED BY <2>1, <2>2 DEF Securities
<1>15. /\ endpoints' \in Seq(EndpointRow) /\ AddsTo(endpoints, endpoints')
       /\ \A p \in DOMAIN endpoints' \ DOMAIN endpoints : endpoints'[p] = row
  <2>1. row \in EndpointRow
    BY <1>1, <1>5, <1>14, NewRows
  <2>2. endpoints \in Seq(EndpointRow) /\ endpoints' = Append(endpoints, row)
    BY <1>1, <1>7
  <2> HIDE DEF row
  <2> QED BY <2>1, <2>2, AppendFacts DEF AddsTo
<1>16. /\ RequestOK(a)' /\ work' \in [Admins -> Request]
       /\ \A b \in Admins : b # a => work'[b] = work[b]
  BY WorkDone DEF CreateBatch, IInv
<1>17. TypeOK'
  BY <1>7, <1>10, <1>15, <1>16 DEF TypeOK, CreateBatch, IInv
<1>18. /\ Grows
       /\ \A x \in DOMAIN entries : EntryKept(x)
       /\ \A p \in DOMAIN endpoints : EndpointKept(p)
  BY <1>7, <1>10, <1>15, AddedRows DEF AddsTo
<1>19. ASSUME NEW p \in DOMAIN endpoints', p \notin DOMAIN endpoints
       PROVE  EndpointOK(p)' /\ EndpointByRace(p)
  <2>1. endpoints'[p] = row
    BY <1>15, <1>19
  <2>2. /\ e \in DOMAIN entries' /\ entries'[e].callgent = c /\ entries'[e].tenant = t
        /\ c \in DOMAIN callgents' /\ callgents'[c].tenant = t
    BY <1>2, <1>3, <1>4, <1>7
  <2>6. e # 0
    BY <1>5 DEF Pk
  <2>3. <<"entry", e>> \in HeldByAny /\ <<"callgent", c>> \in HeldByAny
    BY <1>1, <1>2, <1>3, HeldFacts
  <2>4. /\ LiveOrHeld(entries'[e].live, <<"entry", e>>)
        /\ LiveOrHeld(callgents'[c].live, <<"callgent", c>>)
    BY <2>3 DEF LiveOrHeld
  <2>5. RefersLive(secs, c)'
    BY <1>13 DEF RefersLive
  <2> QED BY <2>1, <2>2, <2>4, <2>5, <2>6, NewEndpointOK
<1>20. ASSUME NEW r \in DOMAIN realms', r \notin DOMAIN realms
       PROVE  RealmOK(r)'
  <2>1. PICK i \in DOMAIN keys : realms'[r] = rows[i]
    BY <1>10, <1>20
  <2>2. realms'[r].callgent = c /\ realms'[r].tenant = t
    BY <2>1, <1>11
  <2> QED BY <2>2, <1>3, <1>4, <1>7 DEF RealmOK
<1> QED BY <1>7, <1>16, <1>17, <1>18, <1>19, <1>20, Preserved

(* A copy refers to the copies of the realms. *)
LEMMA DupFacts ==
  ASSUME NEW secs \in Securities, NEW pks \in Seq(Pk), NEW n \in Nat, Copied(secs, pks)
  PROVE  /\ DupSecurities(secs, pks, n) \in Securities
         /\ \A r \in UNION DupSecurities(secs, pks, n) : \E i \in DOMAIN pks : r = n + i
<1>1. ASSUME NEW alt \in secs, NEW x \in alt
      PROVE  PosOf(pks, x) \in DOMAIN pks
  <2>1. x \in UNION secs
    OBVIOUS
  <2>2. \E i \in DOMAIN pks : pks[i] = x
    BY <2>1 DEF Copied
  <2> QED BY <2>2, PosOfFacts
<1>2. ASSUME NEW r \in UNION DupSecurities(secs, pks, n)
      PROVE  \E i \in DOMAIN pks : r = n + i
  <2>1. PICK alt \in secs : r \in {n + PosOf(pks, x) : x \in alt}
    BY <1>2 DEF DupSecurities
  <2>2. PICK x \in alt : r = n + PosOf(pks, x)
    BY <2>1
  <2> QED BY <2>2, <1>1
<1>3. \A r \in UNION DupSecurities(secs, pks, n) : r \in Pk
  <2>1. \A i \in DOMAIN pks : n + i \in Pk
    BY SeqFacts DEF Pk
  <2> QED BY <2>1, <1>2
<1>4. {} \notin DupSecurities(secs, pks, n)
  BY DEF DupSecurities, Securities
<1> QED BY <1>2, <1>3, <1>4 DEF Securities

LEMMA CopyWriteStep ==
  ASSUME IInv, NEW a \in Admins, CopyWrite(a)
  PROVE  IInv' /\ OnlyByRace
<1> DEFINE w == work[a]
           c0 == Len(callgents) + 1
           Pks == [i \in DOMAIN w.ens |-> w.ens[i][1]]
           P == {p \in DOMAIN endpoints :
                   /\ endpoints[p].live
                   /\ endpoints[p].tenant = FromTenant(a, w.to)
                   /\ \E i \in DOMAIN Pks : Pks[i] = endpoints[p].entry}
           NewRealms == [i \in DOMAIN w.pks |-> CopyRealm(w.rows[i], c0, w.to)]
           NewEntries == [i \in DOMAIN w.ens |->
             NewEntry(c0, w.to, w.ens[i][2].type,
                      DupSecurities(w.ens[i][2].secs, w.pks, Len(realms)))]
           NewEndpoints(ps) == [i \in DOMAIN ps |->
             NewEndpoint(c0, Len(entries) + PosOf(Pks, endpoints[ps[i]].entry), w.to,
                         DupSecurities(endpoints[ps[i]].secs, w.pks, Len(realms)))]
<1>1. /\ callgents \in Seq(CallgentRow) /\ entries \in Seq(EntryRow)
      /\ endpoints \in Seq(EndpointRow) /\ realms \in Seq(RealmRow)
      /\ w \in Request /\ RequestOK(a) /\ w.op = "copyRealms"
  BY DEF IInv, TypeOK, CopyWrite
<1>2. PICK to \in Tenants, ens \in Seq(Pk \X EntryRow), pks \in Seq(Pk), rows \in Seq(RealmRow) :
        /\ to = w.to /\ ens = w.ens /\ pks = w.pks /\ rows = w.rows
        /\ DOMAIN rows = DOMAIN pks
  BY <1>1, RequestFields DEF RequestOK
<1>3. PICK c \in Pk : c = c0
  BY <1>1, SeqFacts DEF Pk
<1>4. PICK nr \in Nat, ne \in Nat : nr = Len(realms) /\ ne = Len(entries)
  BY <1>1, SeqFacts
<1>5. PICK ps \in InOrder(P) :
        /\ \A i \in DOMAIN w.ens : Copied(w.ens[i][2].secs, w.pks)
        /\ \A i \in DOMAIN ps : Copied(endpoints[ps[i]].secs, w.pks)
        /\ callgents' = Append(callgents, [tenant |-> w.to, live |-> TRUE])
        /\ realms' = realms \o NewRealms
        /\ entries' = entries \o NewEntries
        /\ endpoints' = endpoints \o NewEndpoints(ps)
  BY DEF CopyWrite
<1> DEFINE row == [tenant |-> to, live |-> TRUE]
<1>6. /\ callgents' \in Seq(CallgentRow) /\ AddsTo(callgents, callgents')
      /\ c \in DOMAIN callgents' /\ callgents'[c] = row
  <2>1. row \in CallgentRow
    BY DEF CallgentRow
  <2>2. callgents' = Append(callgents, row)
    BY <1>2, <1>5
  <2> HIDE DEF row
  <2> QED BY <1>1, <1>3, <2>1, <2>2, AppendFacts DEF AddsTo
(* The realms: each the copy of one that was read. *)
<1>7. PICK rs \in Seq(RealmRow) :
        /\ realms' = realms \o rs /\ DOMAIN rs = DOMAIN pks
        /\ \A i \in DOMAIN rs : rs[i].callgent = c /\ rs[i].tenant = to /\ rs[i].live = TRUE
  <2>1. ASSUME NEW i \in DOMAIN pks
        PROVE  CopyRealm(rows[i], c, to) = ConstructRealm(c, to, rows[i].key) /\ rows[i].key \in Keys
    <3>1. rows[i] \in RealmRow
      BY <1>2, SeqFacts
    <3> QED BY <3>1 DEF CopyRealm, RealmRow
  <2>2. DOMAIN NewRealms = DOMAIN pks /\ \A i \in DOMAIN pks : NewRealms[i] = CopyRealm(rows[i], c, to)
    BY <1>2, <1>3
  <2>3. NewRealms = [i \in DOMAIN pks |-> NewRealms[i]]
    BY <1>2
  <2> HIDE DEF NewRealms
  <2>4. \A i \in DOMAIN pks : NewRealms[i] \in RealmRow
    BY <2>1, <2>2, NewRows
  <2>5. NewRealms \in Seq(RealmRow)
    BY <2>3, <2>4, MadeFrom
  <2>6. ASSUME NEW i \in DOMAIN pks
        PROVE  NewRealms[i].callgent = c /\ NewRealms[i].tenant = to /\ NewRealms[i].live = TRUE
    <3>1. NewRealms[i] = ConstructRealm(c, to, rows[i].key)
      BY <2>1, <2>2
    <3> QED BY <3>1 DEF ConstructRealm
  <2> QED BY <1>5, <2>2, <2>5, <2>6
<1>8. /\ realms' \in Seq(RealmRow) /\ AddsTo(realms, realms')
      /\ \A i \in DOMAIN pks : /\ nr + i \in DOMAIN realms'
                               /\ realms'[nr + i].callgent = c /\ realms'[nr + i].live
      /\ \A r \in DOMAIN realms' \ DOMAIN realms :
           realms'[r].callgent = c /\ realms'[r].tenant = to
  <2>1. realms \in Seq(RealmRow) /\ realms' = realms \o rs
    BY <1>1, <1>7
  <2>2. realms' \in Seq(RealmRow) /\ AddsRows(realms, rs, realms')
    BY <2>1, CatAdds
  <2>3. \A i \in DOMAIN rs : nr + i \in DOMAIN realms' /\ realms'[nr + i] = rs[i]
    BY <2>2, <1>4 DEF AddsRows
  <2>4. \A r \in DOMAIN realms' : r \in DOMAIN realms \/ \E i \in DOMAIN rs : realms'[r] = rs[i]
    BY <2>2 DEF AddsRows
  <2>5. \A i \in DOMAIN rs : rs[i].callgent = c /\ rs[i].tenant = to /\ rs[i].live = TRUE
    BY <1>7
  <2>6. DOMAIN rs = DOMAIN pks
    BY <1>7
  <2> QED BY <2>2, <2>3, <2>4, <2>5, <2>6 DEF AddsRows
<1>9. \A secs \in Securities : Copied(secs, pks) =>
        /\ DupSecurities(secs, pks, nr) \in Securities
        /\ \A r \in UNION DupSecurities(secs, pks, nr) :
             r \in DOMAIN realms' /\ realms'[r].callgent = c /\ realms'[r].live
  BY <1>8, DupFacts DEF RefersLive
(* The entries. *)
<1>10. PICK es \in Seq(EntryRow) :
         /\ entries' = entries \o es /\ DOMAIN es = DOMAIN ens
         /\ \A i \in DOMAIN es : \E type, secs :
              /\ es[i] = NewEntry(c, to, type, secs)
              /\ RefersLive(secs, c)'
  <2>1. ASSUME NEW i \in DOMAIN ens
        PROVE  /\ ens[i][2].type \in EntryType /\ ens[i][2].secs \in Securities
               /\ Copied(ens[i][2].secs, pks)
    <3>1. ens[i] \in Pk \X EntryRow
      BY SeqFacts
    <3>2. ens[i][2] \in EntryRow
      BY <3>1
    <3> QED BY <3>2, <1>2, <1>5 DEF EntryRow
  <2>2. /\ NewEntries = [i \in DOMAIN ens |-> NewEntries[i]] /\ DOMAIN NewEntries = DOMAIN ens
        /\ \A i \in DOMAIN ens :
             NewEntries[i] = NewEntry(c, to, ens[i][2].type, DupSecurities(ens[i][2].secs, pks, nr))
    BY <1>2, <1>3, <1>4
  <2> HIDE DEF NewEntries
  <2>3. ASSUME NEW i \in DOMAIN ens
        PROVE  NewEntries[i] \in EntryRow
    <3>1. DupSecurities(ens[i][2].secs, pks, nr) \in Securities /\ ens[i][2].type \in EntryType
      BY <1>9, <2>1
    <3>2. PICK type \in EntryType, secs \in Securities : NewEntries[i] = NewEntry(c, to, type, secs)
      BY <3>1, <2>2
    <3> QED BY <3>2, NewRows
  <2>4. NewEntries \in Seq(EntryRow)
    <3>1. DOMAIN ens = 1..Len(ens) /\ Len(ens) \in Nat
      BY SeqFacts
    <3>2. NewEntries \in [1..Len(ens) -> EntryRow]
      BY <2>2, <2>3, <3>1
    <3> QED BY <3>1, <3>2, MadeSeq
  <2>5. ASSUME NEW i \in DOMAIN ens
        PROVE  \E type, secs :
                 /\ NewEntries[i] = NewEntry(c, to, type, secs)
                 /\ RefersLive(secs, c)'
    <3> DEFINE secs == DupSecurities(ens[i][2].secs, pks, nr)
    <3>1. RefersLive(secs, c)'
      BY <1>9, <2>1 DEF RefersLive
    <3>2. NewEntries[i] = NewEntry(c, to, ens[i][2].type, secs)
      BY <2>2
    <3> HIDE DEF secs
    <3> QED BY <3>1, <3>2
  <2> QED BY <1>5, <2>2, <2>4, <2>5
<1>11. /\ entries' \in Seq(EntryRow) /\ AddsTo(entries, entries')
       /\ \A i \in DOMAIN ens : ne + i \in DOMAIN entries' /\ entries'[ne + i] = es[i]
       /\ \A e \in DOMAIN entries' \ DOMAIN entries : \E i \in DOMAIN es : entries'[e] = es[i]
  <2>1. entries \in Seq(EntryRow) /\ entries' = entries \o es
    BY <1>1, <1>10
  <2>2. entries' \in Seq(EntryRow) /\ AddsRows(entries, es, entries')
    BY <2>1, CatAdds
  <2>3. DOMAIN es = DOMAIN ens
    BY <1>10
  <2> QED BY <2>2, <2>3, <1>4 DEF AddsRows
<1>12. ASSUME NEW i \in DOMAIN ens
       PROVE  /\ ne + i \in DOMAIN entries' /\ ne + i \in Pk
              /\ entries'[ne + i].callgent = c /\ entries'[ne + i].tenant = to
              /\ entries'[ne + i].live = TRUE
  <2>1. PICK type, secs : es[i] = NewEntry(c, to, type, secs)
    BY <1>10
  <2>2. ne + i \in DOMAIN entries' /\ entries'[ne + i] = NewEntry(c, to, type, secs)
    BY <2>1, <1>11
  <2>3. ne + i \in Pk
    BY <2>2, <1>11, SeqFacts
  <2> QED BY <2>2, <2>3 DEF NewEntry
(* The endpoints: in the copy of the entry each is in. *)
<1>13. ps \in Seq(P)
  <2>1. IsFiniteSet(P)
    BY <1>1, PartFinite
  <2> HIDE DEF P
  <2> QED BY <2>1, <1>5, InOrderFacts
<1>14. ASSUME NEW i \in DOMAIN ps
       PROVE  /\ endpoints[ps[i]].secs \in Securities /\ Copied(endpoints[ps[i]].secs, pks)
              /\ PosOf(Pks, endpoints[ps[i]].entry) \in DOMAIN ens
  <2>1. ps[i] \in P
    <3> HIDE DEF P
    <3> QED BY <1>13, SeqFacts
  <2>2. endpoints[ps[i]] \in EndpointRow
    BY <2>1, <1>1, SeqFacts
  <2>3. \E j \in DOMAIN Pks : Pks[j] = endpoints[ps[i]].entry
    BY <2>1
  <2>4. DOMAIN Pks = DOMAIN ens
    BY <1>2
  <2> HIDE DEF Pks, P
  <2>5. PosOf(Pks, endpoints[ps[i]].entry) \in DOMAIN ens
    BY <2>3, <2>4, PosOfFacts
  <2> QED BY <2>2, <2>5, <1>2, <1>5 DEF EndpointRow
<1>15. PICK qs \in Seq(EndpointRow) :
         /\ endpoints' = endpoints \o qs
         /\ \A i \in DOMAIN qs : \E j \in DOMAIN ens, secs \in Securities :
              /\ qs[i] = NewEndpoint(c, ne + j, to, secs)
              /\ RefersLive(secs, c)'
  <2> DEFINE N == NewEndpoints(ps)
             Entry(i) == PosOf(Pks, endpoints[ps[i]].entry)
             Secs(i) == DupSecurities(endpoints[ps[i]].secs, pks, nr)
  <2>1. /\ N = [i \in DOMAIN ps |-> N[i]] /\ DOMAIN N = DOMAIN ps
        /\ \A i \in DOMAIN ps : N[i] = NewEndpoint(c, ne + Entry(i), to, Secs(i))
    <3> HIDE DEF Pks
    <3> QED BY <1>2, <1>3, <1>4
  <2>2. \A i \in DOMAIN ps :
          /\ Entry(i) \in DOMAIN ens /\ Secs(i) \in Securities
          /\ \A r \in UNION Secs(i) :
               r \in DOMAIN realms' /\ realms'[r].callgent = c /\ realms'[r].live
    <3> HIDE DEF Pks
    <3> QED BY <1>9, <1>14
  <2>3. endpoints' = endpoints \o N
    BY <1>5
  <2> HIDE DEF N, NewEndpoints, Entry, Secs
  <2>4. ASSUME NEW i \in DOMAIN ps
        PROVE  N[i] \in EndpointRow
    <3>1. ne + Entry(i) \in Pk /\ Secs(i) \in Securities
      BY <2>2, <1>12
    <3> QED BY <3>1, <2>1, NewRows
  <2>5. N \in Seq(EndpointRow)
    <3> HIDE DEF P
    <3> QED BY <2>1, <2>4, <1>13, MadeFrom
  <2>6. ASSUME NEW i \in DOMAIN N
        PROVE  \E j \in DOMAIN ens, secs \in Securities :
                 /\ N[i] = NewEndpoint(c, ne + j, to, secs)
                 /\ RefersLive(secs, c)'
    <3>1. PICK secs \in Securities : secs = Secs(i)
      BY <2>1, <2>2
    <3>2. RefersLive(secs, c)'
      BY <3>1, <2>1, <2>2 DEF RefersLive
    <3>3. Entry(i) \in DOMAIN ens /\ N[i] = NewEndpoint(c, ne + Entry(i), to, secs)
      BY <3>1, <2>1, <2>2
    <3> QED BY <3>2, <3>3
  <2> QED BY <2>3, <2>5, <2>6
<1>16. /\ endpoints' \in Seq(EndpointRow) /\ AddsTo(endpoints, endpoints')
       /\ \A p \in DOMAIN endpoints' :
            p \in DOMAIN endpoints \/ \E i \in DOMAIN qs : endpoints'[p] = qs[i]
  <2>1. endpoints \in Seq(EndpointRow) /\ endpoints' = endpoints \o qs
    BY <1>1, <1>15
  <2>2. endpoints' \in Seq(EndpointRow) /\ AddsRows(endpoints, qs, endpoints')
    BY <2>1, CatAdds
  <2> QED BY <2>2 DEF AddsRows
<1>17. /\ RequestOK(a)' /\ work' \in [Admins -> Request]
       /\ \A b \in Admins : b # a => work'[b] = work[b]
  BY WorkDone DEF CopyWrite, IInv
<1>18. TypeOK'
  <2>1. requests' \in 0..MaxRequests
    BY DEF CopyWrite, IInv, TypeOK
  <2> QED BY <2>1, <1>6, <1>8, <1>11, <1>16, <1>17 DEF TypeOK
<1>19. /\ Grows
       /\ \A e \in DOMAIN entries : EntryKept(e)
       /\ \A p \in DOMAIN endpoints : EndpointKept(p)
  BY <1>6, <1>8, <1>11, <1>16, AddedRows
<1>20. callgents'[c].tenant = to /\ LiveOrHeld(callgents'[c].live, <<"callgent", c>>)
  BY <1>6 DEF LiveOrHeld
<1>21. ASSUME NEW e \in DOMAIN entries', e \notin DOMAIN entries
       PROVE  EntryOK(e)' /\ EntryByRace(e)
  <2>1. PICK i \in DOMAIN es : entries'[e] = es[i]
    BY <1>11, <1>21
  <2>2. PICK type, secs :
          /\ entries'[e] = NewEntry(c, to, type, secs)
          /\ RefersLive(secs, c)'
    BY <2>1, <1>10
  <2>3. c \in DOMAIN callgents'
    BY <1>6
  <2> QED BY <2>2, <2>3, <1>20, NewEntryOK
<1>22. ASSUME NEW p \in DOMAIN endpoints', p \notin DOMAIN endpoints
       PROVE  EndpointOK(p)' /\ EndpointByRace(p)
  <2>1. PICK i \in DOMAIN qs : endpoints'[p] = qs[i]
    BY <1>16, <1>22
  <2>2. PICK j \in DOMAIN ens, secs \in Securities :
          /\ endpoints'[p] = NewEndpoint(c, ne + j, to, secs)
          /\ RefersLive(secs, c)'
    <3>1. PICK j \in DOMAIN ens, secs \in Securities :
            /\ qs[i] = NewEndpoint(c, ne + j, to, secs)
            /\ RefersLive(secs, c)'
      BY <1>15
    <3> QED BY <2>1, <3>1
  <2>3. LiveOrHeld(entries'[ne + j].live, <<"entry", ne + j>>)
    BY <1>12 DEF LiveOrHeld
  <2>4. ne + j # 0 /\ c \in DOMAIN callgents'
    BY <1>6, <1>12 DEF Pk
  <2> QED BY <2>2, <2>3, <2>4, <1>12, <1>20, NewEndpointOK
<1>23. ASSUME NEW r \in DOMAIN realms', r \notin DOMAIN realms
       PROVE  RealmOK(r)'
  <2>1. realms'[r].callgent = c /\ realms'[r].tenant = to
    BY <1>8, <1>23
  <2>2. c \in DOMAIN callgents' /\ callgents'[c].tenant = to
    BY <1>6
  <2> QED BY <2>1, <2>2 DEF RealmOK
<1> QED BY <1>17, <1>18, <1>19, <1>21, <1>22, <1>23, Preserved

----------------------------------------------------------------------------
(* The theorems. *)

LEMMA InvInit == TreeInit => IInv
<1> SUFFICES ASSUME TreeInit PROVE IInv
  OBVIOUS
<1>1. TypeOK
  BY IdleTyped, TreeAssumption DEF TreeInit, TypeOK
<1>2. RowsOK
  BY DEF TreeInit, RowsOK
<1>3. \A a \in Admins : RequestOK(a)
  BY IdleTyped DEF TreeInit, RequestOK
<1> QED BY <1>1, <1>2, <1>3, ByRow

LEMMA InvNext ==
  ASSUME IInv, NEW a \in Admins, AdminNext(a)
  PROVE  IInv' /\ OnlyByRace
<1>1. CASE Fail(a)
  BY <1>1, FailStep
<1>2. CASE CreateCallgent(a)
  BY <1>2, CreateCallgentStep
<1>3. CASE \E c \in DOMAIN callgents : DeleteCallgent(a, c)
  BY <1>3, DeleteCallgentStep
<1>4. CASE \E c \in DOMAIN callgents : CheckCallgent(a, c)
  BY <1>4, CheckCallgentStep
<1>5. CASE \E type \in EntryType : CreateEntry(a, type)
  BY <1>5, CreateEntryStep
<1>6. CASE \E e \in DOMAIN entries : DeleteEntry(a, e)
  BY <1>6, DeleteEntryStep
<1>7. CASE \E e \in DOMAIN entries : CheckEntry(a, e)
  BY <1>7, CheckEntryStep
<1>8. CASE \E schemes \in SUBSET Keys :
             \E alternatives \in SUBSET ((SUBSET schemes) \ {{}}) :
               CreateBatch(a, schemes, alternatives)
  BY <1>8, CreateBatchStep
<1>9. CASE \E p \in DOMAIN endpoints : DeleteEndpoint(a, p)
  BY <1>9, DeleteEndpointStep
<1>10. CASE \E k \in Keys : CreateRealm(a, k)
  BY <1>10, CreateRealmStep
<1>11. CASE \E r \in DOMAIN realms : ReadRealm(a, r)
  BY <1>11, ReadRealmStep
<1>12. CASE \E k \in Keys : UpdateRealm(a, k)
  BY <1>12, UpdateRealmStep
<1>13. CASE \E r \in DOMAIN realms : DeleteRealm(a, r)
  BY <1>13, DeleteRealmStep
<1>14. CASE \E e \in DOMAIN entries : \E pks \in SUBSET (DOMAIN realms) :
              ReadEntrySecurities(a, e, pks)
  BY <1>14, ReadEntrySecuritiesStep
<1>15. CASE \E p \in DOMAIN endpoints : \E pks \in SUBSET (DOMAIN realms) :
              ReadEndpointSecurities(a, p, pks)
  BY <1>15, ReadEndpointSecuritiesStep
<1>16. CASE WriteSecurities(a)
  BY <1>16, WriteSecuritiesStep
<1>17. CASE \E c \in DOMAIN callgents, to \in Tenants : CopyRead(a, c, to)
  BY <1>17, CopyReadStep
<1>18. CASE CopyReadRealms(a)
  BY <1>18, CopyReadRealmsStep
<1>19. CASE CopyWrite(a)
  BY <1>19, CopyWriteStep
<1>20. CASE \E c \in {0} \cup DOMAIN callgents, e \in {0} \cup DOMAIN entries :
              CheckEdit(a, c, e)
  BY <1>20, CheckEditStep
<1>21. CASE \E p \in DOMAIN endpoints, columns \in (SUBSET Columns) \ {{}},
               pks \in SUBSET (1..MaxRealms) :
              UpdateEndpoint(a, p, columns, {{r} : r \in pks})
  BY <1>21, UpdateEndpointStep
<1> QED BY <1>1, <1>2, <1>3, <1>4, <1>5, <1>6, <1>7, <1>8, <1>9, <1>10, <1>11, <1>12, <1>13,
           <1>14, <1>15, <1>16, <1>17, <1>18, <1>19, <1>20, <1>21 DEF AdminNext

LEMMA InvStutter ==
  ASSUME IInv, UNCHANGED treeVars
  PROVE  IInv'
BY DEF treeVars, IInv, TypeOK, SecuritiesStayInCallgent, TreeInOneTenant, RequestOK, Refers

LEMMA Steps == IInv /\ [TreeNext]_treeVars => IInv' /\ [OnlyByRace]_treeVars
<1> SUFFICES ASSUME IInv, [TreeNext]_treeVars
             PROVE  IInv' /\ [OnlyByRace]_treeVars
  OBVIOUS
<1>1. CASE TreeNext
  BY <1>1, InvNext DEF TreeNext
<1>2. CASE UNCHANGED treeVars
  BY <1>2, InvStutter
<1> QED BY <1>1, <1>2

(* What the rows are and what the requests in flight hold is an invariant  *)
(* of any number of administrators: create(), delete(), createBatch(),     *)
(* update(), updateSecurities() and _duplicateCallgent() all keep it.      *)
THEOREM Invariance == Spec => []IInv
<1>1. TreeInit => IInv
  BY InvInit
<1>2. IInv /\ [TreeNext]_treeVars => IInv'
  BY Steps
<1> QED BY <1>1, <1>2, PTL DEF Spec

(* The tables and the requests in flight keep their types: no alternative  *)
(* of a security is ever empty, so that none opens what it guards.         *)
THEOREM TypeCorrect == Spec => []TypeOK
<1>1. IInv => TypeOK
  BY DEF IInv
<1> QED BY <1>1, Invariance, PTL

(* The securities of an entry or endpoint name realms of its own callgent, *)
(* after any edits, imports, and copies to and from the hub.               *)
THEOREM SecuritiesStay == Spec => []SecuritiesStayInCallgent
<1>1. IInv => SecuritiesStayInCallgent
  BY DEF IInv
<1> QED BY <1>1, Invariance, PTL

(* The rows of a callgent are in its tenant, and an endpoint is in the     *)
(* callgent of its entry, though a copy changes tenants as it goes.        *)
THEOREM OneTenant == Spec => []TreeInOneTenant
<1>1. IInv => TreeInOneTenant
  BY DEF IInv
<1> QED BY <1>1, Invariance, PTL

(* delete() of a callgent, entry, endpoint or realm leaves no reference to *)
(* it, and a copy brings none back: only a request that had read the row   *)
(* before it was deleted does.                                             *)
THEOREM DanglesOnlyByRace == Spec => DanglingOnlyByRace
<1>1. IInv /\ [TreeNext]_treeVars => [OnlyByRace]_treeVars
  BY Steps
<1> QED BY <1>1, Invariance, PTL DEF Spec, DanglingOnlyByRace

=============================================================================
