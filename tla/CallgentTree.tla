---------------------------- MODULE CallgentTree ----------------------------
(***************************************************************************)
(* The tree of a callgent: its entries, their endpoints, its security      *)
(* realms, and the securities of entries and endpoints, which refer to     *)
(* realms by primary key.                                                  *)
(*                                                                         *)
(* Administrators edit trees concurrently.  A request that reads in one    *)
(* statement or transaction and writes in another is in flight, in         *)
(* work[a], in between; what it read may be stale when it writes.  A whole *)
(* tree is copied to the hub, which is a tenant of its own, and back.      *)
(*                                                                         *)
(* Tables are sequences: the primary key is the index, and is never        *)
(* reused.  Entries and endpoints are deleted softly, realms for good;     *)
(* both are FALSE in the column live.  Securities are a set of             *)
(* alternatives, each a nonempty set of realms.  Names, summaries and all  *)
(* other texts are left out: what only a text can make fail (a name that   *)
(* is taken, a malformed request) is an in-flight request that fails.      *)
(*                                                                         *)
(* PUT /endpoints/:id stores whatever it is given in an endpoint, its      *)
(* callgentId, entryId and securities included.  The field edited of an    *)
(* endpoint, which is no column, is TRUE once that has happened.           *)
(***************************************************************************)
EXTENDS Naturals, Sequences, FiniteSets

CONSTANTS Admins,       \* logged-in users, one request at a time each
          Tenants, Hub, \* Hub: the tenant of the callgent hub
          TenantOf,     \* the tenant of an administrator
          Keys,         \* realm keys
          MaxCallgents, MaxEntries, MaxEndpoints, MaxRealms, MaxRequests  \* bounds

ASSUME TreeAssumption ==
  /\ Hub \in Tenants
  /\ TenantOf \in [Admins -> Tenants]
  /\ {MaxCallgents, MaxEntries, MaxEndpoints, MaxRealms, MaxRequests} \subseteq Nat

VARIABLES callgents, entries, endpoints, realms,  \* the tables
          work,      \* work[a]: the request of a in flight
          requests   \* requests begun

treeVars == <<callgents, entries, endpoints, realms, work, requests>>

Pk == Nat \ {0}
Securities == SUBSET ((SUBSET Pk) \ {{}})
EntryType == {"CLIENT", "SERVER"}

CallgentRow == [tenant : Tenants, live : BOOLEAN]
EntryRow == [callgent : Pk, tenant : Tenants, type : EntryType,
             secs : Securities, live : BOOLEAN]
EndpointRow == [callgent : Nat, entry : Nat, tenant : Tenants,  \* 0: an empty id
                secs : Securities, live : BOOLEAN, edited : BOOLEAN]
RealmRow == [callgent : Pk, tenant : Tenants, key : Keys, live : BOOLEAN]

Idle == [op |-> "idle"]
Request ==
  {Idle}
    \cup [op : {"create"}, callgent : Pk]
    \cup [op : {"import"}, entry : Pk]
    \cup [op : {"edit"}, callgent : Nat, entry : Nat]
    \cup [op : {"secure"}, table : {"entry", "endpoint"}, pk : Pk, secs : Securities]
    \cup [op : {"realm"}, callgent : Pk, old : RealmRow]
    \cup [op : {"copy"}, from : Pk, to : Tenants, ens : Seq(Pk \X EntryRow)]
    \cup [op : {"copyRealms"}, from : Pk, to : Tenants, ens : Seq(Pk \X EntryRow),
          pks : Seq(Pk), rows : Seq(RealmRow)]

TreeInit ==
  /\ callgents = << >> /\ entries = << >> /\ endpoints = << >> /\ realms = << >>
  /\ work = [a \in Admins |-> Idle]
  /\ requests = 0

----------------------------------------------------------------------------
(* Helpers.                                                                *)

(* The rows of a query in the order of their keys: the only sequence in it.*)
InOrder(S) == {s \in [1..Cardinality(S) -> S] :
                 /\ \A x \in S : \E i \in DOMAIN s : s[i] = x
                 /\ \A i, j \in DOMAIN s : i < j => s[i] < s[j]}

PosOf(s, x) == CHOOSE i \in DOMAIN s : s[i] = x

NewEntry(c, t, type, secs) ==
  [callgent |-> c, tenant |-> t, type |-> type, secs |-> secs, live |-> TRUE]
NewEndpoint(c, e, t, secs) ==
  [callgent |-> c, entry |-> e, tenant |-> t, secs |-> secs, live |-> TRUE,
   edited |-> FALSE]

(* constructRealm(): the scheme makes the key. *)
ConstructRealm(c, t, k) ==
  [callgent |-> c, tenant |-> t, key |-> k, live |-> TRUE]

(* CallgentRealm is found by (callgentId, realmKey), which is unique.      *)
RealmsOf(c) == {r \in DOMAIN realms : realms[r].live /\ realms[r].callgent = c}
RealmsAt(c, k) == {r \in RealmsOf(c) : realms[r].key = k}

(* What a request has read, and will use whatever becomes of it.           *)
Held(w) ==
  CASE w.op = "create" -> {<<"callgent", w.callgent>>}
    [] w.op = "import" -> {<<"entry", w.entry>>, <<"callgent", entries[w.entry].callgent>>}
    [] w.op = "edit" -> {<<"callgent", w.callgent>>, <<"entry", w.entry>>}
    [] w.op = "secure" -> {<<"realm", r>> : r \in UNION w.secs}
    [] OTHER -> {}
HeldByAny == UNION {Held(work[a]) : a \in Admins}

(* A request begins, of which there are MaxRequests. *)
Begin(a) ==
  /\ work[a] = Idle
  /\ requests < MaxRequests
  /\ requests' = requests + 1

Finish(a) == work' = [work EXCEPT ![a] = Idle]

(* An exception: the transaction of the request is rolled back.            *)
Fail(a) ==
  /\ work[a] # Idle
  /\ Finish(a)
  /\ UNCHANGED <<callgents, entries, endpoints, realms, requests>>

----------------------------------------------------------------------------
(* Callgents. *)

(* CallgentsService.create() with handleEvent() of CallgentCreatedListener,*)
(* which is awaited: the API and the Email client entries.                 *)
CreateCallgent(a) ==
  LET c == Len(callgents) + 1
      client == NewEntry(c, TenantOf[a], "CLIENT", {})
  IN  /\ Begin(a)
      /\ c <= MaxCallgents /\ Len(entries) + 2 <= MaxEntries
      /\ callgents' = Append(callgents, [tenant |-> TenantOf[a], live |-> TRUE])
      /\ entries' = entries \o <<client, client>>
      /\ UNCHANGED <<endpoints, realms, work>>

(* CallgentsService.delete(): by id, so also of a row already deleted, and *)
(* after any transaction that locked the row by updating it. Realms stay.  *)
DeleteCallgent(a, c) ==
  /\ Begin(a)
  /\ callgents[c].tenant = TenantOf[a]
  /\ \A b \in Admins : work[b].op \in {"copy", "copyRealms"} => work[b].from # c
  /\ callgents' = [callgents EXCEPT ![c].live = FALSE]
  /\ entries' = [e \in DOMAIN entries |->
                   [entries[e] EXCEPT !.live = @ /\ entries[e].callgent # c]]
  /\ endpoints' = [p \in DOMAIN endpoints |->
                     [endpoints[p] EXCEPT !.live = @ /\ endpoints[p].callgent # c]]
  /\ UNCHANGED <<realms, work>>

(* The validator of callgentId finds the callgent, before the request that *)
(* creates an entry or a realm in it begins its transaction.               *)
CheckCallgent(a, c) ==
  /\ Begin(a)
  /\ callgents[c].live /\ callgents[c].tenant = TenantOf[a]
  /\ work' = [work EXCEPT ![a] = [op |-> "create", callgent |-> c]]
  /\ UNCHANGED <<callgents, entries, endpoints, realms>>

----------------------------------------------------------------------------
(* Entries. *)

(* EntriesService.create() *)
CreateEntry(a, type) ==
  /\ work[a].op = "create"
  /\ Len(entries) < MaxEntries
  /\ entries' = Append(entries, NewEntry(work[a].callgent, TenantOf[a], type, {}))
  /\ Finish(a)
  /\ UNCHANGED <<callgents, endpoints, realms, requests>>

(* EntriesService.delete() *)
DeleteEntry(a, e) ==
  /\ Begin(a)
  /\ entries[e].tenant = TenantOf[a]
  /\ entries' = [entries EXCEPT ![e].live = FALSE]
  /\ endpoints' = [p \in DOMAIN endpoints |->
                     [endpoints[p] EXCEPT !.live = @ /\ endpoints[p].entry # e]]
  /\ UNCHANGED <<callgents, realms, work>>

----------------------------------------------------------------------------
(* Endpoints. *)

(* The validator of entryId reads the entry that the import goes on with,  *)
(* while the LLM converts the text of the API.                             *)
CheckEntry(a, e) ==
  /\ Begin(a)
  /\ entries[e].live /\ entries[e].tenant = TenantOf[a]
  /\ work' = [work EXCEPT ![a] = [op |-> "import", entry |-> e]]
  /\ UNCHANGED <<callgents, entries, endpoints, realms>>

(* The realm of a scheme, found by its key and renewed, which keeps the key *)
(* (whether that enables it is left out), or one of the new ones.          *)
RealmFor(c, newKeys, k) ==
  IF RealmsAt(c, k) = {} THEN Len(realms) + PosOf(newKeys, k)
  ELSE CHOOSE r \in RealmsAt(c, k) : TRUE

(* EndpointsService.createBatch() in one transaction: the realms of the    *)
(* finitely many schemes are found or created; then the endpoints are,     *)
(* guarded by alternatives of schemes. One endpoint stands for the batch.  *)
CreateBatch(a, schemes, alternatives) ==
  /\ work[a].op = "import"
  /\ entries[work[a].entry].type = "SERVER"
  /\ IsFiniteSet(schemes) /\ UNION alternatives \subseteq schemes
  /\ Len(endpoints) < MaxEndpoints
  /\ LET e == work[a].entry
         c == entries[e].callgent
         new == {k \in schemes : RealmsAt(c, k) = {}}
     IN  /\ Len(realms) + Cardinality(new) <= MaxRealms
         /\ \E keys \in {s \in [1..Cardinality(new) -> new] :
                            \A k \in new : \E i \in DOMAIN s : s[i] = k} :
              /\ realms' = realms \o [i \in DOMAIN keys |->
                                        ConstructRealm(c, TenantOf[a], keys[i])]
              /\ endpoints' = Append(endpoints, NewEndpoint(c, e, TenantOf[a],
                   {{RealmFor(c, keys, k) : k \in alt} : alt \in alternatives}))
  /\ Finish(a)
  /\ UNCHANGED <<callgents, entries, requests>>

(* EndpointsService.delete() *)
DeleteEndpoint(a, p) ==
  /\ Begin(a)
  /\ endpoints[p].tenant = TenantOf[a]
  /\ endpoints' = [endpoints EXCEPT ![p].live = FALSE]
  /\ UNCHANGED <<callgents, entries, realms, work>>

(* The validators of callgentId and entryId look each of them up on its    *)
(* own, of whatever type the entry is; an empty id they let pass.          *)
CheckEdit(a, c, e) ==
  /\ Begin(a)
  /\ c # 0 => callgents[c].live /\ callgents[c].tenant = TenantOf[a]
  /\ e # 0 => entries[e].live /\ entries[e].tenant = TenantOf[a]
  /\ work' = [work EXCEPT ![a] = [op |-> "edit", callgent |-> c, entry |-> e]]
  /\ UNCHANGED <<callgents, entries, endpoints, realms>>

(* What the request may set, with or without the rest. *)
Columns == {"callgent", "entry", "secs"}

(* EndpointsService.update(): by id, deleted or not, the columns that the  *)
(* request names; securities are not looked up.                            *)
UpdateEndpoint(a, p, columns, secs) ==
  /\ work[a].op = "edit"
  /\ endpoints[p].tenant = TenantOf[a]
  /\ endpoints' = [endpoints EXCEPT
       ![p].callgent = IF "callgent" \in columns THEN work[a].callgent ELSE @,
       ![p].entry = IF "entry" \in columns THEN work[a].entry ELSE @,
       ![p].secs = IF "secs" \in columns THEN secs ELSE @,
       ![p].edited = TRUE]
  /\ Finish(a)
  /\ UNCHANGED <<callgents, entries, realms, requests>>

----------------------------------------------------------------------------
(* Realms and securities. *)

(* CallgentRealmsService.create(); the key is unique in the callgent.      *)
CreateRealm(a, k) ==
  /\ work[a].op = "create"
  /\ Len(realms) < MaxRealms
  /\ RealmsAt(work[a].callgent, k) = {}
  /\ realms' = Append(realms, ConstructRealm(work[a].callgent, TenantOf[a], k))
  /\ Finish(a)
  /\ UNCHANGED <<callgents, entries, endpoints, requests>>

(* update() reads the row to merge the request into. *)
ReadRealm(a, r) ==
  /\ Begin(a)
  /\ realms[r].live /\ realms[r].tenant = TenantOf[a]
  /\ work' = [work EXCEPT ![a] = [op |-> "realm", callgent |-> realms[r].callgent,
                                  old |-> realms[r]]]
  /\ UNCHANGED <<callgents, entries, endpoints, realms>>

(* { ...old, ...dto } with realmKey refreshed: the request may replace the *)
(* scheme, which makes the key.                                            *)
Merged(old, k) == ConstructRealm(old.callgent, old.tenant, k)

(* The merged row is written to the row that has the old key now.          *)
UpdateRealm(a, k) ==
  /\ work[a].op = "realm"
  /\ LET old == work[a].old IN
     \E r \in RealmsAt(old.callgent, old.key) :
       /\ RealmsAt(old.callgent, k) \subseteq {r}
       /\ realms' = [realms EXCEPT ![r] = Merged(old, k)]
  /\ Finish(a)
  /\ UNCHANGED <<callgents, entries, endpoints, requests>>

(* faulty: an alternative that loses its last realm stays *)
WithoutOrEmpty(secs, r) == {alt \ {r} : alt \in secs}

(* The alternatives without realm r; one that loses its last realm goes.   *)
Without(secs, r) == {alt \ {r} : alt \in secs} \ {{}}

(* faulty: the securities of endpoints are not cleared *)
DeleteRealmOfEntries(a, r) ==
  /\ Begin(a) /\ realms[r].live /\ realms[r].tenant = TenantOf[a]
  /\ realms' = [realms EXCEPT ![r].live = FALSE]
  /\ entries' = [e \in DOMAIN entries |->
                   [entries[e] EXCEPT !.secs = Without(@, r)]]
  /\ UNCHANGED <<callgents, endpoints, work>>

(* CallgentRealmsService.delete() *)
DeleteRealm(a, r) ==
  /\ Begin(a)
  /\ realms[r].live /\ realms[r].tenant = TenantOf[a]
  /\ LET c == realms[r].callgent IN
       /\ entries' = [e \in DOMAIN entries |->
            IF entries[e].callgent = c
            THEN [entries[e] EXCEPT !.secs = Without(@, r)] ELSE entries[e]]
       /\ endpoints' = [p \in DOMAIN endpoints |->
            IF endpoints[p].callgent = c
            THEN [endpoints[p] EXCEPT !.secs = Without(@, r)] ELSE endpoints[p]]
  /\ realms' = [realms EXCEPT ![r].live = FALSE]
  /\ UNCHANGED <<callgents, work>>

(* CallgentRealmsService.updateSecurities() is not a transaction: it reads *)
(* the realms by their keys, one per alternative,                          *)
ReadSecurities(a, table, pk, c, pks) ==
  /\ Begin(a)
  /\ pks \subseteq RealmsOf(c)
  /\ work' = [work EXCEPT ![a] = [op |-> "secure", table |-> table, pk |-> pk,
                                  secs |-> {{r} : r \in pks}]]
  /\ UNCHANGED <<callgents, entries, endpoints, realms>>

ReadEntrySecurities(a, e, pks) ==
  /\ entries[e].live /\ entries[e].tenant = TenantOf[a]
  /\ ReadSecurities(a, "entry", e, entries[e].callgent, pks)

ReadEndpointSecurities(a, p, pks) ==
  LET e == endpoints[p].entry IN
  /\ endpoints[p].live /\ endpoints[p].tenant = TenantOf[a]
  /\ e # 0 /\ entries[e].live
  /\ ReadSecurities(a, "endpoint", p, entries[e].callgent, pks)

(* and stores the securities. *)
WriteSecurities(a) ==
  LET w == work[a] IN
  /\ w.op = "secure"
  /\ IF w.table = "entry"
     THEN /\ entries' = [entries EXCEPT ![w.pk].secs = w.secs]
          /\ UNCHANGED endpoints
     ELSE /\ endpoints' = [endpoints EXCEPT ![w.pk].secs = w.secs]
          /\ UNCHANGED entries
  /\ Finish(a)
  /\ UNCHANGED <<callgents, realms, requests>>

----------------------------------------------------------------------------
(* The hub: CallgentHubService._duplicateCallgent() in one transaction. It *)
(* sets the tenant for every statement: reads in one tenant, writes in the *)
(* other; nothing written is visible before it commits.                    *)

FromTenant(a, to) == IF to = Hub THEN TenantOf[a] ELSE Hub

(* commitToHub() or forkFromHub(): the callgent and its entries are read,  *)
(* by id, deleted or not; forked and viewed are incremented, which locks   *)
(* the row. Its forkedPk is not selected, so the refusal to commit a copy  *)
(* never happens.                                                          *)
CopyRead(a, c, to) ==
  /\ Begin(a)
  /\ to \in {Hub, TenantOf[a]}
  /\ callgents[c].tenant = FromTenant(a, to)
  /\ \A b \in Admins : work[b].op \in {"copy", "copyRealms"} => work[b].from # c
  /\ \E es \in InOrder({e \in DOMAIN entries :
                          /\ entries[e].live /\ entries[e].callgent = c
                          /\ entries[e].tenant = FromTenant(a, to)}) :
       work' = [work EXCEPT ![a] =
                  [op |-> "copy", from |-> c, to |-> to,
                   ens |-> [i \in DOMAIN es |-> <<es[i], entries[es[i]]>>]]]
  /\ UNCHANGED <<callgents, entries, endpoints, realms>>

(* The realms are read later. *)
CopyReadRealms(a) ==
  LET w == work[a] IN
  /\ w.op = "copy"
  /\ \E rs \in InOrder({r \in RealmsOf(w.from) : realms[r].tenant = FromTenant(a, w.to)}) :
       work' = [work EXCEPT ![a] =
                  [op |-> "copyRealms", from |-> w.from, to |-> w.to, ens |-> w.ens,
                   pks |-> rs, rows |-> [i \in DOMAIN rs |-> realms[rs[i]]]]]
  /\ UNCHANGED <<callgents, entries, endpoints, realms, requests>>

(* faulty: the references are copied like everything else *)
SameSecurities(secs, pks, n) == secs

(* dupSecurities(): the references to realms pks become references to      *)
(* their copies, which follow the n existing realms.                       *)
DupSecurities(secs, pks, n) ==
  {{n + PosOf(pks, r) : r \in alt} : alt \in secs}

(* realmMap[item.realmPk].pk throws for a realm that was not copied.       *)
Copied(secs, pks) == UNION secs \subseteq {pks[i] : i \in DOMAIN pks}

(* faulty: the copied realms keep the tenant they are read in *)
CopyRealmSameTenant(row, c, t) == ConstructRealm(c, row.tenant, row.key)

(* A realm is copied without its secret. *)
CopyRealm(row, c, t) == ConstructRealm(c, t, row.key)

(* The endpoints are read last, and everything is written.                 *)
CopyWrite(a) ==
  LET w == work[a]
      c == Len(callgents) + 1
      nr == Len(realms)
      ne == Len(entries)
      Pks == [i \in DOMAIN w.ens |-> w.ens[i][1]]
  IN
  /\ w.op = "copyRealms"
  /\ \E ps \in InOrder({p \in DOMAIN endpoints :
                          /\ endpoints[p].live
                          /\ endpoints[p].tenant = FromTenant(a, w.to)
                          /\ \E i \in DOMAIN Pks : Pks[i] = endpoints[p].entry}) :
       /\ c <= MaxCallgents /\ nr + Len(w.pks) <= MaxRealms
       /\ ne + Len(w.ens) <= MaxEntries /\ Len(endpoints) + Len(ps) <= MaxEndpoints
       /\ \A i \in DOMAIN w.ens : Copied(w.ens[i][2].secs, w.pks)
       /\ \A i \in DOMAIN ps : Copied(endpoints[ps[i]].secs, w.pks)
       /\ callgents' = Append(callgents, [tenant |-> w.to, live |-> TRUE])
       /\ realms' = realms \o [i \in DOMAIN w.pks |-> CopyRealm(w.rows[i], c, w.to)]
       /\ entries' = entries \o [i \in DOMAIN w.ens |->
            NewEntry(c, w.to, w.ens[i][2].type, DupSecurities(w.ens[i][2].secs, w.pks, nr))]
       /\ endpoints' = endpoints \o [i \in DOMAIN ps |->
            NewEndpoint(c, ne + PosOf(Pks, endpoints[ps[i]].entry), w.to,
                        DupSecurities(endpoints[ps[i]].secs, w.pks, nr))]
  /\ Finish(a)
  /\ UNCHANGED requests

----------------------------------------------------------------------------
AdminNext(a) ==
  \/ Fail(a)
  \/ CreateCallgent(a)
  \/ \E c \in DOMAIN callgents : DeleteCallgent(a, c)
  \/ \E c \in DOMAIN callgents : CheckCallgent(a, c)
  \/ \E type \in EntryType : CreateEntry(a, type)
  \/ \E e \in DOMAIN entries : DeleteEntry(a, e)
  \/ \E e \in DOMAIN entries : CheckEntry(a, e)
  \/ \E schemes \in SUBSET Keys : \E alternatives \in SUBSET ((SUBSET schemes) \ {{}}) :
       CreateBatch(a, schemes, alternatives)
  \/ \E p \in DOMAIN endpoints : DeleteEndpoint(a, p)
  \/ \E c \in {0} \cup DOMAIN callgents, e \in {0} \cup DOMAIN entries : CheckEdit(a, c, e)
  \/ \E p \in DOMAIN endpoints, columns \in (SUBSET Columns) \ {{}},
        pks \in SUBSET (1..MaxRealms) :
       UpdateEndpoint(a, p, columns, {{r} : r \in pks})
  \/ \E k \in Keys : CreateRealm(a, k)
  \/ \E r \in DOMAIN realms : ReadRealm(a, r)
  \/ \E k \in Keys : UpdateRealm(a, k)
  \/ \E r \in DOMAIN realms : DeleteRealm(a, r)
  \/ \E e \in DOMAIN entries : \E pks \in SUBSET (DOMAIN realms) :
       ReadEntrySecurities(a, e, pks)
  \/ \E p \in DOMAIN endpoints : \E pks \in SUBSET (DOMAIN realms) :
       ReadEndpointSecurities(a, p, pks)
  \/ WriteSecurities(a)
  \/ \E c \in DOMAIN callgents, to \in Tenants : CopyRead(a, c, to)
  \/ CopyReadRealms(a)
  \/ CopyWrite(a)

TreeNext == \E a \in Admins : AdminNext(a)

Spec == TreeInit /\ [][TreeNext]_treeVars

----------------------------------------------------------------------------
(* Properties.                                                             *)

(* Type correctness of the tables and of the requests in flight. *)
TypeOK ==
  /\ callgents \in Seq(CallgentRow)
  /\ entries \in Seq(EntryRow)
  /\ endpoints \in Seq(EndpointRow)
  /\ realms \in Seq(RealmRow)
  /\ work \in [Admins -> Request]
  /\ requests \in 0..MaxRequests

(* Refers(secs, c): every realm in secs is one of callgent c. *)
Refers(secs, c) ==
  \A r \in UNION secs : r \in DOMAIN realms /\ realms[r].callgent = c

(* An entry or endpoint is only guarded by realms of its own callgent,     *)
(* deleted ones included, whatever is copied, imported and guarded at once:*)
(* the securities of a copy name the copies of the realms, the copy of an  *)
(* endpoint included that PUT /endpoints/:id had edited.  Only the endpoint*)
(* that was itself edited so may be guarded by any realm, and be moved away*)
(* from its realms.                                                        *)
SecuritiesStayInCallgent ==
  /\ \A e \in DOMAIN entries : Refers(entries[e].secs, entries[e].callgent)
  /\ \A p \in DOMAIN endpoints :
       ~endpoints[p].edited => Refers(endpoints[p].secs, endpoints[p].callgent)

(* Everything in a callgent belongs to the tenant of the callgent, though  *)
(* _duplicateCallgent() changes the tenant of the request back and forth,  *)
(* and wherever PUT /endpoints/:id moves an endpoint; and an endpoint that *)
(* was not moved so is in the callgent of its entry.                       *)
TreeInOneTenant ==
  /\ \A e \in DOMAIN entries :
       /\ entries[e].callgent \in DOMAIN callgents
       /\ entries[e].tenant = callgents[entries[e].callgent].tenant
  /\ \A p \in DOMAIN endpoints :
       /\ endpoints[p].callgent # 0 =>
            /\ endpoints[p].callgent \in DOMAIN callgents
            /\ endpoints[p].tenant = callgents[endpoints[p].callgent].tenant
       /\ endpoints[p].entry # 0 =>
            /\ endpoints[p].entry \in DOMAIN entries
            /\ endpoints[p].tenant = entries[endpoints[p].entry].tenant
       /\ ~endpoints[p].edited =>
            /\ endpoints[p].entry # 0
            /\ endpoints[p].callgent = entries[endpoints[p].entry].callgent
  /\ \A r \in DOMAIN realms :
       /\ realms[r].callgent \in DOMAIN callgents
       /\ realms[r].tenant = callgents[realms[r].callgent].tenant

(* What a row refers to and is gone: the deleted realms of its securities, *)
(* and, unless it is deleted itself, its deleted callgent or entry.        *)
GoneRealms(secs) == {<<"realm", r>> : r \in {x \in UNION secs : ~realms[x].live}}

LostByEntry(e) ==
  GoneRealms(entries[e].secs)
    \cup IF entries[e].live /\ ~callgents[entries[e].callgent].live
         THEN {<<"callgent", entries[e].callgent>>} ELSE {}

(* Of what PUT /endpoints/:id stored, its callgent only: realms it may name*)
(* when they are gone, and an entry goes with a callgent it is not in.     *)
LostByEndpoint(p) ==
  (IF endpoints[p].edited THEN {} ELSE GoneRealms(endpoints[p].secs))
    \cup (IF ~endpoints[p].edited /\ endpoints[p].live /\ ~entries[endpoints[p].entry].live
          THEN {<<"entry", endpoints[p].entry>>} ELSE {})
    \cup (IF endpoints[p].live /\ endpoints[p].callgent # 0
               /\ ~callgents[endpoints[p].callgent].live
          THEN {<<"callgent", endpoints[p].callgent>>} ELSE {})

(* What an entry or endpoint refers to and is gone after a step was so     *)
(* before it, or a request in flight had read it.                          *)
OnlyByRace ==
  /\ \A e \in DOMAIN entries' : \A y \in LostByEntry(e)' :
       y \in HeldByAny \/ (e \in DOMAIN entries /\ y \in LostByEntry(e))
  /\ \A p \in DOMAIN endpoints' : \A y \in LostByEndpoint(p)' :
       y \in HeldByAny \/ (p \in DOMAIN endpoints /\ y \in LostByEndpoint(p))

(* Deletions leave nothing behind that refers to what they deleted, and    *)
(* copies bring nothing back: a step only makes something dangle when a    *)
(* request in flight had read, before, the row that is gone.               *)
DanglingOnlyByRace == [][OnlyByRace]_treeVars

(* What a request in flight has read still places what it will write: rows *)
(* stay where they are for good, even deleted ones.                        *)
RequestOK(a) ==
  LET w == work[a] IN
  /\ w.op = "create" =>
       /\ w.callgent \in DOMAIN callgents
       /\ callgents[w.callgent].tenant = TenantOf[a]
  /\ w.op = "import" =>
       /\ w.entry \in DOMAIN entries
       /\ entries[w.entry].tenant = TenantOf[a]
  /\ w.op = "edit" =>
       /\ w.callgent # 0 => /\ w.callgent \in DOMAIN callgents
                            /\ callgents[w.callgent].tenant = TenantOf[a]
       /\ w.entry # 0 => /\ w.entry \in DOMAIN entries
                         /\ entries[w.entry].tenant = TenantOf[a]
  /\ w.op = "secure" /\ w.table = "entry" =>
       w.pk \in DOMAIN entries /\ Refers(w.secs, entries[w.pk].callgent)
  /\ w.op = "secure" /\ w.table = "endpoint" =>
       /\ w.pk \in DOMAIN endpoints
       /\ ~endpoints[w.pk].edited => Refers(w.secs, endpoints[w.pk].callgent)
  /\ w.op = "realm" =>
       /\ w.old.callgent \in DOMAIN callgents
       /\ w.old.tenant = callgents[w.old.callgent].tenant
  /\ w.op = "copyRealms" => DOMAIN w.rows = DOMAIN w.pks

(* The inductive invariant: with the two properties above, what the        *)
(* requests in flight hold.                                                *)
IInv ==
  /\ TypeOK
  /\ SecuritiesStayInCallgent
  /\ TreeInOneTenant
  /\ \A a \in Admins : RequestOK(a)

=============================================================================
