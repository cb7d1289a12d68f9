----------------------------- MODULE SepInvoke -----------------------------
(***************************************************************************)
(* Requests that call one service endpoint (SEP) directly, through the     *)
(* processor chain of InvokeSepService and the response cache of           *)
(* CachedService, all of them with the same cache key.                     *)
(*                                                                         *)
(* Every request is an event: it may be stored as pending and be resumed,  *)
(* by a callback or by the response an observed promise resolves to.  Each *)
(* run has a transaction and a copy of the event of its own; resume() only *)
(* asks whether the committed event is pending, so that several runs may   *)
(* work on one event and the last to commit overwrites it.  Transactions   *)
(* isolate at read committed: a run reads the committed cache row or its   *)
(* own version of it, and a writer of the row waits until the transaction  *)
(* of another writer ends.                                                 *)
(***************************************************************************)
EXTENDS Naturals

CONSTANTS Requests,   \* ids of the request events
          Runs,       \* runs of _invokeListeners that may be in memory
          EventOf,    \* the event each of them works on
          Endpoints,  \* the kinds of endpoint considered
          Restarts,   \* whether the server process may be restarted
          None        \* null

ASSUME SepAssumption ==
  /\ Endpoints \subseteq [isAsync : BOOLEAN, cacheTtl : BOOLEAN,
                          cacheKey : BOOLEAN]
  /\ EventOf \in [Runs -> Requests]
  /\ Restarts \in BOOLEAN
  /\ None \notin Requests /\ "pending" \notin Requests
  /\ None \notin Runs

VARIABLES endpoint,  \* EndpointDto; cacheTtl: it is > 0, cacheKey: there is one
          cached,    \* committed row of the cache key
          writer,    \* run whose transaction has written the row, or None
          draft,     \* the row as that transaction will commit it
          aged,      \* rows (by pk) older than their cacheTtl
          event,     \* committed request events
          run,       \* the runs in memory
          notices,   \* resume() calls started by notifyObservers()
          calls,     \* history: number of SEP calls each request made
          checked,   \* history: requests that passed checkSepAuth()
          raced      \* history: events resumed while a run was at work on them

vars == <<endpoint, cached, writer, draft, aged, event, run, notices,
          calls, checked, raced>>

(* A response: data obtained by a request, named by it, or a promise. *)
Response == Requests \cup {"pending"}

(* A request creates at most one row, so sourceId also stands for the pk. *)
Row == [sourceId : Requests, response : Response, invokeKeys : SUBSET Requests]
NoRow == [sourceId |-> None, response |-> "pending", invokeKeys |-> {}]
RowOrNone == Row \cup {NoRow}

(* at: context.invocations[''].processor.name of a pending event, "ended"  *)
(* when the processor has no name any more.                                *)
At == {"none", "ended", "InvokeAuth", "InvokeCached", "CallbackPostprocess"}
Event == [status : {"new", "pending", "done", "error", "lost"},
          at : At, resp : Response \cup {None}]

Processor == {"InvokeAuth", "InvokeCached", "InvokeSep", "InvokePostprocess",
              "InvokeCache", "CallbackPostprocess", "InvokeCallback"}
Run == [pc : Processor \cup {"idle", "dropping", "observing", "updating",
                             "ending"},
        resumed : BOOLEAN,
        seen : RowOrNone,                \* what findOne() returned
        preData : Response \cup {None},
        out : Event]                     \* what the transaction will store
Idle == [pc |-> "idle", resumed |-> FALSE, seen |-> NoRow, preData |-> None,
         out |-> [status |-> "error", at |-> "none", resp |-> None]]

Init ==
  /\ endpoint \in Endpoints
  /\ cached = NoRow
  /\ writer = None
  /\ draft = NoRow
  /\ aged = {}
  /\ event = [q \in Requests |-> [status |-> "new", at |-> "none",
                                  resp |-> None]]
  /\ run = [r \in Runs |-> Idle]
  /\ notices = {}
  /\ calls = [q \in Requests |-> 0]
  /\ checked = {}
  /\ raced = {}

----------------------------------------------------------------------------
(* CachedService *)

_reallyCache == endpoint.cacheKey /\ (endpoint.isAsync \/ endpoint.cacheTtl)

(* The row lock, or the entry of the unique index, is free for r. *)
CanWrite(r) == writer \in {None, r}

(* The row as the transaction of r sees it. *)
View(r) == IF writer = r THEN draft ELSE cached

WriteRow(r, row) == writer' = r /\ draft' = row

(* Without a TTL a cached promise lives until it is resolved. *)
Expired(c) ==
  IF endpoint.cacheTtl THEN c.sourceId \in aged
  ELSE IF endpoint.isAsync THEN c.response # "pending"
  ELSE TRUE

----------------------------------------------------------------------------
(* How a processor leaves the chain. *)

MovesTo(c, p) == [c EXCEPT !.pc = p]

Ends(status, at, resp) ==
  [Idle EXCEPT !.pc = "ending",
               !.out = [status |-> status, at |-> at, resp |-> resp]]

Throws == Ends("error", "none", None)

Becomes(r, c) == run' = [run EXCEPT ![r] = c]

Working(q) == \E r \in Runs : EventOf[r] = q /\ run[r].pc # "idle"

(* A step of the chain that writes nothing. *)
Quiet == UNCHANGED <<endpoint, cached, writer, draft, aged, event, notices, raced>>

Start(r) ==
  /\ event[EventOf[r]].status = "new"
  /\ ~Working(EventOf[r])
  /\ Becomes(r, MovesTo(Idle, "InvokeAuth"))
  /\ Quiet /\ UNCHANGED <<calls, checked>>

(* SepAuthProcessor, first entered: checkSepAuth(endpoint, reqEvent). *)
PendsInAuth == Ends("pending", "InvokeAuth", None)

AuthPasses(r) ==
  /\ run[r].pc = "InvokeAuth"
  /\ ~run[r].resumed
  /\ Becomes(r, MovesTo(run[r], "InvokeCached"))
  /\ checked' = checked \cup {EventOf[r]}
  /\ Quiet /\ UNCHANGED calls

AuthPends(r) ==
  /\ run[r].pc = "InvokeAuth"
  /\ ~run[r].resumed
  /\ Becomes(r, PendsInAuth)
  /\ Quiet /\ UNCHANGED <<calls, checked>>

(* Not authorized; or, resumed: processor.ctx names a method whose only    *)
(* parameter is the event, and which is called with (endpoint, reqEvent).  *)
AuthThrows(r) ==
  /\ run[r].pc = "InvokeAuth"
  /\ Becomes(r, Throws)
  /\ Quiet /\ UNCHANGED <<calls, checked>>

(* SepCachedProcessor: fromCached() up to its write. *)
AfterReadNoPromise(c, row) ==   \* faulty: a promise is returned as data
  IF ~_reallyCache \/ row = NoRow THEN MovesTo(c, "InvokeSep")
  ELSE IF Expired(row) THEN [MovesTo(c, "dropping") EXCEPT !.seen = row]
  ELSE Ends("done", "none", row.response)

AfterReadPolls(c, row) ==   \* faulty: a promise is waited for in the run
  IF ~_reallyCache \/ row = NoRow THEN MovesTo(c, "InvokeSep")
  ELSE IF Expired(row) THEN [MovesTo(c, "dropping") EXCEPT !.seen = row]
  ELSE IF endpoint.isAsync /\ row.response = "pending" THEN c
  ELSE Ends("done", "none", row.response)

AfterRead(c, row) ==
  IF ~_reallyCache \/ row = NoRow THEN MovesTo(c, "InvokeSep")
  ELSE IF Expired(row) THEN [MovesTo(c, "dropping") EXCEPT !.seen = row]
  ELSE IF endpoint.isAsync /\ row.response = "pending"
       THEN [MovesTo(c, "observing") EXCEPT !.seen = row]
  ELSE Ends("done", "none", row.response)

FromCached(r) ==
  /\ run[r].pc = "InvokeCached"
  /\ Becomes(r, AfterRead(run[r], cached))
  /\ Quiet /\ UNCHANGED <<calls, checked>>

(* delete({ pk }), then the endpoint is called as if there was no row. *)
DropExpired(r) ==
  /\ run[r].pc = "dropping"
  /\ CanWrite(r)
  /\ IF cached.sourceId = run[r].seen.sourceId
     THEN /\ WriteRow(r, NoRow)
          /\ Becomes(r, MovesTo(Idle, "InvokeSep"))
     ELSE /\ Becomes(r, Throws)   \* record to delete does not exist
          /\ UNCHANGED <<writer, draft>>
  /\ UNCHANGED <<endpoint, cached, aged, event, notices, calls, checked, raced>>

(* addObserver(); the chain ends, the event waits for notifyObservers(). *)
AddObserverAtOnce(r) ==   \* faulty: in a transaction of its own
  /\ run[r].pc = "observing"
  /\ writer = None
  /\ cached.sourceId = run[r].seen.sourceId
  /\ cached' = [cached EXCEPT !.invokeKeys = @ \cup {EventOf[r]}]
  /\ Becomes(r, Ends("pending", "ended", None))
  /\ UNCHANGED <<endpoint, writer, draft, aged, event, notices, calls, checked,
                 raced>>

AddObserver(r) ==
  /\ run[r].pc = "observing"
  /\ CanWrite(r)
  /\ IF cached.sourceId = run[r].seen.sourceId
     THEN /\ WriteRow(r, [cached EXCEPT !.invokeKeys = @ \cup {EventOf[r]}])
          /\ Becomes(r, Ends("pending", "ended", None))
     ELSE /\ Becomes(r, Throws)   \* record to update not found
          /\ UNCHANGED <<writer, draft>>
  /\ UNCHANGED <<endpoint, cached, aged, event, notices, calls, checked, raced>>

(* SepInvokeProcessor: adaptor.invoke() answers, promises or throws. *)
InvokeResults(q) == {q} \cup (IF endpoint.isAsync THEN {"pending"} ELSE {})

InvokeSep(r) ==
  /\ run[r].pc = "InvokeSep"
  /\ \E d \in InvokeResults(EventOf[r]) :
       Becomes(r, [MovesTo(run[r], "InvokePostprocess") EXCEPT !.preData = d])
  /\ calls' = [calls EXCEPT ![EventOf[r]] = @ + 1]
  /\ Quiet /\ UNCHANGED checked

InvokeSepThrows(r) ==
  /\ run[r].pc = "InvokeSep"
  /\ Becomes(r, Throws)
  /\ calls' = [calls EXCEPT ![EventOf[r]] = @ + 1]
  /\ Quiet /\ UNCHANGED checked

(* SepPostprocessProcessor; adaptor.postprocess() of data may throw. *)
Postprocess(r, next) ==
  /\ \/ Becomes(r, MovesTo(run[r], next))
     \/ run[r].preData # "pending" /\ Becomes(r, Throws)
  /\ Quiet /\ UNCHANGED <<calls, checked>>

InvokePostprocess(r) ==
  run[r].pc = "InvokePostprocess" /\ Postprocess(r, "InvokeCache")

(* SepCacheProcessor: break for a promise, end for data; toCache().        *)
AfterCache(c) ==
  IF c.preData = "pending"
  THEN Ends("pending", "CallbackPostprocess", None)
  ELSE Ends("done", "none", c.preData)

NewRow(r) ==
  [sourceId |-> EventOf[r], response |-> run[r].preData, invokeKeys |-> {}]

ToCacheAtOnce(r) ==   \* faulty: in a transaction of its own
  /\ run[r].pc = "InvokeCache"
  /\ IF _reallyCache /\ writer = None /\ cached = NoRow
     THEN cached' = NewRow(r)
     ELSE UNCHANGED cached
  /\ Becomes(r, AfterCache(run[r]))
  /\ UNCHANGED <<endpoint, writer, draft, aged, event, notices, calls, checked,
                 raced>>

ToCache(r) ==
  /\ run[r].pc = "InvokeCache"
  /\ IF _reallyCache
     THEN /\ CanWrite(r)
          /\ View(r) = NoRow
          /\ WriteRow(r, NewRow(r))
     ELSE UNCHANGED <<writer, draft>>
  /\ Becomes(r, AfterCache(run[r]))
  /\ UNCHANGED <<endpoint, cached, aged, event, notices, calls, checked, raced>>

(* SepCallbackPostprocessProcessor *)
CallbackPostprocess(r) ==
  run[r].pc = "CallbackPostprocess" /\ Postprocess(r, "InvokeCallback")

(* invokeSEPsCallback() stores the response and returns nothing, and       *)
(* _handleResult() reads result.statusCode: the listener throws after all. *)
CallbackDone(resp) == Ends("error", "none", resp)

(* SepCallbackProcessor: updateCache() up to its write. *)
InvokeCallback(r) ==
  /\ run[r].pc = "InvokeCallback"
  /\ Becomes(r, IF _reallyCache /\ cached # NoRow
                THEN [MovesTo(run[r], "updating") EXCEPT !.seen = cached]
                ELSE CallbackDone(run[r].preData))
  /\ Quiet /\ UNCHANGED <<calls, checked>>

(* update(pk, response), then notifyObservers() is started for the keys    *)
(* read before, without waiting for it or for the commit.                  *)
UpdateCache(r) ==
  /\ run[r].pc = "updating"
  /\ CanWrite(r)
  /\ IF cached.sourceId = run[r].seen.sourceId
     THEN /\ WriteRow(r, [cached EXCEPT !.response = EventOf[r]])
          /\ notices' = notices \cup
               {[to |-> o, data |-> EventOf[r]] : o \in run[r].seen.invokeKeys}
          /\ Becomes(r, CallbackDone(run[r].preData))
     ELSE /\ Becomes(r, Throws)
          /\ UNCHANGED <<writer, draft, notices>>
  /\ UNCHANGED <<endpoint, cached, aged, event, calls, checked, raced>>

----------------------------------------------------------------------------
(* The event around the chain. *)

(* The transactions of the runs in S end. *)
Release(S) ==
  IF writer \in S THEN writer' = None /\ draft' = NoRow
                  ELSE UNCHANGED <<writer, draft>>

Commit(r) ==
  /\ run[r].pc = "ending"
  /\ cached' = View(r)
  /\ Release({r})
  /\ event' = [event EXCEPT ![EventOf[r]] = run[r].out]
  /\ run' = [run EXCEPT ![r] = Idle]
  /\ UNCHANGED <<endpoint, aged, notices, calls, checked, raced>>

(* resume(): the chain goes on at the stored processor with the response.  *)
ResumedAfresh(at, data) ==   \* faulty: the processor is not stored
  [MovesTo(Idle, "InvokeAuth") EXCEPT !.preData = data]

Resumed(at, data) ==
  [Idle EXCEPT !.pc = at, !.resumed = TRUE, !.preData = data]

(* Faulty: only an event that is done is refused. *)
ResumableUnlessDone(q) == event[q].status \in {"pending", "error"}
Resumable(q) == event[q].status = "pending"

(* The run starts from what is committed, whoever works on the event.      *)
Races(q) == raced' = IF Working(q) THEN raced \cup {q} ELSE raced

ResumeCallback(r) ==
  LET q == EventOf[r]
  IN  /\ Resumable(q)
      /\ event[q].at # "ended"
      /\ run[r].pc = "idle"
      /\ Becomes(r, Resumed(event[q].at, q))
      /\ Races(q)
      /\ UNCHANGED <<endpoint, cached, writer, draft, aged, event, notices,
                     calls, checked>>

(* A started resume() of an observer is refused when its event is not      *)
(* pending; else the ended chain returns the response as it is.            *)
Notify(n) ==
  /\ n \in notices
  /\ notices' = notices \ {n}
  /\ \/ /\ Resumable(n.to)
        /\ \E r \in Runs : /\ EventOf[r] = n.to
                           /\ run[r].pc = "idle"
                           /\ Becomes(r, CallbackDone(n.data))
        /\ Races(n.to)
     \/ ~Resumable(n.to) /\ UNCHANGED <<run, raced>>
  /\ UNCHANGED <<endpoint, cached, writer, draft, aged, event, calls, checked>>

(* The transactions of the runs in S are rolled back; a new event is lost. *)
RolledBack(S) ==
  /\ run' = [r \in Runs |-> IF r \in S THEN Idle ELSE run[r]]
  /\ Release(S)
  /\ event' = [q \in Requests |->
                 IF event[q].status = "new"
                    /\ \E r \in S : EventOf[r] = q /\ run[r].pc # "idle"
                 THEN [event[q] EXCEPT !.status = "lost"] ELSE event[q]]
  /\ UNCHANGED <<endpoint, cached, aged, calls, checked, raced>>

Abort(r) == run[r].pc # "idle" /\ RolledBack({r}) /\ UNCHANGED notices

(* toCache() meets a row committed since: the unique constraint fails, and *)
(* with it the transaction.                                                *)
SaveConflicts(r) ==
  /\ run[r].pc = "InvokeCache"
  /\ _reallyCache
  /\ CanWrite(r)
  /\ View(r) # NoRow
  /\ RolledBack({r})
  /\ UNCHANGED notices

Restart ==
  /\ Restarts
  /\ notices # {} \/ \E r \in Runs : run[r].pc # "idle"
  /\ RolledBack(Runs)
  /\ notices' = {}

Expire ==
  /\ endpoint.cacheTtl
  /\ cached # NoRow
  /\ cached.sourceId \notin aged
  /\ aged' = aged \cup {cached.sourceId}
  /\ UNCHANGED <<endpoint, cached, writer, draft, event, run, notices, calls,
                 checked, raced>>

ChainStep(r) ==
  \/ AuthPasses(r) \/ AuthPends(r) \/ AuthThrows(r)
  \/ FromCached(r) \/ DropExpired(r) \/ AddObserver(r)
  \/ InvokeSep(r) \/ InvokeSepThrows(r) \/ InvokePostprocess(r)
  \/ ToCache(r) \/ SaveConflicts(r)
  \/ CallbackPostprocess(r) \/ InvokeCallback(r) \/ UpdateCache(r)
  \/ Commit(r)

Notice == [to : Requests, data : Requests]

Next ==
  \/ \E r \in Runs :
       Start(r) \/ ChainStep(r) \/ ResumeCallback(r) \/ Abort(r)
  \/ \E n \in Notice : Notify(n)
  \/ Restart
  \/ Expire

Spec == Init /\ [][Next]_vars

(* Ready continuations run, an endpoint call settles, a started resume()   *)
(* goes on, and the database serves the waiters for a row lock in turn     *)
(* (the strong fairness); callbacks, aborts and expiry are never owed.     *)
FairSpec ==
  /\ Spec
  /\ \A r \in Runs : SF_vars(ChainStep(r))
  /\ \A n \in Notice : WF_vars(Notify(n))

----------------------------------------------------------------------------
(* Properties. *)

TypeOK ==
  /\ endpoint \in Endpoints
  /\ cached \in RowOrNone /\ draft \in RowOrNone
  /\ writer \in Runs \cup {None}
  /\ aged \subseteq Requests
  /\ event \in [Requests -> Event]
  /\ run \in [Runs -> Run]
  /\ notices \subseteq Notice
  /\ calls \in [Requests -> Nat]
  /\ checked \subseteq Requests /\ raced \subseteq Requests

(* The event d still stores the response d, or has lost it to another run  *)
(* of its own that was resumed beside the one that stored it and failed.   *)
Kept(d) == \/ event[d].resp = d
           \/ event[d].status = "error" /\ d \in raced

(* The cache and the events tell the same story, whatever was rolled back: *)
(* cached data is the stored response of an event that obtained it, and a  *)
(* cached promise is that of an event still waiting, or failed since.  Two *)
(* callbacks of one event are the only way for its response to be lost.    *)
RowAndEventAgree ==
  cached # NoRow =>
    IF cached.response = "pending"
    THEN LET source == event[cached.sourceId]
         IN  \/ source.status = "pending" /\ source.at = "CallbackPostprocess"
             \/ source.status = "error" /\ source.resp = None
    ELSE Kept(cached.response)

(* A request reported done carries data, never a promise, and data that a  *)
(* single call of the endpoint has obtained, for an event that keeps it.   *)
DoneHasCommittedData ==
  \A q \in Requests :
    event[q].status = "done" =>
      /\ event[q].resp \in Requests
      /\ Kept(event[q].resp)
      /\ calls[event[q].resp] = 1

(* A key in the row belongs to an event stored as pending before, so that  *)
(* the resume() fired for it while the source is uncommitted finds it.     *)
Stored(o) == \/ event[o].status = "pending" /\ event[o].at = "ended"
             \/ event[o].status = "error" /\ event[o].resp \notin {None, o}
ObserversAreStored == \A o \in cached.invokeKeys : Stored(o)

(* Suspensions, rollbacks and restarts never make one request call the     *)
(* endpoint twice, nor at all before its check has passed.                 *)
CalledOnceIfChecked ==
  \A q \in Requests : calls[q] <= 1 /\ (calls[q] = 1 => q \in checked)

(* Every run ends, the ones that wait for the lock of the row included.    *)
RunsEnd == \A r \in Runs : run[r].pc # "idle" ~> run[r].pc = "idle"

(* "when resolved, cache will be updated and callers being informed": an   *)
(* observer that waits is in the row of a promise, or about to be told.    *)
ObserversInformed ==
  \A o \in Requests :
    event[o].status = "pending" /\ event[o].at = "ended" =>
      \/ cached.response = "pending" /\ o \in cached.invokeKeys
      \/ \E n \in notices : n.to = o
      \/ Working(o)

(* Each request is an event of the bus.  A run of the chain is a claim on  *)
(* it; an event whose transaction was rolled back has left no row.         *)
OutcomeOf(q) == IF event[q].status \in {"new", "lost"} THEN "absent"
                ELSE event[q].status
ClaimOf(r) == IF run[r].pc # "idle" THEN EventOf[r] ELSE None

Contract == INSTANCE EventContract WITH
  Events <- Requests,
  outcome <- [q \in Requests |-> OutcomeOf(q)],
  claim <- [r \in Runs |-> ClaimOf(r)],
  accepted <- {q \in Requests : event[q].status # "new" \/ Working(q)}

(* What the bus promises of its events holds of these, whatever is cached: *)
(* neither a callback nor a response announced to an observer, however     *)
(* late or repeated, takes up or changes an event that is settled.         *)
ImplementsContract == Contract!Spec

----------------------------------------------------------------------------
(* The inductive invariant of SepInvokeProofs. *)

(* What a stored event says of the calls made for it. *)
EventOK(q) ==
  /\ event[q].status = "new" /\ ~Working(q) => calls[q] = 0
  /\ event[q].status = "pending" =>
       event[q].at \in {"InvokeAuth", "ended", "CallbackPostprocess"}
  /\ event[q].status = "pending" /\ event[q].at = "CallbackPostprocess" =>
       calls[q] = 1
  /\ event[q].resp # None => event[q].status \in {"done", "error"}
  /\ event[q].resp = q => calls[q] = 1

(* Outcomes: a new event may become anything but done without data.  One   *)
(* resumed only fails: an observer with the response it was told, another  *)
(* without a response or with its own, and then no promise of it is left.  *)
OutOK(r) ==
  LET q == EventOf[r]
      out == run[r].out
  IN  /\ out.status \in {"pending", "done", "error"}
      /\ out.status # "error" => event[q].status = "new"
      /\ out.status = "pending" =>
           /\ out.at \in {"InvokeAuth", "ended", "CallbackPostprocess"}
           /\ out.resp = None
           /\ out.at = "CallbackPostprocess" => calls[q] = 1
      /\ out.status = "done" =>
           /\ out.resp \in Requests /\ calls[out.resp] = 1
           /\ out.resp = q \/ Kept(out.resp)
      /\ out.resp = q => calls[q] = 1
      /\ Stored(q) => out.resp \notin {None, q}
      /\ event[q].status # "new" /\ ~Stored(q) => out.resp \in {None, q}
      /\ event[q].status # "new" /\ out.resp = q =>
           writer = r \/ cached.sourceId # q

(* A run, by its stage. *)
RunOK(r) ==
  LET q == EventOf[r]
      c == run[r]
      fresh == event[q].status = "new"
  IN  /\ c.pc # "idle" => \/ event[q].status \in {"new", "pending"}
                          \/ event[q].status = "error" /\ q \in raced
      /\ c.pc = "InvokeAuth" =>
           IF c.resumed THEN ~fresh /\ ~Stored(q) ELSE fresh /\ calls[q] = 0
      /\ c.pc \in {"InvokeCached", "dropping", "observing", "InvokeSep"} =>
           fresh /\ calls[q] = 0 /\ q \in checked
      /\ c.pc \in {"dropping", "observing", "updating"} =>
           _reallyCache /\ c.seen # NoRow
      /\ c.pc \in {"InvokePostprocess", "InvokeCache"} =>
           /\ fresh /\ calls[q] = 1
           /\ c.preData = q \/ (c.preData = "pending" /\ endpoint.isAsync)
      /\ c.pc \in {"CallbackPostprocess", "InvokeCallback", "updating"} =>
           ~fresh /\ ~Stored(q) /\ calls[q] = 1 /\ c.preData = q
      /\ c.pc = "updating" => \A o \in c.seen.invokeKeys : Stored(o)
      /\ c.pc = "ending" => OutOK(r)

(* Two runs of one event: it is not new, and a response of it may be lost. *)
RacesKnown ==
  \A r, s \in Runs :
    r # s /\ EventOf[r] = EventOf[s] /\ run[r].pc # "idle" /\ run[s].pc # "idle"
      => EventOf[r] \in raced /\ event[EventOf[r]].status # "new"

(* The uncommitted version of the row: nothing, a new row, or the committed *)
(* one with an observer more or with the response.                         *)
NewDraft(r) ==
  LET q == EventOf[r]
  IN  /\ draft.sourceId = q /\ draft.invokeKeys = {} /\ event[q].status = "new"
      /\ \/ /\ draft.response = "pending" /\ endpoint.isAsync
            /\ run[r].out.status = "pending"
            /\ run[r].out.at = "CallbackPostprocess"
         \/ draft.response = q /\ run[r].out.resp = q
ObservedDraft(r) ==
  /\ cached # NoRow /\ draft = [cached EXCEPT !.invokeKeys = @ \cup {EventOf[r]}]
  /\ event[EventOf[r]].status = "new"
  /\ run[r].out.status = "pending" /\ run[r].out.at = "ended"
ResolvedDraft(r) ==
  /\ cached # NoRow /\ draft = [cached EXCEPT !.response = EventOf[r]]
  /\ run[r].out.resp = EventOf[r]

DraftOK ==
  writer # None =>
    /\ run[writer].pc \in {"InvokeSep", "InvokePostprocess", "InvokeCache", "ending"}
    /\ \/ draft = NoRow
       \/ /\ run[writer].pc = "ending"
          /\ NewDraft(writer) \/ ObservedDraft(writer) \/ ResolvedDraft(writer)

CacheOK ==
  /\ ~_reallyCache => cached = NoRow /\ writer = None
  /\ cached # NoRow => IF cached.response = "pending" THEN endpoint.isAsync
                       ELSE calls[cached.response] = 1

(* A response is never announced to the request it came from. *)
NoticesOK == \A n \in notices : Stored(n.to) /\ n.to # n.data

IInv ==
  /\ TypeOK /\ CacheOK /\ DraftOK /\ NoticesOK /\ RacesKnown
  /\ \A q \in Requests : EventOK(q)
  /\ \A r \in Runs : RunOK(r)
  /\ RowAndEventAgree /\ DoneHasCommittedData /\ ObserversAreStored
  /\ CalledOnceIfChecked

============================================================================
