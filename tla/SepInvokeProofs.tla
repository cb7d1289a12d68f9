-------------------------- MODULE SepInvokeProofs --------------------------
(***************************************************************************)
(* Proofs about SepInvoke, for every set of requests, of endpoints and of  *)
(* runs, any number of them on one event: the agreement of the cached row  *)
(* with the stored events, the data of done events, the observers in the   *)
(* row, the single checked call of the endpoint, through every             *)
(* interleaving, rollback and restart, and the refinement of               *)
(* EventContract.                                                          *)
(***************************************************************************)
EXTENDS SepInvoke, TLAPS

(* Where a run may be. *)
Stage == Processor \cup {"idle", "dropping", "observing", "updating", "ending"}

----------------------------------------------------------------------------
(* Rows and runs *)

LEMMA RowFacts ==
  /\ \A c \in RowOrNone : c # NoRow =>
       c \in Row /\ c.sourceId \in Requests /\ c.invokeKeys \subseteq Requests
       /\ c.response \in Response
  /\ NoRow.sourceId = None /\ NoRow.invokeKeys = {} /\ NoRow \in RowOrNone
  /\ \A c \in RowOrNone : c # NoRow <=> c.sourceId # None
BY SepAssumption DEF RowOrNone, Row, NoRow

LEMMA IdleFacts ==
  /\ Idle \in Run /\ Idle.pc = "idle"
BY RowFacts DEF Idle, Run, Event, At

LEMMA RunTyped ==
  ASSUME NEW c \in Run
  PROVE  /\ c.pc \in Stage /\ c.resumed \in BOOLEAN /\ c.seen \in RowOrNone
         /\ c.preData \in Response \cup {None} /\ c.out \in Event
BY DEF Run, Stage

LEMMA MovesFacts ==
  ASSUME NEW c \in Run, NEW p \in Stage
  PROVE  LET d == MovesTo(c, p)
         IN  /\ d \in Run /\ d.pc = p /\ d.resumed = c.resumed
             /\ d.seen = c.seen /\ d.preData = c.preData
BY DEF MovesTo, Run, Stage

LEMMA SeesFacts ==
  ASSUME NEW c \in Run, NEW p \in Stage, NEW row \in RowOrNone
  PROVE  LET d == [MovesTo(c, p) EXCEPT !.seen = row]
         IN  /\ d \in Run /\ d.pc = p /\ d.resumed = c.resumed
             /\ d.seen = row /\ d.preData = c.preData
BY DEF MovesTo, Run, Stage

LEMMA HoldsFacts ==
  ASSUME NEW c \in Run, NEW p \in Stage, NEW d0 \in Response
  PROVE  LET d == [MovesTo(c, p) EXCEPT !.preData = d0]
         IN  /\ d \in Run /\ d.pc = p /\ d.preData = d0
BY DEF MovesTo, Run, Stage

LEMMA EndsFacts ==
  ASSUME NEW status \in {"new", "pending", "done", "error", "lost"},
         NEW at \in At, NEW resp \in Response \cup {None}
  PROVE  LET d == Ends(status, at, resp)
         IN  /\ d \in Run /\ d.pc = "ending"
             /\ d.out.status = status /\ d.out.at = at /\ d.out.resp = resp
<1>1. [status |-> status, at |-> at, resp |-> resp] \in Event
  BY DEF Event
<1> QED BY <1>1, IdleFacts DEF Ends, Idle, Run

LEMMA ResumedFacts ==
  ASSUME NEW at \in {"InvokeAuth", "CallbackPostprocess"}, NEW q \in Requests
  PROVE  LET d == Resumed(at, q)
         IN  d \in Run /\ d.pc = at /\ d.resumed = TRUE /\ d.preData = q
BY IdleFacts DEF Resumed, Idle, Run, Processor, Response

----------------------------------------------------------------------------
(* Frames *)

LEMMA InvInit == Init => IInv
<1> SUFFICES ASSUME Init PROVE IInv
  OBVIOUS
<1>1. /\ cached = NoRow /\ writer = None /\ draft = NoRow /\ notices = {}
      /\ \A q \in Requests : /\ event[q].status = "new" /\ event[q].resp = None
                             /\ calls[q] = 0
      /\ \A r \in Runs : run[r] = Idle
  BY DEF Init
<1>2. TypeOK
  BY SepAssumption, RowFacts, IdleFacts DEF Init, TypeOK, Event, At
<1>3. \A q \in Requests : EventOK(q)
  BY <1>1, SepAssumption DEF EventOK
<1>4. \A r \in Runs : RunOK(r)
  BY <1>1, IdleFacts DEF RunOK
<1>5. CacheOK /\ DraftOK /\ NoticesOK /\ RacesKnown
  BY <1>1, IdleFacts DEF CacheOK, DraftOK, NoticesOK, RacesKnown
<1>6. RowAndEventAgree /\ DoneHasCommittedData /\ ObserversAreStored
      /\ CalledOnceIfChecked
  BY <1>1, RowFacts
     DEF RowAndEventAgree, DoneHasCommittedData, ObserversAreStored, CalledOnceIfChecked
<1> QED BY <1>2, <1>3, <1>4, <1>5, <1>6 DEF IInv

(* What IInv says of the run r and of its event. *)
LEMMA Now ==
  ASSUME IInv, NEW r \in Runs
  PROVE  /\ TypeOK /\ RunOK(r) /\ run[r] \in Run /\ EventOf[r] \in Requests
         /\ EventOK(EventOf[r]) /\ event[EventOf[r]] \in Event
         /\ calls[EventOf[r]] \in Nat /\ calls[EventOf[r]] <= 1
         /\ calls[EventOf[r]] = 1 => EventOf[r] \in checked
BY SepAssumption DEF IInv, TypeOK, CalledOnceIfChecked

LEMMA BecomesFacts ==
  ASSUME TypeOK, NEW r \in Runs, NEW c, Becomes(r, c)
  PROVE  run'[r] = c /\ \A s \in Runs : s # r => run'[s] = run[s]
BY DEF TypeOK, Becomes

LEMMA WorkingFacts ==
  ASSUME TypeOK, NEW r \in Runs, NEW c, Becomes(r, c), c.pc # "idle"
  PROVE  /\ Working(EventOf[r])'
         /\ \A o \in Requests : o # EventOf[r] => (Working(o)' <=> Working(o))
BY BecomesFacts DEF Working

(* Runs only add to what is known of races. *)
LEMMA KeptMore ==
  ASSUME event' = event, raced \subseteq raced', NEW d, Kept(d)
  PROVE  Kept(d)'
BY DEF Kept

(* A step of run r that commits nothing disturbs no other run.             *)
LEMMA Frame ==
  ASSUME IInv, NEW r \in Runs, NEW c \in Run, Becomes(r, c), c.pc # "idle",
         UNCHANGED <<endpoint, cached, aged, event>>,
         raced \subseteq raced', raced' \subseteq Requests, RacesKnown',
         calls' \in [Requests -> Nat],
         \A o \in Requests :
           o # EventOf[r] \/ event[o].status # "new" => calls'[o] = calls[o],
         checked \subseteq checked', checked' \subseteq Requests,
         writer' \in Runs \cup {None}, draft' \in RowOrNone,
         \A s \in Runs : s # r /\ writer = s => writer' = s,
         writer' # None => _reallyCache,
         notices' \subseteq Notice, NoticesOK',
         DraftOK', EventOK(EventOf[r])', RunOK(r)',
         calls'[EventOf[r]] <= 1, calls'[EventOf[r]] = 1 => EventOf[r] \in checked'
  PROVE  IInv'
<1> DEFINE q == EventOf[r]
<1>0. /\ TypeOK /\ CacheOK /\ RowAndEventAgree /\ DoneHasCommittedData
      /\ ObserversAreStored /\ CalledOnceIfChecked
      /\ \A o \in Requests : EventOK(o)
      /\ \A s \in Runs : RunOK(s)
  BY DEF IInv
<1>1. /\ run' \in [Runs -> Run] /\ run'[r] = c
      /\ \A s \in Runs : s # r => run'[s] = run[s]
  BY <1>0 DEF Becomes, TypeOK
<1>2. TypeOK'
  BY <1>0, <1>1 DEF TypeOK
<1>3. /\ _reallyCache' = _reallyCache
      /\ \A o : Stored(o)' = Stored(o)
      /\ \A o : Kept(o) => Kept(o)'
  BY KeptMore DEF _reallyCache, Stored
<1>4. CacheOK'
  <2>1. cached # NoRow /\ cached.response # "pending" =>
          cached.response \in Requests /\ event[cached.response].status # "new"
    BY <1>0, RowFacts, SepAssumption
       DEF TypeOK, RowAndEventAgree, Kept, Response, EventOK
  <2> QED BY <1>0, <1>3, <2>1 DEF CacheOK
<1>5. ASSUME NEW o \in Requests PROVE EventOK(o)'
  <2>1. CASE o # q
    <3>1. EventOK(o) /\ calls'[o] = calls[o] /\ (Working(o)' <=> Working(o))
      BY <1>0, <2>1, WorkingFacts
    <3> QED BY <3>1 DEF EventOK
  <2> QED BY <2>1
<1>6. ASSUME NEW s \in Runs, s # r PROVE RunOK(s)'
  <2>0. EventOf[s] \in Requests
    BY SepAssumption
  <2>1. RunOK(s) /\ run'[s] = run[s] /\ (writer = s => writer' = s)
    BY <1>0, <1>1, <1>6
  <2>2. CASE run[s].pc = "idle"
    BY <2>1, <2>2 DEF RunOK
  <2>3. CASE run[s].pc # "idle"
    <3>1. calls'[EventOf[s]] = calls[EventOf[s]]
      BY <1>1, <1>6, <2>0, <2>1, <2>3 DEF RacesKnown
    <3>2. OutOK(s) => OutOK(s)'
      <4>1. ASSUME OutOK(s), run[s].out.status = "done"
            PROVE  calls'[run[s].out.resp] = 1
        BY <1>0, <3>1, <4>1, SepAssumption DEF OutOK, Kept, EventOK
      <4> QED BY <1>3, <2>1, <3>1, <4>1 DEF OutOK
    <3> QED BY <1>3, <2>1, <3>1, <3>2 DEF RunOK
  <2> QED BY <2>2, <2>3
<1>7. RowAndEventAgree'
  BY <1>0, <1>3 DEF RowAndEventAgree
<1>8. DoneHasCommittedData'
  <2>1. \A o \in Requests : event[o].status = "done" =>
          /\ event[o].resp \in Requests /\ Kept(event[o].resp)'
          /\ calls[event[o].resp] = 1
          /\ event[event[o].resp].status # "new"
    BY <1>0, <1>3, SepAssumption DEF DoneHasCommittedData, Kept, EventOK
  <2> QED BY <2>1 DEF DoneHasCommittedData
<1>9. ObserversAreStored'
  BY <1>0, <1>3 DEF ObserversAreStored
<1>10. CalledOnceIfChecked'
  <2>1. \A o \in Requests : o # q => calls'[o] = calls[o]
    OBVIOUS
  <2> QED BY <1>0, <2>1 DEF CalledOnceIfChecked
<1>11. \A s \in Runs : RunOK(s)'
  BY <1>6
<1> QED BY <1>2, <1>4, <1>5, <1>7, <1>8, <1>9, <1>10, <1>11 DEF IInv

(* A run that is at work already does not race anew. *)
LEMMA SameRaces ==
  ASSUME IInv, NEW r \in Runs, NEW c \in Run, Becomes(r, c),
         UNCHANGED <<event, raced>>,
         run[r].pc # "idle" \/ ~Working(EventOf[r])
  PROVE  RacesKnown'
<1>1. RacesKnown /\ run'[r] = c /\ \A s \in Runs : s # r => run'[s] = run[s]
  BY BecomesFacts DEF IInv
<1> QED BY <1>1 DEF RacesKnown, Working

(* The stages in which run r may have written the row.                     *)
MayHold == {"InvokeSep", "InvokePostprocess", "InvokeCache", "ending"}

(* A step of r that does not write the row leaves every draft as it was.   *)
LEMMA DraftStays ==
  ASSUME IInv, NEW r \in Runs, NEW c, Becomes(r, c),
         UNCHANGED <<endpoint, cached, writer, draft, event>>,
         run[r].pc # "ending", run[r].pc \in MayHold => c.pc \in MayHold
  PROVE  DraftOK'
<1>1. TypeOK /\ DraftOK
  BY DEF IInv
<1>2. run'[r] = c /\ \A s \in Runs : s # r => run'[s] = run[s]
  BY <1>1, BecomesFacts
<1>3. CASE writer = None
  BY <1>3 DEF DraftOK
<1>4. CASE writer = r
  BY <1>1, <1>2, <1>4, SepAssumption DEF DraftOK, MayHold
<1>5. CASE writer \in Runs /\ writer # r
  <2>1. run'[writer] = run[writer] /\ writer' = writer
    BY <1>2, <1>5
  <2> QED BY <1>1, <2>1 DEF DraftOK, NewDraft, ObservedDraft, ResolvedDraft
<1> QED BY <1>1, <1>3, <1>4, <1>5 DEF TypeOK

(* A step of the chain that writes nothing. *)
LEMMA QuietFrame ==
  ASSUME IInv, NEW r \in Runs, NEW c \in Run, Becomes(r, c), c.pc # "idle", Quiet,
         run[r].pc # "idle" \/ ~Working(EventOf[r]),
         calls' \in [Requests -> Nat],
         \A o \in Requests :
           o # EventOf[r] \/ event[o].status # "new" => calls'[o] = calls[o],
         checked \subseteq checked', checked' \subseteq Requests,
         run[r].pc # "ending", run[r].pc \in MayHold => c.pc \in MayHold,
         EventOK(EventOf[r])', RunOK(r)',
         calls'[EventOf[r]] <= 1, calls'[EventOf[r]] = 1 => EventOf[r] \in checked'
  PROVE  IInv'
<1>1. TypeOK /\ CacheOK /\ NoticesOK
  BY DEF IInv
<1>2. UNCHANGED <<endpoint, cached, writer, draft, aged, event, notices, raced>>
  BY DEF Quiet
<1>3. NoticesOK' /\ DraftOK' /\ RacesKnown'
  BY <1>1, <1>2, DraftStays, SameRaces DEF NoticesOK, Stored
<1>4. /\ writer' \in Runs \cup {None} /\ draft' \in RowOrNone
      /\ \A s \in Runs : s # r /\ writer = s => writer' = s
      /\ writer' # None => _reallyCache
      /\ notices' \subseteq Notice /\ raced' \subseteq Requests
  BY <1>1, <1>2 DEF TypeOK, CacheOK
<1> QED BY <1>2, <1>3, <1>4, Frame

(* A step of the chain that writes the row.                                *)
LEMMA WriteFrame ==
  ASSUME IInv, NEW r \in Runs, NEW c \in Run, Becomes(r, c), c.pc # "idle",
         run[r].pc # "idle",
         NEW row \in RowOrNone, WriteRow(r, row), CanWrite(r), _reallyCache,
         UNCHANGED <<endpoint, cached, aged, event, calls, checked, raced>>,
         notices' \subseteq Notice, NoticesOK', RunOK(r)', DraftOK'
  PROVE  IInv'
<1>1. TypeOK /\ EventOK(EventOf[r]) /\ CalledOnceIfChecked /\ EventOf[r] \in Requests
  BY Now DEF IInv
<1>2. EventOK(EventOf[r])'
  BY <1>1, WorkingFacts DEF EventOK
<1>3. /\ writer' \in Runs \cup {None} /\ draft' \in RowOrNone
      /\ \A s \in Runs : s # r /\ writer = s => writer' = s
  BY SepAssumption DEF WriteRow, CanWrite
<1>4. /\ calls' \in [Requests -> Nat] /\ checked' \subseteq Requests
      /\ raced' \subseteq Requests
      /\ calls'[EventOf[r]] <= 1
      /\ calls'[EventOf[r]] = 1 => EventOf[r] \in checked'
  BY <1>1 DEF TypeOK, CalledOnceIfChecked
<1>5. RacesKnown'
  BY SameRaces
<1> QED BY <1>2, <1>3, <1>4, <1>5, Frame

----------------------------------------------------------------------------
(* The processors *)

LEMMA ThrowsFacts ==
  /\ Throws \in Run /\ Throws.pc = "ending"
  /\ Throws.out.status = "error" /\ Throws.out.resp = None
<1>1. "error" \in {"new", "pending", "done", "error", "lost"} /\ "none" \in At
      /\ None \in Response \cup {None}
  BY DEF At
<1> QED BY <1>1, EndsFacts DEF Throws

(* A run may fail at any time, unless it has been told a response.         *)
LEMMA ThrowsOK ==
  ASSUME IInv, NEW r \in Runs, run'[r] = Throws, event' = event, raced' = raced,
         run[r].pc # "idle", ~Stored(EventOf[r])
  PROVE  RunOK(r)'
<1>1. RunOK(r)
  BY Now
<1>2. OutOK(r)'
  BY ThrowsFacts, SepAssumption, Now DEF OutOK, Stored
<1> QED BY <1>1, <1>2, ThrowsFacts DEF RunOK

LEMMA QuietStep ==
  ASSUME IInv, NEW r \in Runs, NEW c \in Run, Becomes(r, c), c.pc # "idle", Quiet,
         UNCHANGED <<calls, checked>>,
         run[r].pc # "idle" \/ ~Working(EventOf[r]),
         run[r].pc # "ending", run[r].pc \in MayHold => c.pc \in MayHold,
         RunOK(r)'
  PROVE  IInv'
<1>1. EventOK(EventOf[r])'
  BY Now, WorkingFacts DEF EventOK, Quiet
<1>2. /\ calls' \in [Requests -> Nat] /\ checked' \subseteq Requests
      /\ checked \subseteq checked'
      /\ calls'[EventOf[r]] <= 1
      /\ calls'[EventOf[r]] = 1 => EventOf[r] \in checked'
  BY Now DEF TypeOK
<1> QED BY <1>1, <1>2, QuietFrame

(* The chain throws without having called the endpoint.                    *)
LEMMA FailsKeeps ==
  ASSUME IInv, NEW r \in Runs, Becomes(r, Throws), Quiet,
         UNCHANGED <<calls, checked>>,
         run[r].pc \notin {"idle", "ending"}, ~Stored(EventOf[r])
  PROVE  IInv'
<1>1. run'[r] = Throws /\ event' = event /\ raced' = raced
  BY Now, BecomesFacts DEF Quiet
<1>2. RunOK(r)'
  BY <1>1, ThrowsOK
<1> QED BY <1>2, ThrowsFacts, QuietStep DEF MayHold

(* Nobody else works on an event that is new. *)
LEMMA StartKeeps ==
  ASSUME IInv, NEW r \in Runs, Start(r)
  PROVE  IInv'
<1> DEFINE c == MovesTo(Idle, "InvokeAuth")
           q == EventOf[r]
<1>1. /\ event[q].status = "new" /\ ~Working(q)
      /\ Becomes(r, c) /\ Quiet /\ UNCHANGED <<calls, checked>>
  BY DEF Start
<1>2. c \in Run /\ c.pc = "InvokeAuth" /\ c.resumed = FALSE
  BY IdleFacts, MovesFacts DEF Idle, Stage, Processor
<1> HIDE DEF c
<1>3. run'[r] = c /\ run[r].pc = "idle"
  BY <1>1, Now, BecomesFacts DEF Working
<1>4. calls[q] = 0
  BY <1>1, Now DEF EventOK
<1>5. RunOK(r)'
  BY <1>1, <1>2, <1>3, <1>4 DEF RunOK, Quiet
<1> QED BY <1>1, <1>2, <1>3, <1>5, QuietStep DEF MayHold

LEMMA AuthPassesKeeps ==
  ASSUME IInv, NEW r \in Runs, AuthPasses(r)
  PROVE  IInv'
<1> DEFINE c == MovesTo(run[r], "InvokeCached")
           q == EventOf[r]
<1>1. /\ run[r].pc = "InvokeAuth" /\ ~run[r].resumed
      /\ Becomes(r, c) /\ checked' = checked \cup {q} /\ Quiet /\ calls' = calls
  BY DEF AuthPasses
<1>2. c \in Run /\ c.pc = "InvokeCached"
  BY Now, MovesFacts DEF Stage, Processor
<1> HIDE DEF c
<1>3. run'[r] = c /\ event' = event
  BY <1>1, Now, BecomesFacts DEF Quiet
<1>4. event[q].status = "new" /\ calls[q] = 0
  BY <1>1, Now DEF RunOK
<1>5. RunOK(r)' /\ EventOK(q)'
  BY <1>1, <1>2, <1>3, <1>4, Now, WorkingFacts DEF RunOK, EventOK
<1>6. /\ calls' \in [Requests -> Nat] /\ checked' \subseteq Requests
      /\ checked \subseteq checked'
      /\ calls'[q] <= 1 /\ (calls'[q] = 1 => q \in checked')
  BY <1>1, Now DEF TypeOK
<1> QED BY <1>1, <1>2, <1>5, <1>6, QuietFrame DEF MayHold

LEMMA AuthPendsKeeps ==
  ASSUME IInv, NEW r \in Runs, AuthPends(r)
  PROVE  IInv'
<1> DEFINE q == EventOf[r]
<1>1. /\ run[r].pc = "InvokeAuth" /\ ~run[r].resumed
      /\ Becomes(r, PendsInAuth) /\ Quiet /\ UNCHANGED <<calls, checked>>
  BY DEF AuthPends
<1>2. /\ PendsInAuth \in Run /\ PendsInAuth.pc = "ending"
      /\ PendsInAuth.out.status = "pending" /\ PendsInAuth.out.at = "InvokeAuth"
      /\ PendsInAuth.out.resp = None
  BY EndsFacts DEF PendsInAuth, At
<1>3. run'[r] = PendsInAuth /\ event' = event
  BY <1>1, Now, BecomesFacts DEF Quiet
<1>4. event[q].status = "new" /\ q \in Requests
  BY <1>1, Now DEF RunOK
<1>5. OutOK(r)'
  BY <1>2, <1>3, <1>4, SepAssumption DEF OutOK, Stored
<1>6. RunOK(r)'
  BY <1>2, <1>3, <1>4, <1>5 DEF RunOK
<1> QED BY <1>1, <1>2, <1>6, QuietStep DEF MayHold

LEMMA AuthThrowsKeeps ==
  ASSUME IInv, NEW r \in Runs, AuthThrows(r)
  PROVE  IInv'
<1>1. /\ run[r].pc = "InvokeAuth" /\ Becomes(r, Throws) /\ Quiet
      /\ UNCHANGED <<calls, checked>>
  BY DEF AuthThrows
<1>2. ~Stored(EventOf[r])
  BY <1>1, Now DEF RunOK, Stored
<1> QED BY <1>1, <1>2, FailsKeeps

(* The lookup: the row found is committed, and so is its response.         *)
LEMMA FromCachedKeeps ==
  ASSUME IInv, NEW r \in Runs, FromCached(r)
  PROVE  IInv'
<1> DEFINE c == AfterRead(run[r], cached)
           q == EventOf[r]
<1>1. /\ run[r].pc = "InvokeCached" /\ Becomes(r, c) /\ Quiet
      /\ UNCHANGED <<calls, checked>>
  BY DEF FromCached
<1>2. event[q].status = "new" /\ calls[q] = 0 /\ q \in checked /\ q \in Requests
  BY <1>1, Now DEF RunOK
<1>3. /\ run[r] \in Run /\ cached \in RowOrNone /\ CacheOK /\ RowAndEventAgree
      /\ \A o \in Requests : EventOK(o)
  BY Now DEF IInv, TypeOK
<1>4. \/ c \in Run /\ c.pc = "InvokeSep"
      \/ /\ c \in Run /\ c.pc \in {"dropping", "observing"} /\ c.seen # NoRow
         /\ _reallyCache
      \/ /\ c \in Run /\ c.pc = "ending" /\ cached # NoRow
         /\ cached.response \in Requests
         /\ c.out.status = "done" /\ c.out.resp = cached.response
  <2>1. CASE ~_reallyCache \/ cached = NoRow
    <3>1. c = MovesTo(run[r], "InvokeSep")
      BY <2>1 DEF AfterRead
    <3> QED BY <1>3, <3>1, MovesFacts DEF Stage, Processor
  <2>2. CASE _reallyCache /\ cached # NoRow /\ Expired(cached)
    <3>1. c = [MovesTo(run[r], "dropping") EXCEPT !.seen = cached]
      BY <2>2 DEF AfterRead
    <3> QED BY <1>3, <2>2, <3>1, SeesFacts DEF Stage
  <2>3. CASE /\ _reallyCache /\ cached # NoRow /\ ~Expired(cached)
             /\ endpoint.isAsync /\ cached.response = "pending"
    <3>1. c = [MovesTo(run[r], "observing") EXCEPT !.seen = cached]
      BY <2>3 DEF AfterRead
    <3> QED BY <1>3, <2>3, <3>1, SeesFacts DEF Stage
  <2>4. CASE /\ _reallyCache /\ cached # NoRow /\ ~Expired(cached)
             /\ ~(endpoint.isAsync /\ cached.response = "pending")
    <3>1. c = Ends("done", "none", cached.response)
      BY <2>4 DEF AfterRead
    <3>2. cached.response \in Requests
      BY <1>3, <2>4, RowFacts DEF CacheOK, Response
    <3> QED BY <2>4, <3>1, <3>2, EndsFacts DEF At, Response
  <2> QED BY <2>1, <2>2, <2>3, <2>4
<1>5. c \in Run /\ c.pc # "idle" /\ c.pc \notin MayHold \ {"InvokeSep", "ending"}
  BY <1>4 DEF MayHold
<1> HIDE DEF c
<1>6. run'[r] = c /\ UNCHANGED <<endpoint, cached, event, writer, raced>>
  BY <1>1, Now, BecomesFacts DEF Quiet
<1>7. RunOK(r)'
  <2>1. CASE c.pc = "ending"
    <3>1. /\ cached # NoRow /\ cached.response \in Requests
          /\ c.out.status = "done" /\ c.out.resp = cached.response
      BY <1>4, <2>1
    <3>2. Kept(cached.response)
      BY <1>3, <3>1, SepAssumption DEF RowAndEventAgree
    <3>3. cached.response # q
      BY <1>2, <1>3, <3>1, <3>2, SepAssumption DEF EventOK, Kept
    <3>4. Kept(cached.response)'
      BY <1>6, <3>2, KeptMore
    <3>5. OutOK(r)'
      BY <1>1, <1>2, <1>3, <1>6, <3>1, <3>3, <3>4, SepAssumption DEF OutOK, Stored, CacheOK
    <3> QED BY <1>2, <1>6, <2>1, <3>5 DEF RunOK
  <2>2. CASE c.pc # "ending"
    <3>1. _reallyCache' = _reallyCache
      BY <1>6 DEF _reallyCache
    <3> QED BY <1>1, <1>2, <1>4, <1>6, <2>2, <3>1 DEF RunOK
  <2> QED BY <2>1, <2>2
<1> QED BY <1>1, <1>5, <1>7, QuietStep DEF MayHold

(* A run whose row is gone when it comes to write it throws.               *)
LEMMA GoneKeeps ==
  ASSUME IInv, NEW r \in Runs, Becomes(r, Throws),
         UNCHANGED <<endpoint, cached, writer, draft, aged, event, notices,
                     calls, checked, raced>>,
         run[r].pc \in {"dropping", "observing", "updating"}
  PROVE  IInv'
<1>1. ~Stored(EventOf[r])
  BY Now DEF RunOK, Stored
<1> QED BY <1>1, FailsKeeps DEF Quiet

(* None of those runs has written the row before. *)
LEMMA WritesOnce ==
  ASSUME IInv, NEW r \in Runs, run[r].pc \notin MayHold
  PROVE  writer # r
BY SepAssumption DEF IInv, DraftOK, MayHold

LEMMA DropExpiredKeeps ==
  ASSUME IInv, NEW r \in Runs, DropExpired(r)
  PROVE  IInv'
<1>1. run[r].pc = "dropping" /\ CanWrite(r)
      /\ UNCHANGED <<endpoint, cached, aged, event, notices, calls, checked, raced>>
  BY DEF DropExpired
<1>2. CASE cached.sourceId = run[r].seen.sourceId
  <2> DEFINE c == MovesTo(Idle, "InvokeSep")
  <2>1. WriteRow(r, NoRow) /\ Becomes(r, c)
    BY <1>2 DEF DropExpired
  <2>2. c \in Run /\ c.pc = "InvokeSep"
    BY IdleFacts, MovesFacts DEF Stage, Processor
  <2> HIDE DEF c
  <2>3. run'[r] = c
    BY <2>1, Now, BecomesFacts
  <2>4. RunOK(r)' /\ _reallyCache
    BY <1>1, <2>2, <2>3, Now DEF RunOK
  <2>5. NoticesOK' /\ notices' \subseteq Notice
    BY <1>1 DEF IInv, TypeOK, NoticesOK, Stored
  <2>6. DraftOK'
    BY <2>1, <2>2, <2>3 DEF DraftOK, WriteRow
  <2> QED BY <1>1, <2>1, <2>2, <2>4, <2>5, <2>6, RowFacts, WriteFrame
<1>3. CASE cached.sourceId # run[r].seen.sourceId
  BY <1>1, <1>3, GoneKeeps DEF DropExpired
<1> QED BY <1>2, <1>3

(* The key joins the row in the transaction that suspends the observer.    *)
LEMMA AddObserverKeeps ==
  ASSUME IInv, NEW r \in Runs, AddObserver(r)
  PROVE  IInv'
<1> DEFINE q == EventOf[r]
<1>1. run[r].pc = "observing" /\ CanWrite(r)
      /\ UNCHANGED <<endpoint, cached, aged, event, notices, calls, checked, raced>>
  BY DEF AddObserver
<1>2. CASE cached.sourceId = run[r].seen.sourceId
  <2> DEFINE c == Ends("pending", "ended", None)
             row == [cached EXCEPT !.invokeKeys = @ \cup {q}]
  <2>1. WriteRow(r, row) /\ Becomes(r, c)
    BY <1>2 DEF AddObserver
  <2>2. /\ c \in Run /\ c.pc = "ending" /\ c.out.status = "pending"
        /\ c.out.at = "ended" /\ c.out.resp = None
    BY EndsFacts DEF At
  <2>3. event[q].status = "new" /\ _reallyCache /\ run[r].seen # NoRow
    BY <1>1, Now DEF RunOK
  <2>4. cached \in RowOrNone /\ cached # NoRow
    <3>1. cached \in RowOrNone /\ run[r].seen \in RowOrNone
      BY Now, RunTyped DEF TypeOK
    <3> QED BY <1>2, <2>3, <3>1, RowFacts
  <2>5. row \in RowOrNone
    BY <2>4, RowFacts, SepAssumption DEF RowOrNone, Row
  <2> HIDE DEF c
  <2>6. run'[r] = c
    BY <2>1, Now, BecomesFacts
  <2>7. OutOK(r)'
    BY <1>1, <2>2, <2>3, <2>6, SepAssumption DEF OutOK, Stored
  <2>8. RunOK(r)'
    BY <1>1, <2>2, <2>3, <2>6, <2>7 DEF RunOK
  <2>9. NoticesOK' /\ notices' \subseteq Notice
    BY <1>1 DEF IInv, TypeOK, NoticesOK, Stored
  <2>10. DraftOK'
    BY <1>1, <2>1, <2>2, <2>3, <2>4, <2>6 DEF DraftOK, WriteRow, ObservedDraft
  <2> HIDE DEF row
  <2> QED BY <1>1, <2>1, <2>2, <2>3, <2>5, <2>8, <2>9, <2>10, WriteFrame
<1>3. CASE cached.sourceId # run[r].seen.sourceId
  BY <1>1, <1>3, GoneKeeps DEF AddObserver
<1> QED BY <1>2, <1>3

(* The endpoint is called, once. *)
LEMMA InvokeSepKeeps ==
  ASSUME IInv, NEW r \in Runs, InvokeSep(r) \/ InvokeSepThrows(r)
  PROVE  IInv'
<1> DEFINE q == EventOf[r]
<1>1. /\ run[r].pc = "InvokeSep" /\ calls' = [calls EXCEPT ![q] = @ + 1]
      /\ Quiet /\ checked' = checked
  BY DEF InvokeSep, InvokeSepThrows
<1>2. event[q].status = "new" /\ calls[q] = 0 /\ q \in checked
  BY <1>1, Now DEF RunOK
<1>3. /\ calls' \in [Requests -> Nat] /\ calls'[q] = 1
      /\ checked \subseteq checked' /\ checked' \subseteq Requests
      /\ \A o \in Requests : o # q => calls'[o] = calls[o]
      /\ calls'[q] <= 1 /\ (calls'[q] = 1 => q \in checked')
  BY <1>1, <1>2, Now DEF TypeOK
<1>4. UNCHANGED <<endpoint, event, raced>>
  BY <1>1 DEF Quiet
<1>5. PICK c \in Run :
        /\ Becomes(r, c)
        /\ \/ /\ c.pc = "InvokePostprocess"
              /\ c.preData = q \/ (c.preData = "pending" /\ endpoint.isAsync)
           \/ c = Throws
  <2>1. CASE InvokeSep(r)
    <3>1. PICK d \in InvokeResults(q) :
            Becomes(r, [MovesTo(run[r], "InvokePostprocess") EXCEPT !.preData = d])
      BY <2>1 DEF InvokeSep
    <3>2. d \in Response /\ (d = q \/ (d = "pending" /\ endpoint.isAsync))
      BY SepAssumption DEF InvokeResults, Response
    <3> DEFINE c0 == [MovesTo(run[r], "InvokePostprocess") EXCEPT !.preData = d]
    <3>3. "InvokePostprocess" \in Stage /\ run[r] \in Run
      BY Now DEF Stage, Processor
    <3>4. c0 \in Run /\ c0.pc = "InvokePostprocess" /\ c0.preData = d
      BY <3>2, <3>3, HoldsFacts
    <3>5. Becomes(r, c0)
      BY <3>1
    <3> HIDE DEF c0
    <3> QED BY <3>2, <3>4, <3>5
  <2>2. CASE InvokeSepThrows(r)
    BY <2>2, ThrowsFacts DEF InvokeSepThrows
  <2> QED BY <2>1, <2>2
<1>6. run'[r] = c /\ c.pc # "idle"
  BY <1>5, Now, BecomesFacts, ThrowsFacts
<1>7. EventOK(q)'
  BY <1>2, <1>3, <1>4, <1>5, <1>6, Now, WorkingFacts DEF EventOK
<1>8. RunOK(r)' /\ c.pc \in MayHold
  <2>1. CASE c = Throws
    BY <1>1, <1>2, <1>4, <1>6, <2>1, ThrowsOK, ThrowsFacts DEF MayHold, Stored
  <2>2. CASE c # Throws
    BY <1>2, <1>3, <1>4, <1>5, <1>6, <2>2 DEF RunOK, MayHold
  <2> QED BY <2>1, <2>2
<1> QED BY <1>1, <1>2, <1>3, <1>5, <1>6, <1>7, <1>8, QuietFrame DEF Quiet

LEMMA PostprocessKeeps ==
  ASSUME IInv, NEW r \in Runs, InvokePostprocess(r) \/ CallbackPostprocess(r)
  PROVE  IInv'
<1> DEFINE q == EventOf[r]
<1>1. /\ Quiet /\ UNCHANGED <<calls, checked>>
      /\ \/ Becomes(r, Throws)
         \/ /\ run[r].pc = "InvokePostprocess"
            /\ Becomes(r, MovesTo(run[r], "InvokeCache"))
         \/ /\ run[r].pc = "CallbackPostprocess"
            /\ Becomes(r, MovesTo(run[r], "InvokeCallback"))
      /\ run[r].pc \in {"InvokePostprocess", "CallbackPostprocess"}
  BY DEF InvokePostprocess, CallbackPostprocess, Postprocess
<1>2. CASE Becomes(r, Throws)
  <2>1. ~Stored(q)
    BY <1>1, Now DEF RunOK, Stored
  <2> QED BY <1>1, <1>2, <2>1, FailsKeeps
<1>3. ASSUME NEW p \in {"InvokeCache", "InvokeCallback"},
             run[r].pc = IF p = "InvokeCache" THEN "InvokePostprocess"
                                              ELSE "CallbackPostprocess",
             Becomes(r, MovesTo(run[r], p))
      PROVE  IInv'
  <2> DEFINE c == MovesTo(run[r], p)
  <2>1. c \in Run /\ c.pc = p /\ c.preData = run[r].preData
    BY Now, MovesFacts DEF Stage, Processor
  <2> HIDE DEF c
  <2>2. run'[r] = c /\ UNCHANGED <<endpoint, event, calls, checked, raced>>
    BY <1>1, <1>3, Now, BecomesFacts DEF Quiet, c
  <2>3. RunOK(r)'
    BY <1>3, <2>1, <2>2, Now DEF RunOK, Stored
  <2> QED BY <1>1, <1>3, <2>1, <2>3, QuietStep DEF MayHold, c
<1> QED BY <1>1, <1>2, <1>3

(* What is kept of the data of a call, or of its promise.                  *)
LEMMA ToCacheKeeps ==
  ASSUME IInv, NEW r \in Runs, ToCache(r)
  PROVE  IInv'
<1> DEFINE q == EventOf[r]
           c == AfterCache(run[r])
<1>1. /\ run[r].pc = "InvokeCache" /\ Becomes(r, c)
      /\ UNCHANGED <<endpoint, cached, aged, event, notices, calls, checked, raced>>
  BY DEF ToCache
<1>2. /\ event[q].status = "new" /\ calls[q] = 1
      /\ run[r].preData = q \/ (run[r].preData = "pending" /\ endpoint.isAsync)
  BY <1>1, Now DEF RunOK
<1>3. /\ c \in Run /\ c.pc = "ending"
      /\ IF run[r].preData = "pending"
         THEN /\ c.out.status = "pending" /\ c.out.at = "CallbackPostprocess"
              /\ c.out.resp = None
         ELSE c.out.status = "done" /\ c.out.resp = q
  BY <1>2, EndsFacts, SepAssumption DEF AfterCache, At, Response
<1> HIDE DEF c
<1>4. run'[r] = c
  BY <1>1, Now, BecomesFacts
<1>5. OutOK(r)'
  BY <1>1, <1>2, <1>3, <1>4, SepAssumption DEF OutOK, Stored
<1>6. RunOK(r)'
  BY <1>1, <1>2, <1>3, <1>4, <1>5 DEF RunOK
<1>7. CASE ~_reallyCache
  BY <1>1, <1>3, <1>6, <1>7, QuietStep DEF ToCache, Quiet, MayHold
<1>8. CASE _reallyCache
  <2>1. CanWrite(r) /\ WriteRow(r, NewRow(r))
    BY <1>8 DEF ToCache
  <2>2. NewRow(r) \in RowOrNone
    BY <1>2, SepAssumption DEF NewRow, RowOrNone, Row, Response
  <2>3. NoticesOK' /\ notices' \subseteq Notice
    BY <1>1 DEF IInv, TypeOK, NoticesOK, Stored
  <2>4. NewDraft(r)'
    BY <1>1, <1>2, <1>3, <1>4, <2>1, SepAssumption DEF NewDraft, WriteRow, NewRow
  <2>5. DraftOK'
    BY <1>3, <1>4, <2>1, <2>4 DEF DraftOK, WriteRow
  <2> QED BY <1>1, <1>3, <1>6, <1>8, <2>1, <2>2, <2>3, <2>5, WriteFrame
<1> QED BY <1>7, <1>8


----------------------------------------------------------------------------
(* Resolving a promise *)

LEMMA CallbackDoneFacts ==
  ASSUME NEW d \in Response
  PROVE  LET c == CallbackDone(d)
         IN  /\ c \in Run /\ c.pc = "ending"
             /\ c.out.status = "error" /\ c.out.resp = d
BY EndsFacts DEF CallbackDone, At

(* Without a row to update the response is only stored with the event.     *)
LEMMA InvokeCallbackKeeps ==
  ASSUME IInv, NEW r \in Runs, InvokeCallback(r)
  PROVE  IInv'
<1> DEFINE q == EventOf[r]
<1>1. run[r].pc = "InvokeCallback" /\ Quiet /\ UNCHANGED <<calls, checked>>
  BY DEF InvokeCallback
<1>2. event[q].status # "new" /\ ~Stored(q) /\ run[r].preData = q /\ q \in Requests
  BY <1>1, Now DEF RunOK
<1>3. calls[q] = 1
  BY <1>1, Now DEF RunOK
<1>4. UNCHANGED <<endpoint, cached, writer, event, calls, raced>>
  BY <1>1 DEF Quiet
<1>5. CacheOK /\ ObserversAreStored /\ cached \in RowOrNone /\ TypeOK
  BY DEF IInv, TypeOK
<1>6. CASE _reallyCache /\ cached # NoRow
  <2> DEFINE c == [MovesTo(run[r], "updating") EXCEPT !.seen = cached]
  <2>1. Becomes(r, c)
    BY <1>6 DEF InvokeCallback
  <2>2. c \in Run /\ c.pc = "updating" /\ c.seen = cached /\ c.preData = q
    BY <1>2, <1>5, Now, SeesFacts DEF Stage
  <2> HIDE DEF c
  <2>3. run'[r] = c
    BY <1>5, <2>1, BecomesFacts
  <2>4. \A o \in cached.invokeKeys : Stored(o)'
    BY <1>4, <1>5 DEF ObserversAreStored, Stored
  <2>5. _reallyCache'
    BY <1>4, <1>6 DEF _reallyCache
  <2>6. RunOK(r)'
    BY <1>1, <1>2, <1>3, <1>4, <1>6, <2>2, <2>3, <2>4, <2>5, Now DEF RunOK, Stored
  <2> QED BY <1>1, <2>1, <2>2, <2>6, QuietStep DEF MayHold
<1>7. CASE ~_reallyCache \/ cached = NoRow
  <2> DEFINE c == CallbackDone(q)
  <2>1. Becomes(r, c)
    BY <1>2, <1>7 DEF InvokeCallback
  <2>2. c \in Run /\ c.pc = "ending" /\ c.out.status = "error" /\ c.out.resp = q
    BY <1>2, CallbackDoneFacts DEF Response
  <2> HIDE DEF c
  <2>3. run'[r] = c
    BY <1>5, <2>1, BecomesFacts
  <2>4. cached'.sourceId # q
    BY <1>4, <1>5, <1>7, RowFacts, SepAssumption DEF CacheOK
  <2>5. OutOK(r)'
    BY <1>1, <1>2, <1>3, <1>4, <2>2, <2>3, <2>4, SepAssumption DEF OutOK, Stored
  <2>6. RunOK(r)'
    BY <1>1, <1>4, <2>2, <2>3, <2>5, Now DEF RunOK
  <2> QED BY <1>1, <2>1, <2>2, <2>6, QuietStep DEF MayHold
<1> QED BY <1>6, <1>7

(* The observers are told before the row is committed: they are stored.    *)
LEMMA UpdateCacheKeeps ==
  ASSUME IInv, NEW r \in Runs, UpdateCache(r)
  PROVE  IInv'
<1> DEFINE q == EventOf[r]
<1>1. run[r].pc = "updating" /\ CanWrite(r)
      /\ UNCHANGED <<endpoint, cached, aged, event, calls, checked, raced>>
  BY DEF UpdateCache
<1>2. /\ event[q].status # "new" /\ ~Stored(q) /\ calls[q] = 1 /\ q \in Requests
      /\ run[r].preData = q /\ _reallyCache /\ run[r].seen # NoRow
      /\ \A o \in run[r].seen.invokeKeys : Stored(o)
  BY <1>1, Now DEF RunOK
<1>3. CASE cached.sourceId = run[r].seen.sourceId
  <2> DEFINE c == CallbackDone(q)
             row == [cached EXCEPT !.response = q]
             told == {[to |-> o, data |-> q] : o \in run[r].seen.invokeKeys}
  <2>1. WriteRow(r, row) /\ Becomes(r, c) /\ notices' = notices \cup told
    BY <1>2, <1>3 DEF UpdateCache
  <2>2. c \in Run /\ c.pc = "ending" /\ c.out.status = "error" /\ c.out.resp = q
    BY <1>2, CallbackDoneFacts DEF Response
  <2>4. run[r].seen \in RowOrNone /\ run[r].seen.invokeKeys \subseteq Requests
        /\ cached \in RowOrNone
    BY <1>2, Now, RunTyped, RowFacts DEF TypeOK
  <2>5. cached # NoRow
    BY <1>2, <1>3, <2>4, RowFacts
  <2>6. row \in RowOrNone
    BY <1>2, <2>4, <2>5, RowFacts DEF RowOrNone, Row, Response
  <2> HIDE DEF c
  <2>7. run'[r] = c /\ writer' = r
    BY <2>1, Now, BecomesFacts DEF WriteRow
  <2>8. OutOK(r)'
    BY <1>1, <1>2, <2>2, <2>7, SepAssumption DEF OutOK, Stored
  <2>9. RunOK(r)'
    BY <1>1, <2>2, <2>7, <2>8, Now DEF RunOK
  <2>10. \A n \in told : Stored(n.to) /\ n.to # n.data
    BY <1>2 DEF Stored
  <2>11. NoticesOK /\ notices \subseteq Notice
    BY DEF IInv, TypeOK
  <2>12. \A n \in notices' : Stored(n.to) /\ n.to # n.data
    BY <2>1, <2>10, <2>11 DEF NoticesOK
  <2>13. NoticesOK'
    BY <1>1, <2>12 DEF NoticesOK, Stored
  <2>14. notices' \subseteq Notice
    BY <1>2, <2>1, <2>4, <2>11 DEF Notice
  <2>15. DraftOK'
    BY <1>1, <2>1, <2>2, <2>5, <2>7 DEF DraftOK, WriteRow, ResolvedDraft
  <2> HIDE DEF row, told
  <2> QED BY <1>1, <1>2, <2>1, <2>2, <2>6, <2>9, <2>13, <2>14, <2>15, WriteFrame
<1>4. CASE cached.sourceId # run[r].seen.sourceId
  BY <1>1, <1>4, GoneKeeps DEF UpdateCache
<1> QED BY <1>3, <1>4


(* A response nobody waits for any more is forgotten.                      *)
LEMMA SameButNotices ==
  ASSUME IInv, UNCHANGED <<endpoint, cached, writer, draft, aged, event, run,
                           calls, checked, raced>>,
         NoticesOK', notices' \subseteq Notice
  PROVE  IInv'
<1>1. TypeOK' /\ CacheOK' /\ DraftOK' /\ RacesKnown'
  BY DEF IInv, TypeOK, CacheOK, DraftOK, RacesKnown, _reallyCache, NewDraft,
         ObservedDraft, ResolvedDraft
<1>2. \A q \in Requests : EventOK(q)'
  BY DEF IInv, EventOK, Working
<1>3. \A r \in Runs : RunOK(r)'
  BY DEF IInv, RunOK, OutOK, Stored, Kept, _reallyCache
<1>4. RowAndEventAgree' /\ DoneHasCommittedData' /\ ObserversAreStored'
      /\ CalledOnceIfChecked'
  BY DEF IInv, RowAndEventAgree, DoneHasCommittedData, ObserversAreStored,
         CalledOnceIfChecked, Kept, Stored
<1> QED BY <1>1, <1>2, <1>3, <1>4 DEF IInv

(* Who starts to work on a pending event disturbs nobody.                  *)
LEMMA ResumedFrame ==
  ASSUME IInv, NEW r \in Runs, NEW c \in Run, Becomes(r, c), c.pc # "idle",
         run[r].pc = "idle", event[EventOf[r]].status = "pending", Races(EventOf[r]),
         UNCHANGED <<endpoint, cached, writer, draft, aged, event, calls, checked>>,
         notices' \subseteq notices, RunOK(r)'
  PROVE  IInv'
<1> DEFINE q == EventOf[r]
<1>1. /\ TypeOK /\ CacheOK /\ NoticesOK /\ DraftOK /\ RacesKnown /\ EventOK(q)
      /\ CalledOnceIfChecked /\ q \in Requests
  BY Now DEF IInv
<1>2. run'[r] = c /\ \A s \in Runs : s # r => run'[s] = run[s]
  BY <1>1, BecomesFacts
<1>3. raced \subseteq raced' /\ raced' \subseteq Requests
  BY <1>1 DEF Races, TypeOK
<1>4. RacesKnown'
  <2>1. ASSUME NEW s \in Runs, NEW t \in Runs, s # t, EventOf[s] = EventOf[t],
               run'[s].pc # "idle", run'[t].pc # "idle"
        PROVE  EventOf[s] \in raced' /\ event[EventOf[s]].status # "new"
    <3>1. CASE s # r /\ t # r
      BY <1>1, <1>2, <1>3, <2>1, <3>1 DEF RacesKnown
    <3>2. CASE s = r \/ t = r
      <4>1. Working(q) /\ EventOf[s] = q
        BY <1>2, <2>1, <3>2 DEF Working
      <4> QED BY <4>1 DEF Races
    <3> QED BY <3>1, <3>2
  <2> QED BY <2>1 DEF RacesKnown
<1>5. NoticesOK' /\ notices' \subseteq Notice
  BY <1>1 DEF NoticesOK, Stored, TypeOK
<1>6. DraftOK'
  BY DraftStays DEF MayHold
<1>7. EventOK(q)'
  BY <1>1 DEF EventOK
<1>8. /\ calls' \in [Requests -> Nat] /\ checked' \subseteq Requests
      /\ writer' \in Runs \cup {None} /\ draft' \in RowOrNone
      /\ writer' # None => _reallyCache
      /\ calls'[q] <= 1 /\ (calls'[q] = 1 => q \in checked')
  BY <1>1 DEF TypeOK, CacheOK, CalledOnceIfChecked
<1> QED BY <1>3, <1>4, <1>5, <1>6, <1>7, <1>8, Frame

LEMMA ResumeCallbackKeeps ==
  ASSUME IInv, NEW r \in Runs, ResumeCallback(r)
  PROVE  IInv'
<1> DEFINE q == EventOf[r]
           at == event[q].at
           c == Resumed(at, q)
<1>1. /\ event[q].status = "pending" /\ event[q].at # "ended" /\ run[r].pc = "idle"
      /\ Becomes(r, c) /\ Races(q)
      /\ UNCHANGED <<endpoint, cached, writer, draft, aged, event, notices,
                     calls, checked>>
  BY DEF ResumeCallback, Resumable
<1>2. /\ at \in {"InvokeAuth", "CallbackPostprocess"} /\ q \in Requests
      /\ at = "CallbackPostprocess" => calls[q] = 1
  BY <1>1, Now DEF EventOK
<1>3. at = event[q].at
  OBVIOUS
<1> HIDE DEF at
<1>4. \A p \in {"InvokeAuth", "CallbackPostprocess"}, o \in Requests :
        Resumed(p, o) \in Run /\ Resumed(p, o).pc = p
        /\ Resumed(p, o).resumed = TRUE /\ Resumed(p, o).preData = o
  BY ResumedFacts
<1>5. c \in Run /\ c.pc = at /\ c.resumed = TRUE /\ c.preData = q
  BY <1>2, <1>4, ResumedFacts
<1> HIDE DEF c
<1>6. run'[r] = c
  BY <1>1, Now, BecomesFacts
<1>7. RunOK(r)'
  BY <1>3, <1>1, <1>2, <1>5, <1>6 DEF RunOK, Stored
<1> QED BY <1>1, <1>2, <1>5, <1>7, ResumedFrame

(* An observer is told the response of another request, or it has failed.  *)
LEMMA NotifyKeeps ==
  ASSUME IInv, NEW n \in Notice, Notify(n)
  PROVE  IInv'
<1> DEFINE q == n.to
           d == CallbackDone(n.data)
<1>1. /\ n \in notices /\ notices' = notices \ {n}
      /\ UNCHANGED <<endpoint, cached, writer, draft, aged, event, calls, checked>>
  BY DEF Notify
<1>2. q \in Requests /\ n.data \in Requests
  BY DEF Notice
<1>3. Stored(q) /\ q # n.data
  BY <1>1 DEF IInv, NoticesOK
<1>4. CASE event[q].status = "pending"
  <2>1. PICK r \in Runs : EventOf[r] = q /\ run[r].pc = "idle" /\ Becomes(r, d)
    BY <1>4 DEF Notify, Resumable
  <2>2. Races(q)
    BY <1>4 DEF Notify, Resumable
  <2>3. d \in Run /\ d.pc = "ending" /\ d.out.status = "error" /\ d.out.resp = n.data
    BY <1>2, CallbackDoneFacts DEF Response
  <2> HIDE DEF d
  <2>4. run'[r] = d
    BY <2>1, Now, BecomesFacts
  <2>5. OutOK(r)'
    BY <1>1, <1>2, <1>3, <1>4, <2>1, <2>3, <2>4, SepAssumption DEF OutOK, Stored
  <2>6. RunOK(r)'
    BY <1>1, <1>4, <2>1, <2>3, <2>4, <2>5 DEF RunOK
  <2> HIDE DEF q
  <2> QED BY <1>1, <1>4, <2>1, <2>2, <2>3, <2>6, ResumedFrame
<1>5. CASE event[q].status # "pending"
  <2>1. UNCHANGED <<run, raced>>
    BY <1>5 DEF Notify, Resumable
  <2>2. NoticesOK' /\ notices' \subseteq Notice
    BY <1>1 DEF IInv, TypeOK, NoticesOK, Stored
  <2> QED BY <1>1, <2>1, <2>2, SameButNotices
<1> QED BY <1>4, <1>5

----------------------------------------------------------------------------
(* The transaction ends *)

(* What the run stores of its event, and what others rely on.              *)
LEMMA CommitEvents ==
  ASSUME IInv, NEW r \in Runs, Commit(r)
  PROVE  /\ RunOK(r) /\ OutOK(r) /\ run[r].out \in Event /\ run[r].pc = "ending"
         /\ EventOf[r] \in Requests
         /\ event' \in [Requests -> Event] /\ event'[EventOf[r]] = run[r].out
         /\ run' \in [Runs -> Run] /\ run'[r].pc = "idle"
         /\ \A s \in Runs : s # r => run'[s] = run[s]
         /\ \A o \in Requests : o # EventOf[r] => event'[o] = event[o]
<1>1. /\ run[r].pc = "ending" /\ event' = [event EXCEPT ![EventOf[r]] = run[r].out]
      /\ run' = [run EXCEPT ![r] = Idle]
  BY DEF Commit
<1>2. OutOK(r) /\ RunOK(r)
  BY <1>1, Now DEF RunOK
<1>3. run[r].out \in Event
  BY Now, RunTyped
<1> QED BY <1>1, <1>2, <1>3, Now, IdleFacts DEF TypeOK

LEMMA CommitWriter ==
  ASSUME IInv, NEW r \in Runs, Commit(r)
  PROVE  /\ UNCHANGED <<endpoint, aged, notices, calls, checked, raced>>
         /\ writer' # r /\ writer' \in {writer, None} /\ draft' \in {draft, NoRow}
         /\ writer # r => UNCHANGED <<cached, writer, draft>>
BY SepAssumption DEF Commit, Release, View

(* A response once stored is kept, or its loss is a known race; and who    *)
(* has been told a response, or waits to be, still is.                     *)
LEMMA CommitKept ==
  ASSUME IInv, NEW r \in Runs, Commit(r)
  PROVE  /\ \A o \in Requests : Kept(o) => Kept(o)'
         /\ \A o \in Requests : event[o].status # "new" => (Stored(o)' <=> Stored(o))
         /\ \A o \in Requests : Stored(o) => Stored(o)'
<1> DEFINE q == EventOf[r]
<1>1. /\ OutOK(r) /\ RunOK(r) /\ run[r].pc = "ending" /\ EventOK(q)
      /\ event'[q] = run[r].out /\ raced' = raced
      /\ \A o \in Requests : o # q => event'[o] = event[o]
  BY CommitEvents, CommitWriter, Now
<1>2. Kept(q) => Kept(q)'
  <2>1. CASE event[q].status = "new"
    BY <1>1, <2>1, SepAssumption DEF Kept, EventOK
  <2>2. CASE event[q].status # "new"
    <3>1. run[r].out.status = "error"
      BY <1>1, <2>2 DEF OutOK
    <3>2. Kept(q) => q \in raced
      BY <1>1, <2>2, SepAssumption DEF Kept, EventOK, RunOK
    <3> QED BY <1>1, <3>1, <3>2 DEF Kept
  <2> QED BY <2>1, <2>2
<1>3. event[q].status # "new" => (Stored(q)' <=> Stored(q))
  <2>1. SUFFICES ASSUME event[q].status # "new" PROVE Stored(q)' <=> Stored(q)
    OBVIOUS
  <2>2. run[r].out.status = "error"
    BY <1>1, <2>1 DEF OutOK
  <2>3. IF Stored(q) THEN run[r].out.resp \notin {None, q}
                     ELSE run[r].out.resp \in {None, q}
    BY <1>1, <2>1 DEF OutOK
  <2> QED BY <1>1, <2>2, <2>3 DEF Stored
<1>4. Stored(q) => event[q].status # "new"
  BY DEF Stored
<1>5. \A o \in Requests : o # q => /\ Kept(o) => Kept(o)'
                                   /\ Stored(o)' <=> Stored(o)
  BY <1>1 DEF Kept, Stored
<1> HIDE DEF q
<1> QED BY <1>2, <1>3, <1>4, <1>5

(* What is committed of the row: what was there, a new row of the run, or  *)
(* the row with an observer more or with the response.                     *)
LEMMA CommitRow ==
  ASSUME IInv, NEW r \in Runs, Commit(r)
  PROVE  \/ cached' = NoRow
         \/ cached' = cached /\ writer # r
         \/ writer = r /\ cached' = draft
            /\ (NewDraft(r) \/ ObservedDraft(r) \/ ResolvedDraft(r))
<1>1. cached' = View(r)
  BY DEF Commit
<1>2. CASE writer = r
  BY <1>1, <1>2, SepAssumption DEF IInv, DraftOK, View
<1>3. CASE writer # r
  BY <1>1, <1>3 DEF View
<1> QED BY <1>2, <1>3

(* What is left of the row stays typed and as the endpoint allows it, and  *)
(* it keeps its source unless the event of the run is new.                 *)
LEMMA CommittedRow ==
  ASSUME IInv, NEW r \in Runs, Commit(r)
  PROVE  /\ cached' \in RowOrNone /\ CacheOK'
         /\ \/ cached'.sourceId \in {cached.sourceId, None}
            \/ cached'.sourceId = EventOf[r] /\ event[EventOf[r]].status = "new"
<1> DEFINE q == EventOf[r]
<1>1. /\ cached \in RowOrNone /\ draft \in RowOrNone /\ CacheOK
      /\ \/ cached' = NoRow
         \/ cached' = cached /\ writer # r
         \/ writer = r /\ cached' = draft
            /\ (NewDraft(r) \/ ObservedDraft(r) \/ ResolvedDraft(r))
      /\ endpoint' = endpoint /\ calls' = calls /\ writer' \in {writer, None}
      /\ OutOK(r) /\ q \in Requests
  BY CommitRow, CommitWriter, CommitEvents DEF IInv, TypeOK
<1>2. cached' \in RowOrNone
  BY <1>1, RowFacts
<1>3. \/ cached'.sourceId \in {cached.sourceId, None}
      \/ cached'.sourceId = q /\ event[q].status = "new"
  <2>1. CASE cached' = draft /\ (ObservedDraft(r) \/ ResolvedDraft(r))
    <3>1. cached \in Row
      BY <1>1, <2>1, RowFacts DEF ObservedDraft, ResolvedDraft
    <3>2. draft.sourceId = cached.sourceId
      BY <2>1, <3>1 DEF ObservedDraft, ResolvedDraft, Row
    <3> QED BY <2>1, <3>2
  <2>2. CASE cached' = draft /\ NewDraft(r)
    BY <2>2 DEF NewDraft
  <2> QED BY <1>1, <2>1, <2>2, RowFacts
<1>4. _reallyCache' = _reallyCache
  BY <1>1 DEF _reallyCache
<1>5. ~_reallyCache => cached' = NoRow /\ writer' = None
  BY <1>1, SepAssumption DEF CacheOK
<1>6. cached' # NoRow => IF cached'.response = "pending" THEN endpoint.isAsync
                         ELSE calls[cached'.response] = 1
  <2>1. CASE cached' = cached
    BY <1>1, <2>1 DEF CacheOK
  <2>2. CASE cached' = draft /\ NewDraft(r)
    BY <1>1, <2>2, SepAssumption DEF NewDraft, OutOK
  <2>3. CASE cached' = draft /\ ObservedDraft(r)
    <3>1. cached \in Row /\ cached # NoRow
      BY <1>1, <2>3, RowFacts DEF ObservedDraft
    <3>2. draft.response = cached.response
      BY <2>3, <3>1 DEF ObservedDraft, Row
    <3> QED BY <1>1, <2>3, <3>1, <3>2 DEF CacheOK
  <2>4. CASE cached' = draft /\ ResolvedDraft(r)
    <3>1. cached \in Row
      BY <1>1, <2>4, RowFacts DEF ResolvedDraft
    <3>2. draft.response = q /\ run[r].out.resp = q
      BY <2>4, <3>1 DEF ResolvedDraft, Row
    <3> QED BY <1>1, <2>4, <3>2, SepAssumption DEF OutOK
  <2> QED BY <1>1, <2>1, <2>2, <2>3, <2>4
<1>7. CacheOK'
  BY <1>1, <1>4, <1>5, <1>6 DEF CacheOK
<1> QED BY <1>2, <1>3, <1>7

LEMMA CommitEventOK ==
  ASSUME IInv, NEW r \in Runs, Commit(r), NEW o \in Requests
  PROVE  EventOK(o)'
<1>1. EventOK(o) /\ calls' = calls
  BY CommitWriter DEF IInv
<1>2. CASE o = EventOf[r]
  <2>1. OutOK(r) /\ event'[o] = run[r].out
    BY <1>2, CommitEvents
  <2> QED BY <1>1, <1>2, <2>1 DEF OutOK, EventOK
<1>3. CASE o # EventOf[r]
  <2>1. event'[o] = event[o] /\ (Working(o)' <=> Working(o))
    BY <1>3, CommitEvents DEF Working
  <2> QED BY <1>1, <2>1 DEF EventOK
<1> QED BY <1>2, <1>3

(* A run of another event is not disturbed by the commit; one of the same  *)
(* event goes on with an event that has failed.                            *)
LEMMA CommitRuns ==
  ASSUME IInv, NEW r \in Runs, Commit(r), NEW s \in Runs
  PROVE  RunOK(s)'
<1> DEFINE o == EventOf[s]
<1>1. /\ RunOK(s) /\ RunOK(r) /\ OutOK(r) /\ TypeOK /\ RacesKnown
      /\ o \in Requests /\ run[r].pc = "ending"
      /\ UNCHANGED <<endpoint, calls, checked, raced>>
  BY Now, CommitEvents, CommitWriter DEF IInv
<1>2. CASE s = r
  BY <1>2, CommitEvents DEF RunOK
<1>3. CASE s # r /\ run[s].pc = "idle"
  <2>1. run'[s] = run[s]
    BY <1>3, CommitEvents
  <2> QED BY <1>3, <2>1 DEF RunOK
<1>4. CASE s # r /\ run[s].pc # "idle"
  <2>1. run'[s] = run[s]
    BY <1>4, CommitEvents
  <2>2. /\ \/ event'[o].status = event[o].status
           \/ event'[o].status = "error" /\ o \in raced
        /\ (event'[o].status = "new") <=> (event[o].status = "new")
        /\ Stored(o)' <=> Stored(o)
        /\ event[o].status = "new" => o # EventOf[r]
    <3>1. CASE o # EventOf[r]
      <4>1. event'[o] = event[o]
        BY <1>1, <3>1, CommitEvents
      <4>2. Stored(o)' <=> Stored(o)
        BY <4>1 DEF Stored
      <4>3. (event'[o].status = "new") <=> (event[o].status = "new")
        BY <4>1
      <4> QED BY <3>1, <4>1, <4>2, <4>3
    <3>2. CASE o = EventOf[r]
      <4>1. o \in raced /\ event[o].status # "new"
        BY <1>1, <1>4, <3>2 DEF RacesKnown
      <4>2. event'[o].status = "error"
        BY <1>1, <3>2, <4>1, CommitEvents DEF OutOK
      <4>3. Stored(o)' <=> Stored(o)
        BY <1>1, <4>1, CommitKept
      <4> QED BY <4>1, <4>2, <4>3
    <3> QED BY <3>1, <3>2
  <2>3. \A p \in Requests : (Stored(p) => Stored(p)') /\ (Kept(p) => Kept(p)')
    BY CommitKept
  <2>4. ASSUME OutOK(s) PROVE OutOK(s)'
    <3>1. writer = s => writer' = s
      BY <1>4, CommitWriter
    <3>2. event[o].status # "new" /\ cached.sourceId # o => cached'.sourceId # o
      BY <1>1, CommittedRow, SepAssumption
    <3>3. run[s].out.resp \in Requests /\ Kept(run[s].out.resp)
          => Kept(run[s].out.resp)'
      BY <2>1, <2>3 DEF Kept
    <3>4. run[s].out.status # "error" => event[o].status = "new"
      BY <2>4 DEF OutOK
    <3> HIDE DEF o
    <3>5. o = EventOf[s]
      BY DEF o
    <3> QED BY <1>1, <2>1, <2>2, <2>4, <3>1, <3>2, <3>3, <3>4, <3>5 DEF OutOK
  <2>5. run[s].pc = "updating" =>
          run[s].seen # NoRow /\ \A p \in run[s].seen.invokeKeys : Stored(p)'
    <3>1. run[s].pc = "updating" => run[s].seen # NoRow
                                    /\ \A p \in run[s].seen.invokeKeys : Stored(p)
      BY <1>1 DEF RunOK
    <3>2. run[s].seen # NoRow => run[s].seen.invokeKeys \subseteq Requests
      BY Now, RunTyped, RowFacts
    <3> QED BY <2>3, <3>1, <3>2
  <2>6. _reallyCache' = _reallyCache
    BY <1>1 DEF _reallyCache
  <2> HIDE DEF o
  <2>7. o = EventOf[s]
    BY DEF o
  <2> QED BY <1>1, <1>4, <2>1, <2>2, <2>4, <2>5, <2>6, <2>7 DEF RunOK
<1> QED BY <1>2, <1>3, <1>4

(* Nor is the transaction of another writer, which waits for no commit.    *)
LEMMA CommitDraft ==
  ASSUME IInv, NEW r \in Runs, Commit(r)
  PROVE  DraftOK'
<1>1. CASE writer' = None
  BY <1>1 DEF DraftOK
<1>2. CASE writer' # None
  <2>1. writer' = writer /\ writer # r /\ UNCHANGED <<cached, draft, endpoint>>
    BY <1>2, CommitWriter
  <2>2. PICK w \in Runs : w = writer
    BY <1>2, <2>1 DEF IInv, TypeOK
  <2>3. DraftOK /\ EventOf[w] \in Requests /\ RacesKnown /\ w # None
    BY <2>2, SepAssumption DEF IInv
  <2>4. run'[w] = run[w] /\ run[r].pc = "ending"
    BY <2>1, <2>2, CommitEvents
  <2>5. /\ run[w].pc # "idle"
        /\ run[w].pc \in {"InvokeSep", "InvokePostprocess", "InvokeCache", "ending"}
        /\ \/ draft = NoRow
           \/ /\ run[w].pc = "ending"
              /\ NewDraft(w) \/ ObservedDraft(w) \/ ResolvedDraft(w)
    BY <2>2, <2>3 DEF DraftOK
  <2>6. event[EventOf[w]].status = "new" => event'[EventOf[w]] = event[EventOf[w]]
    <3>1. event[EventOf[w]].status = "new" => EventOf[w] # EventOf[r]
      BY <2>1, <2>2, <2>3, <2>4, <2>5 DEF RacesKnown
    <3> QED BY <2>3, <3>1, CommitEvents
  <2>7. /\ NewDraft(w) => NewDraft(w)'
        /\ ObservedDraft(w) => ObservedDraft(w)'
        /\ ResolvedDraft(w) => ResolvedDraft(w)'
    BY <2>1, <2>4, <2>6 DEF NewDraft, ObservedDraft, ResolvedDraft
  <2>8. writer' = w /\ draft' = draft
    BY <2>1, <2>2
  <2> QED BY <2>4, <2>5, <2>7, <2>8 DEF DraftOK
<1> QED BY <1>1, <1>2

LEMMA CommitRaces ==
  ASSUME IInv, NEW r \in Runs, Commit(r)
  PROVE  RacesKnown'
<1>1. RacesKnown /\ raced' = raced /\ OutOK(r)
  BY CommitEvents, CommitWriter DEF IInv
<1>2. \A o \in Requests : event'[o].status = "new" => event[o].status = "new"
  BY <1>1, CommitEvents DEF OutOK
<1>3. \A s \in Runs : run'[s].pc # "idle" => s # r /\ run'[s] = run[s]
                                               /\ EventOf[s] \in Requests
  BY CommitEvents, SepAssumption
<1> QED BY <1>1, <1>2, <1>3 DEF RacesKnown

(* The row and the event that is its source are committed together.        *)
LEMMA CommitAgrees ==
  ASSUME IInv, NEW r \in Runs, Commit(r)
  PROVE  RowAndEventAgree'
<1> DEFINE q == EventOf[r]
           Waiting(s) == \/ event[s].status = "pending"
                            /\ event[s].at = "CallbackPostprocess"
                         \/ event[s].status = "error" /\ event[s].resp = None
<1>1. /\ cached \in RowOrNone /\ RowAndEventAgree
      /\ OutOK(r) /\ event'[q] = run[r].out /\ q \in Requests
      /\ \A o \in Requests : o # q => event'[o] = event[o]
      /\ \A o \in Requests : Kept(o) => Kept(o)'
  BY CommitEvents, CommitKept DEF IInv, TypeOK
<1>2. CASE cached' = NoRow
  BY <1>2 DEF RowAndEventAgree
<1>3. ASSUME cached # NoRow, cached.response # "pending"
      PROVE  \E d \in Requests : d = cached.response /\ Kept(d)'
  <2>1. PICK d \in Requests : d = cached.response
    BY <1>1, <1>3, RowFacts DEF Response
  <2>2. Kept(d)
    BY <1>1, <1>3, <2>1 DEF RowAndEventAgree
  <2>3. Kept(d)'
    BY <1>1, <2>2
  <2> QED BY <2>1, <2>3
<1>4. ASSUME cached # NoRow, cached.response = "pending"
      PROVE  cached.sourceId \in Requests /\ Waiting(cached.sourceId)
  <2>1. cached.sourceId \in Requests
    BY <1>1, <1>4, RowFacts
  <2> QED BY <1>1, <1>4, <2>1 DEF RowAndEventAgree
<1>5. CASE cached' = cached /\ writer # r /\ cached # NoRow
  <2>1. CASE cached.response # "pending"
    <3>1. PICK d \in Requests : d = cached.response /\ Kept(d)'
      BY <1>3, <1>5, <2>1
    <3> QED BY <1>5, <2>1, <3>1 DEF RowAndEventAgree, Kept
  <2>2. CASE cached.response = "pending"
    <3>1. CASE cached.sourceId # q
      BY <1>1, <1>4, <1>5, <2>2, <3>1 DEF RowAndEventAgree
    <3>2. CASE cached.sourceId = q
      <4>1. event[q].status # "new" /\ ~Stored(q)
        BY <1>4, <1>5, <2>2, <3>2 DEF Stored
      <4>2. run[r].out.resp = None /\ run[r].out.status = "error"
        BY <1>1, <1>5, <3>2, <4>1 DEF OutOK
      <4>3. event'[cached'.sourceId] = run[r].out
        BY <1>1, <1>5, <3>2
      <4> QED BY <1>5, <2>2, <4>2, <4>3 DEF RowAndEventAgree
    <3> QED BY <3>1, <3>2
  <2> QED BY <2>1, <2>2
<1>6. CASE cached' = draft /\ NewDraft(r)
  <2>1. draft.sourceId = q
        /\ \/ draft.response = "pending" /\ run[r].out.status = "pending"
              /\ run[r].out.at = "CallbackPostprocess"
           \/ draft.response = q /\ run[r].out.resp = q
    BY <1>6 DEF NewDraft
  <2> QED BY <1>1, <1>6, <2>1, SepAssumption DEF RowAndEventAgree, Kept
<1>7. CASE cached' = draft /\ ObservedDraft(r)
  <2>1. cached # NoRow /\ cached \in Row /\ event[q].status = "new"
    BY <1>1, <1>7, RowFacts DEF ObservedDraft
  <2>2. cached'.response = cached.response /\ cached'.sourceId = cached.sourceId
    BY <1>7, <2>1 DEF ObservedDraft, Row
  <2>3. CASE cached.response # "pending"
    <3>1. PICK d \in Requests : d = cached.response /\ Kept(d)'
      BY <1>3, <2>1, <2>3
    <3> QED BY <2>2, <2>3, <3>1 DEF RowAndEventAgree, Kept
  <2>4. CASE cached.response = "pending"
    <3>1. cached.sourceId # q
      BY <1>4, <2>1, <2>4
    <3> QED BY <1>1, <1>4, <2>1, <2>2, <2>4, <3>1 DEF RowAndEventAgree
  <2> QED BY <2>3, <2>4
<1>8. CASE cached' = draft /\ ResolvedDraft(r)
  <2>1. cached \in Row /\ run[r].out.resp = q
    BY <1>1, <1>8, RowFacts DEF ResolvedDraft
  <2>2. cached'.response = q
    BY <1>8, <2>1 DEF ResolvedDraft, Row
  <2> QED BY <1>1, <2>1, <2>2, SepAssumption DEF RowAndEventAgree, Kept
<1> QED BY <1>2, <1>5, <1>6, <1>7, <1>8, CommitRow

LEMMA CommitDone ==
  ASSUME IInv, NEW r \in Runs, Commit(r)
  PROVE  DoneHasCommittedData'
<1> DEFINE q == EventOf[r]
<1>1. /\ DoneHasCommittedData /\ OutOK(r) /\ event'[q] = run[r].out
      /\ q \in Requests /\ calls' = calls
      /\ \A o \in Requests : o # q => event'[o] = event[o]
      /\ \A o \in Requests : Kept(o) => Kept(o)'
  BY CommitEvents, CommitWriter, CommitKept DEF IInv
<1>2. ASSUME NEW o \in Requests, event'[o].status = "done"
      PROVE  \E d \in Requests : event'[o].resp = d /\ Kept(d)' /\ calls[d] = 1
  <2>1. CASE o # q
    BY <1>1, <1>2, <2>1 DEF DoneHasCommittedData
  <2>2. CASE o = q
    <3>1. PICK d \in Requests : /\ d = run[r].out.resp /\ calls[d] = 1
                                /\ d = q \/ Kept(d)
      BY <1>1, <1>2, <2>2 DEF OutOK
    <3>2. Kept(d)'
      BY <1>1, <2>2, <3>1 DEF Kept
    <3> QED BY <1>1, <2>2, <3>1, <3>2
  <2> QED BY <2>1, <2>2
<1> HIDE DEF q
<1> QED BY <1>1, <1>2 DEF DoneHasCommittedData, Kept

LEMMA CommitObservers ==
  ASSUME IInv, NEW r \in Runs, Commit(r)
  PROVE  ObserversAreStored'
<1> DEFINE q == EventOf[r]
<1>1. /\ cached \in RowOrNone /\ ObserversAreStored /\ event'[q] = run[r].out
      /\ \A o \in Requests : Stored(o) => Stored(o)'
  BY CommitEvents, CommitKept DEF IInv, TypeOK
<1>2. \A o \in cached.invokeKeys : Stored(o)'
  <2>1. cached.invokeKeys \subseteq Requests
    BY <1>1, RowFacts
  <2> QED BY <1>1, <2>1 DEF ObserversAreStored
<1>3. CASE cached' = NoRow
  BY <1>3, RowFacts DEF ObserversAreStored
<1>4. CASE cached' = cached
  BY <1>2, <1>4 DEF ObserversAreStored
<1>5. CASE cached' = draft /\ NewDraft(r)
  BY <1>5 DEF NewDraft, ObserversAreStored
<1>6. CASE cached' = draft /\ ObservedDraft(r)
  <2>1. cached \in Row
    BY <1>1, <1>6, RowFacts DEF ObservedDraft
  <2>2. cached'.invokeKeys = cached.invokeKeys \cup {q}
    BY <1>6, <2>1 DEF ObservedDraft, Row
  <2>3. Stored(q)'
    BY <1>1, <1>6 DEF ObservedDraft, Stored
  <2> QED BY <1>2, <2>2, <2>3 DEF ObserversAreStored
<1>7. CASE cached' = draft /\ ResolvedDraft(r)
  <2>1. cached \in Row
    BY <1>1, <1>7, RowFacts DEF ResolvedDraft
  <2>2. cached'.invokeKeys = cached.invokeKeys
    BY <1>7, <2>1 DEF ResolvedDraft, Row
  <2> QED BY <1>2, <2>2 DEF ObserversAreStored
<1> QED BY <1>3, <1>4, <1>5, <1>6, <1>7, CommitRow

LEMMA CommitKeeps ==
  ASSUME IInv, NEW r \in Runs, Commit(r)
  PROVE  IInv'
<1>1. /\ TypeOK /\ NoticesOK /\ CalledOnceIfChecked
  BY DEF IInv
<1>2. UNCHANGED <<endpoint, aged, notices, calls, checked, raced>>
  BY CommitWriter
<1>3. TypeOK'
  <2>1. writer' \in Runs \cup {None} /\ draft' \in RowOrNone
    BY <1>1, CommitWriter, RowFacts DEF TypeOK
  <2>2. event' \in [Requests -> Event] /\ run' \in [Runs -> Run]
    BY CommitEvents
  <2> QED BY <1>1, <1>2, <2>1, <2>2, CommittedRow DEF TypeOK
<1>4. NoticesOK'
  <2>1. \A n \in notices : n.to \in Requests
    BY <1>1 DEF TypeOK, Notice
  <2> QED BY <1>1, <1>2, <2>1, CommitKept DEF NoticesOK
<1>5. CalledOnceIfChecked'
  BY <1>1, <1>2 DEF CalledOnceIfChecked
<1>6. /\ CacheOK' /\ DraftOK' /\ RacesKnown' /\ RowAndEventAgree'
      /\ DoneHasCommittedData' /\ ObserversAreStored'
      /\ \A o \in Requests : EventOK(o)'
      /\ \A s \in Runs : RunOK(s)'
  BY CommittedRow, CommitDraft, CommitRaces, CommitAgrees, CommitDone, CommitObservers, CommitRuns,
     CommitEventOK
<1> QED BY <1>3, <1>4, <1>5, <1>6 DEF IInv

(* What a rollback does: it forgets its runs, and their new events.        *)
LEMMA RolledBackEvents ==
  ASSUME IInv, NEW S \in SUBSET Runs, RolledBack(S)
  PROVE  /\ event' \in [Requests -> Event]
         /\ \A o \in Requests :
              /\ event'[o].resp = event[o].resp /\ event'[o].at = event[o].at
              /\ \/ event'[o] = event[o]
                 \/ event'[o].status = "lost" /\ event[o].status = "new"
         /\ \A s \in Runs : s \notin S /\ run[s].pc # "idle" =>
                              event'[EventOf[s]] = event[EventOf[s]]
         /\ \A s \in S : run[s].pc # "idle" => event'[EventOf[s]].status # "new"
         /\ \A o \in Requests : Stored(o)' <=> Stored(o)
         /\ \A o \in Requests : Kept(o)' <=> Kept(o)
<1> DEFINE gone(o) == /\ event[o].status = "new"
                      /\ \E s \in S : EventOf[s] = o /\ run[s].pc # "idle"
<1>1. event' = [o \in Requests |-> IF gone(o) THEN [event[o] EXCEPT !.status = "lost"]
                                              ELSE event[o]]
      /\ raced' = raced
  BY DEF RolledBack
<1>2. /\ \A o \in Requests : event[o] \in Event
      /\ \A s \in Runs : EventOf[s] \in Requests
      /\ RacesKnown
  BY SepAssumption DEF IInv, TypeOK
<1>3. \A o \in Requests : event'[o] = IF gone(o) THEN [event[o] EXCEPT !.status = "lost"]
                                                 ELSE event[o]
  BY <1>1
<1>4. \A o \in Requests :
        /\ [event[o] EXCEPT !.status = "lost"] \in Event
        /\ [event[o] EXCEPT !.status = "lost"].status = "lost"
        /\ [event[o] EXCEPT !.status = "lost"].at = event[o].at
        /\ [event[o] EXCEPT !.status = "lost"].resp = event[o].resp
  BY <1>2 DEF Event
<1>5. ASSUME NEW s \in Runs, s \notin S, run[s].pc # "idle"
      PROVE  ~gone(EventOf[s])
  BY <1>2, <1>5 DEF RacesKnown
<1>6. \A s \in S : run[s].pc # "idle" /\ event[EventOf[s]].status = "new"
                   => gone(EventOf[s])
  OBVIOUS
<1>7. \A o \in Requests : gone(o) => event[o].status = "new"
  OBVIOUS
<1> HIDE DEF gone
<1>8. /\ event' \in [Requests -> Event]
      /\ \A o \in Requests :
           /\ event'[o].resp = event[o].resp /\ event'[o].at = event[o].at
           /\ \/ event'[o] = event[o]
              \/ event'[o].status = "lost" /\ event[o].status = "new"
  BY <1>1, <1>2, <1>3, <1>4, <1>7
<1>9. /\ \A s \in Runs : s \notin S /\ run[s].pc # "idle" =>
                           event'[EventOf[s]] = event[EventOf[s]]
      /\ \A s \in S : run[s].pc # "idle" => event'[EventOf[s]].status # "new"
  BY <1>2, <1>3, <1>4, <1>5, <1>6
<1>10. \A o \in Requests : Stored(o)' <=> Stored(o)
  BY <1>8 DEF Stored
<1>11. \A o \in Requests : Kept(o)' <=> Kept(o)
  BY <1>1, <1>8 DEF Kept
<1> QED BY <1>8, <1>9, <1>10, <1>11

LEMMA RolledBackRuns ==
  ASSUME IInv, NEW S \in SUBSET Runs, RolledBack(S)
  PROVE  /\ UNCHANGED <<endpoint, cached, aged, calls, checked, raced>>
         /\ run' \in [Runs -> Run]
         /\ \A s \in Runs : run'[s] = IF s \in S THEN Idle ELSE run[s]
         /\ writer' \in {writer, None} /\ draft' \in {draft, NoRow} /\ writer' \notin S
         /\ \A s \in Runs : s \notin S /\ writer = s => writer' = s
         /\ writer' # None => writer' = writer /\ draft' = draft
         /\ \A o \in Requests :
              event'[o].status = "new" => (Working(o)' <=> Working(o))
<1>1. /\ UNCHANGED <<endpoint, cached, aged, calls, checked, raced>>
      /\ run' \in [Runs -> Run]
      /\ \A s \in Runs : run'[s] = IF s \in S THEN Idle ELSE run[s]
  BY IdleFacts DEF RolledBack, IInv, TypeOK
<1>2. /\ writer' \in {writer, None} /\ draft' \in {draft, NoRow} /\ writer' \notin S
      /\ \A s \in Runs : s \notin S /\ writer = s => writer' = s
      /\ writer' # None => writer' = writer /\ draft' = draft
  BY SepAssumption DEF RolledBack, Release
<1>3. ASSUME NEW o \in Requests, event'[o].status = "new"
      PROVE  Working(o)' <=> Working(o)
  BY <1>1, <1>3, RolledBackEvents, IdleFacts DEF Working
<1> QED BY <1>1, <1>2, <1>3

LEMMA RolledBackKeeps ==
  ASSUME IInv, NEW S \in SUBSET Runs, RolledBack(S),
         notices' \subseteq notices
  PROVE  IInv'
<1>1. /\ TypeOK /\ CacheOK /\ DraftOK /\ NoticesOK /\ RacesKnown /\ RowAndEventAgree
      /\ DoneHasCommittedData /\ ObserversAreStored /\ CalledOnceIfChecked
      /\ \A o \in Requests : EventOK(o)
      /\ \A s \in Runs : RunOK(s) /\ EventOf[s] \in Requests
  BY SepAssumption DEF IInv
<1>2. /\ UNCHANGED <<endpoint, cached, aged, calls, checked, raced>>
      /\ run' \in [Runs -> Run]
      /\ \A s \in Runs : run'[s] = IF s \in S THEN Idle ELSE run[s]
  BY RolledBackRuns
<1>3. /\ writer' \in {writer, None} /\ draft' \in {draft, NoRow} /\ writer' \notin S
      /\ \A s \in Runs : s \notin S /\ writer = s => writer' = s
      /\ writer' # None => writer' = writer /\ draft' = draft
  BY RolledBackRuns
<1>4. /\ event' \in [Requests -> Event]
      /\ \A o \in Requests :
           /\ event'[o].resp = event[o].resp /\ event'[o].at = event[o].at
           /\ \/ event'[o] = event[o]
              \/ event'[o].status = "lost" /\ event[o].status = "new"
           /\ event'[o].status = "new" => (Working(o)' <=> Working(o))
      /\ \A s \in Runs : s \notin S /\ run[s].pc # "idle" =>
                           event'[EventOf[s]] = event[EventOf[s]]
  BY RolledBackEvents, RolledBackRuns
<1>5. \A o \in Requests : (Stored(o)' <=> Stored(o)) /\ (Kept(o)' <=> Kept(o))
  BY RolledBackEvents
<1>6. TypeOK'
  BY <1>1, <1>2, <1>3, <1>4, RowFacts DEF TypeOK
<1>7. \A o \in Requests : EventOK(o)'
  BY <1>1, <1>2, <1>4 DEF EventOK
<1>8. ASSUME NEW s \in Runs PROVE RunOK(s)'
  <2>1. RunOK(s) /\ EventOf[s] \in Requests
    BY <1>1
  <2>2. CASE run'[s].pc = "idle"
    BY <2>2 DEF RunOK
  <2>3. CASE run'[s].pc # "idle"
    <3>1. /\ s \notin S /\ run'[s] = run[s] /\ event'[EventOf[s]] = event[EventOf[s]]
          /\ writer = s => writer' = s
      BY <1>2, <1>3, <1>4, <2>3, IdleFacts
    <3>2. Stored(EventOf[s])' <=> Stored(EventOf[s])
      BY <1>5, <2>1
    <3>3. run[s].out.resp \in Requests /\ Kept(run[s].out.resp)
          => Kept(run[s].out.resp)'
      BY <1>5, <3>1 DEF Kept
    <3>4. OutOK(s) => OutOK(s)'
      BY <1>2, <3>1, <3>2, <3>3 DEF OutOK
    <3>5. run[s].pc = "updating" =>
            run[s].seen # NoRow /\ \A p \in run[s].seen.invokeKeys : Stored(p)'
      <4>1. run[s].pc = "updating" => run[s].seen # NoRow
                                      /\ \A p \in run[s].seen.invokeKeys : Stored(p)
        BY <2>1 DEF RunOK
      <4>2. run[s].seen # NoRow => run[s].seen.invokeKeys \subseteq Requests
        BY Now, RunTyped, RowFacts
      <4> QED BY <1>5, <4>1, <4>2
    <3>6. _reallyCache' = _reallyCache
      BY <1>2 DEF _reallyCache
    <3> QED BY <1>2, <2>1, <3>1, <3>2, <3>4, <3>5, <3>6 DEF RunOK
  <2> QED BY <2>2, <2>3
<1>9. RacesKnown'
  <2>1. \A s \in Runs : run'[s].pc # "idle" =>
          run'[s] = run[s] /\ event'[EventOf[s]] = event[EventOf[s]]
    BY <1>2, <1>4, IdleFacts
  <2> QED BY <1>1, <1>2, <2>1 DEF RacesKnown
<1>10. DraftOK'
  <2>1. CASE writer' = None
    BY <2>1 DEF DraftOK
  <2>2. CASE writer' # None
    <3>1. PICK w \in Runs : w = writer /\ w = writer'
      BY <1>1, <1>3, <2>2 DEF TypeOK
    <3>2. /\ draft' = draft /\ w \notin S /\ run[w].pc # "idle" /\ w # None
          /\ run[w].pc \in {"InvokeSep", "InvokePostprocess", "InvokeCache", "ending"}
          /\ \/ draft = NoRow
             \/ /\ run[w].pc = "ending"
                /\ NewDraft(w) \/ ObservedDraft(w) \/ ResolvedDraft(w)
      BY <1>1, <1>3, <2>2, <3>1 DEF DraftOK
    <3>3. run'[w] = run[w] /\ event'[EventOf[w]] = event[EventOf[w]]
      BY <1>2, <1>4, <3>1, <3>2
    <3>4. /\ NewDraft(w) => NewDraft(w)'
          /\ ObservedDraft(w) => ObservedDraft(w)'
          /\ ResolvedDraft(w) => ResolvedDraft(w)'
      BY <1>2, <3>2, <3>3 DEF NewDraft, ObservedDraft, ResolvedDraft
    <3> QED BY <3>1, <3>2, <3>3, <3>4 DEF DraftOK
  <2> QED BY <2>1, <2>2
<1>11. CacheOK'
  BY <1>1, <1>2, <1>3 DEF CacheOK, _reallyCache
<1>12. NoticesOK'
  <2>1. \A n \in notices : n.to \in Requests
    BY <1>1 DEF TypeOK, Notice
  <2> QED BY <1>1, <1>5, <2>1 DEF NoticesOK
<1>13. RowAndEventAgree'
  <2>1. cached # NoRow => cached.sourceId \in Requests /\ cached.response \in Response
    BY <1>1, RowFacts DEF TypeOK
  <2>2. cached # NoRow /\ cached.response # "pending" => Kept(cached.response)'
    BY <1>1, <1>2, <1>5, <2>1 DEF RowAndEventAgree, Response, Kept
  <2>3. cached # NoRow /\ cached.response = "pending" =>
          event'[cached.sourceId] = event[cached.sourceId]
    BY <1>1, <1>4, <2>1 DEF RowAndEventAgree
  <2> QED BY <1>1, <1>2, <2>2, <2>3 DEF RowAndEventAgree
<1>14. DoneHasCommittedData'
  BY <1>1, <1>2, <1>4, <1>5 DEF DoneHasCommittedData, Kept
<1>15. ObserversAreStored'
  <2>1. cached.invokeKeys \subseteq Requests
    BY <1>1, RowFacts DEF TypeOK
  <2> QED BY <1>1, <1>2, <1>5, <2>1 DEF ObserversAreStored
<1>16. CalledOnceIfChecked'
  BY <1>1, <1>2 DEF CalledOnceIfChecked
<1> QED BY <1>6, <1>7, <1>8, <1>9, <1>10, <1>11, <1>12, <1>13, <1>14, <1>15, <1>16
        DEF IInv

LEMMA AgedKeeps ==
  ASSUME IInv, aged' \subseteq Requests,
         UNCHANGED <<endpoint, cached, writer, draft, event, run, notices,
                     calls, checked, raced>>
  PROVE  IInv'
<1>1. TypeOK' /\ CacheOK' /\ DraftOK' /\ NoticesOK' /\ RacesKnown'
  BY DEF IInv, TypeOK, CacheOK, DraftOK, NewDraft, ObservedDraft, ResolvedDraft,
         NoticesOK, Stored, _reallyCache, RacesKnown
<1>2. \A q \in Requests : EventOK(q)'
  BY DEF IInv, EventOK, Working
<1>3. \A r \in Runs : RunOK(r)'
  BY DEF IInv, RunOK, OutOK, Stored, Kept, _reallyCache
<1>4. RowAndEventAgree' /\ DoneHasCommittedData' /\ ObserversAreStored'
      /\ CalledOnceIfChecked'
  BY DEF IInv, RowAndEventAgree, DoneHasCommittedData, ObserversAreStored, Stored,
         Kept, CalledOnceIfChecked
<1> QED BY <1>1, <1>2, <1>3, <1>4 DEF IInv

----------------------------------------------------------------------------
(* The theorems *)

LEMMA ChainKeeps ==
  ASSUME IInv, NEW r \in Runs, ChainStep(r)
  PROVE  IInv'
<1>1. CASE AuthPasses(r) \/ AuthPends(r) \/ AuthThrows(r)
  BY <1>1, AuthPassesKeeps, AuthPendsKeeps, AuthThrowsKeeps
<1>2. CASE FromCached(r) \/ DropExpired(r) \/ AddObserver(r)
  BY <1>2, FromCachedKeeps, DropExpiredKeeps, AddObserverKeeps
<1>3. CASE InvokeSep(r) \/ InvokeSepThrows(r)
  BY <1>3, InvokeSepKeeps
<1>4. CASE InvokePostprocess(r) \/ CallbackPostprocess(r)
  BY <1>4, PostprocessKeeps
<1>5. CASE ToCache(r)
  BY <1>5, ToCacheKeeps
<1>6. CASE SaveConflicts(r)
  <2>1. RolledBack({r}) /\ notices' \subseteq notices
    BY <1>6 DEF SaveConflicts
  <2> QED BY <2>1, RolledBackKeeps
<1>7. CASE InvokeCallback(r) \/ UpdateCache(r)
  BY <1>7, InvokeCallbackKeeps, UpdateCacheKeeps
<1>8. CASE Commit(r)
  BY <1>8, CommitKeeps
<1> QED BY <1>1, <1>2, <1>3, <1>4, <1>5, <1>6, <1>7, <1>8 DEF ChainStep

LEMMA InvStep == IInv /\ [Next]_vars => IInv'
<1> SUFFICES ASSUME IInv, [Next]_vars PROVE IInv'
  OBVIOUS
<1>1. ASSUME NEW r \in Runs,
             Start(r) \/ ChainStep(r) \/ ResumeCallback(r) \/ Abort(r)
      PROVE  IInv'
  <2>1. CASE Start(r) \/ ChainStep(r) \/ ResumeCallback(r)
    BY <2>1, StartKeeps, ChainKeeps, ResumeCallbackKeeps
  <2>2. CASE Abort(r)
    <3>1. RolledBack({r}) /\ notices' \subseteq notices
      BY <2>2 DEF Abort
    <3> QED BY <3>1, RolledBackKeeps
  <2> QED BY <1>1, <2>1, <2>2
<1>2. ASSUME NEW n \in Notice, Notify(n) PROVE IInv'
  BY <1>2, NotifyKeeps
<1>3. CASE Restart
  <2>1. RolledBack(Runs) /\ notices' \subseteq notices
    BY <1>3 DEF Restart
  <2> QED BY <2>1, RolledBackKeeps
<1>4. CASE Expire
  <2>1. aged' \subseteq Requests
    BY <1>4, RowFacts DEF Expire, IInv, TypeOK
  <2> QED BY <1>4, <2>1, AgedKeeps DEF Expire
<1>5. CASE UNCHANGED vars
  BY <1>5, AgedKeeps DEF vars, IInv, TypeOK
<1> QED BY <1>1, <1>2, <1>3, <1>4, <1>5 DEF Next

(* The invariant of invokeSEPs(), of its resumption and of CachedService:  *)
(* it holds whatever the callbacks, rollbacks and restarts in between.     *)
THEOREM Invariance == Spec => []IInv
BY InvInit, InvStep, PTL DEF Spec

(* The rows, events and runs keep the form their schema and code give them. *)
THEOREM TypeCorrect == Spec => []TypeOK
<1>1. IInv => TypeOK
  BY DEF IInv
<1> QED BY Invariance, <1>1, PTL

(* The row that toCache() and updateCache() commit agrees with the event   *)
(* it belongs to: a promise is that of an event that waits for it or has   *)
(* failed, and data is still stored by the event that obtained it.  Only   *)
(* resume(), which takes up a pending event however many runs are at work  *)
(* on it, can let a second run of that very event overwrite the response.  *)
THEOREM RowAndEventAgreeHolds == Spec => []RowAndEventAgree
<1>1. IInv => RowAndEventAgree
  BY DEF IInv
<1> QED BY Invariance, <1>1, PTL

(* A request that fromCached() or the endpoint answers as done carries     *)
(* data, and the data of a single call whose own event has committed it,   *)
(* and keeps it unless a second run of that event was resumed beside the   *)
(* one that committed it.                                                  *)
THEOREM DoneHasCommittedDataHolds == Spec => []DoneHasCommittedData
<1>1. IInv => DoneHasCommittedData
  BY DEF IInv
<1> QED BY Invariance, <1>1, PTL

(* addObserver() commits a key with the event it resumes, so that what     *)
(* notifyObservers() starts before the commit of the source finds it.      *)
THEOREM ObserversAreStoredHolds == Spec => []ObserversAreStored
<1>1. IInv => ObserversAreStored
  BY DEF IInv
<1> QED BY Invariance, <1>1, PTL

(* Whatever is suspended, resumed, rolled back or restarted, the endpoint  *)
(* is called at most once for a request, and after checkSepAuth() passed.  *)
THEOREM CalledOnceIfCheckedHolds == Spec => []CalledOnceIfChecked
<1>1. IInv => CalledOnceIfChecked
  BY DEF IInv
<1> QED BY Invariance, <1>1, PTL

----------------------------------------------------------------------------
(* SepInvoke implements EventContract. *)

(* The refinement mapping, under names of its own. *)
Outcome == [q \in Requests |-> OutcomeOf(q)]
Claim == [r \in Runs |-> ClaimOf(r)]
Accepted == {q \in Requests : event[q].status # "new" \/ Working(q)}

LEMMA ContractInit == Init => Contract!Init
<1>1. ASSUME Init PROVE Contract!Init
  <2>1. /\ \A q \in Requests : event[q].status = "new" /\ ~Working(q)
        /\ \A r \in Runs : run[r].pc = "idle"
    BY <1>1, IdleFacts DEF Init, Working
  <2> QED BY <2>1 DEF Contract!Init, OutcomeOf, ClaimOf
<1> QED BY <1>1

LEMMA ContractStutters ==
  ASSUME UNCHANGED <<Outcome, Claim, Accepted>>
  PROVE  UNCHANGED Contract!vars
BY DEF Outcome, Claim, Accepted, Contract!vars

(* A processor that commits nothing leaves the run in the chain.           *)
LEMMA ChainGoesOn ==
  ASSUME TypeOK, NEW r \in Runs, ChainStep(r), ~Commit(r), ~SaveConflicts(r)
  PROVE  /\ event' = event /\ run[r].pc # "idle"
         /\ \E c \in Run : c.pc # "idle" /\ Becomes(r, c)
<1>0. run[r] \in Run /\ run[r].preData \in Response \cup {None}
  BY RunTyped DEF TypeOK
<1>1. \A c \in Run, p \in Stage \ {"idle"} :
        MovesTo(c, p) \in Run /\ MovesTo(c, p).pc # "idle"
  BY MovesFacts
<1>2. Throws \in Run /\ Throws.pc # "idle"
  BY ThrowsFacts
<1>3. \A resp \in Response \cup {None} :
        CallbackDone(resp) \in Run /\ CallbackDone(resp).pc # "idle"
  BY EndsFacts DEF CallbackDone, At
<1>4. \A status \in {"done", "pending"}, at \in At, resp \in Response \cup {None} :
        Ends(status, at, resp) \in Run /\ Ends(status, at, resp).pc # "idle"
  BY EndsFacts
<1>5. cached \in RowOrNone /\ cached.response \in Response
  BY RowFacts DEF TypeOK, NoRow, Response
<1>6. CASE AuthPasses(r) \/ AuthPends(r) \/ AuthThrows(r)
  BY <1>0, <1>1, <1>2, <1>4, <1>6
     DEF AuthPasses, AuthPends, AuthThrows, PendsInAuth, Quiet, Stage, Processor, At
<1>7. CASE FromCached(r)
  <2>1. AfterRead(run[r], cached) \in Run /\ AfterRead(run[r], cached).pc # "idle"
    <3>1. CASE ~_reallyCache \/ cached = NoRow
      BY <1>0, <1>1, <3>1 DEF AfterRead, Stage, Processor
    <3>2. /\ [MovesTo(run[r], "dropping") EXCEPT !.seen = cached] \in Run
          /\ [MovesTo(run[r], "dropping") EXCEPT !.seen = cached].pc # "idle"
          /\ [MovesTo(run[r], "observing") EXCEPT !.seen = cached] \in Run
          /\ [MovesTo(run[r], "observing") EXCEPT !.seen = cached].pc # "idle"
      BY <1>0, <1>5, SeesFacts DEF Stage
    <3>3. /\ Ends("done", "none", cached.response) \in Run
          /\ Ends("done", "none", cached.response).pc # "idle"
      BY <1>4, <1>5 DEF At
    <3> QED BY <3>1, <3>2, <3>3 DEF AfterRead
  <2> QED BY <1>7, <2>1 DEF FromCached, Quiet
<1>8. CASE DropExpired(r) \/ AddObserver(r)
  BY <1>1, <1>2, <1>4, <1>8, IdleFacts
     DEF DropExpired, AddObserver, Stage, Processor, At
<1>9. CASE InvokeSep(r) \/ InvokeSepThrows(r)
  <2>1. \A d \in Response :
          /\ [MovesTo(run[r], "InvokePostprocess") EXCEPT !.preData = d] \in Run
          /\ [MovesTo(run[r], "InvokePostprocess") EXCEPT !.preData = d].pc # "idle"
    BY <1>0, HoldsFacts DEF Stage, Processor
  <2>2. InvokeResults(EventOf[r]) \subseteq Response
    BY SepAssumption DEF InvokeResults, Response
  <2> QED BY <1>2, <1>9, <2>1, <2>2 DEF InvokeSep, InvokeSepThrows, Quiet
<1>10. CASE InvokePostprocess(r) \/ CallbackPostprocess(r)
  BY <1>0, <1>1, <1>2, <1>10
     DEF InvokePostprocess, CallbackPostprocess, Postprocess, Quiet, Stage, Processor
<1>11. CASE ToCache(r)
  <2>1. AfterCache(run[r]) \in Run /\ AfterCache(run[r]).pc # "idle"
    BY <1>0, <1>4 DEF AfterCache, At
  <2> QED BY <1>11, <2>1 DEF ToCache
<1>12. CASE InvokeCallback(r)
  <2>1. /\ [MovesTo(run[r], "updating") EXCEPT !.seen = cached] \in Run
        /\ [MovesTo(run[r], "updating") EXCEPT !.seen = cached].pc # "idle"
    BY <1>0, <1>5, SeesFacts DEF Stage
  <2> QED BY <1>0, <1>3, <1>12, <2>1 DEF InvokeCallback, Quiet
<1>13. CASE UpdateCache(r)
  BY <1>0, <1>2, <1>3, <1>13 DEF UpdateCache
<1> QED BY <1>6, <1>7, <1>8, <1>9, <1>10, <1>11, <1>12, <1>13 DEF ChainStep

(* Such a step does not show in the contract.                              *)
LEMMA RunningStutters ==
  ASSUME TypeOK, NEW r \in Runs, NEW c \in Run, Becomes(r, c),
         event' = event, run[r].pc # "idle", c.pc # "idle"
  PROVE  UNCHANGED Contract!vars
<1>1. \A s \in Runs : run'[s].pc # "idle" <=> run[s].pc # "idle"
  BY BecomesFacts
<1>2. /\ \A s \in Runs : ClaimOf(s)' = ClaimOf(s)
      /\ \A q \in Requests : (Working(q)' <=> Working(q)) /\ OutcomeOf(q)' = OutcomeOf(q)
  BY <1>1 DEF ClaimOf, Working, OutcomeOf
<1> QED BY <1>2, ContractStutters DEF Outcome, Claim, Accepted

(* A run that starts claims its event.                                     *)
LEMMA Claims ==
  ASSUME TypeOK, NEW r \in Runs, NEW c \in Run, Becomes(r, c),
         event' = event, run[r].pc = "idle", c.pc # "idle"
  PROVE  /\ Claim[r] = None /\ Claim' = [Claim EXCEPT ![r] = EventOf[r]]
         /\ Outcome' = Outcome /\ Accepted' = Accepted \cup {EventOf[r]}
<1>1. run'[r] = c /\ \A s \in Runs : s # r => run'[s] = run[s]
  BY BecomesFacts
<1>2. EventOf[r] \in Requests
  BY SepAssumption
<1>3. \A s \in Runs : ClaimOf(s)' = IF s = r THEN EventOf[r] ELSE ClaimOf(s)
  BY <1>1 DEF ClaimOf
<1>4. Claim[r] = None /\ Claim' = [Claim EXCEPT ![r] = EventOf[r]]
  BY <1>3 DEF Claim, ClaimOf
<1>5. \A q \in Requests : Working(q)' <=> Working(q) \/ q = EventOf[r]
  BY <1>1 DEF Working
<1>6. Accepted' = Accepted \cup {EventOf[r]}
  BY <1>2, <1>5 DEF Accepted
<1>7. Outcome' = Outcome
  BY DEF Outcome, OutcomeOf
<1> QED BY <1>4, <1>6, <1>7

LEMMA StartAccepts ==
  ASSUME TypeOK, NEW r \in Runs, Start(r)
  PROVE  Contract!Accept(r, EventOf[r])
<1>1. /\ event[EventOf[r]].status = "new" /\ ~Working(EventOf[r]) /\ event' = event
      /\ Becomes(r, MovesTo(Idle, "InvokeAuth"))
  BY DEF Start, Quiet
<1>2. MovesTo(Idle, "InvokeAuth") \in Run /\ MovesTo(Idle, "InvokeAuth").pc # "idle"
  BY IdleFacts, MovesFacts DEF Stage, Processor
<1>3. /\ Claim[r] = None /\ Claim' = [Claim EXCEPT ![r] = EventOf[r]]
      /\ Outcome' = Outcome /\ Accepted' = Accepted \cup {EventOf[r]}
  BY <1>1, <1>2, Claims DEF Working
<1>4. EventOf[r] \notin Accepted
  BY <1>1 DEF Accepted
<1> QED BY <1>3, <1>4 DEF Contract!Accept, Claim, Outcome, Accepted

(* resume() lets only a pending event through, to any number of runs.      *)
LEMMA ResumeReclaims ==
  ASSUME TypeOK, NEW r \in Runs, NEW c \in Run, Becomes(r, c),
         event' = event, Resumable(EventOf[r]), run[r].pc = "idle", c.pc # "idle"
  PROVE  Contract!Reclaim(r, EventOf[r])
<1>0. EventOf[r] \in Requests
  BY SepAssumption
<1>1. /\ Claim[r] = None /\ Claim' = [Claim EXCEPT ![r] = EventOf[r]]
      /\ Outcome' = Outcome /\ Accepted' = Accepted \cup {EventOf[r]}
  BY Claims
<1>2. EventOf[r] \in Accepted /\ Outcome[EventOf[r]] = "pending"
  BY <1>0 DEF Accepted, Resumable, Outcome, OutcomeOf
<1>3. Accepted' = Accepted
  BY <1>1, <1>2
<1> QED BY <1>1, <1>2, <1>3 DEF Contract!Reclaim, Claim, Outcome, Accepted

LEMMA CommitSettles ==
  ASSUME IInv, NEW r \in Runs, Commit(r)
  PROVE  \E o \in Contract!Outcome \ {"absent"} : Contract!Settle(r, o)
<1> DEFINE q == EventOf[r]
           o == run[r].out.status
<1>1. /\ o \in {"pending", "done", "error"} /\ event'[q].status = o
      /\ q \in Requests /\ run[r].pc = "ending" /\ run'[r].pc = "idle"
      /\ \A p \in Requests : p # q => event'[p] = event[p]
      /\ \A s \in Runs : s # r => run'[s] = run[s]
  BY CommitEvents DEF OutOK
<1> HIDE DEF o
<1>2. Claim[r] = q /\ Claim' = [Claim EXCEPT ![r] = None]
  <2>1. \A s \in Runs : ClaimOf(s)' = IF s = r THEN None ELSE ClaimOf(s)
    BY <1>1 DEF ClaimOf
  <2>2. ClaimOf(r) = q
    BY <1>1 DEF ClaimOf
  <2> QED BY <2>1, <2>2 DEF Claim
<1>3. Outcome' = [Outcome EXCEPT ![q] = o]
  <2>1. \A p \in Requests : OutcomeOf(p)' = IF p = q THEN o ELSE OutcomeOf(p)
    BY <1>1 DEF OutcomeOf
  <2> QED BY <2>1 DEF Outcome
<1>4. Accepted' = Accepted
  <2>1. \A p \in Requests : p # q => (Working(p)' <=> Working(p))
    BY <1>1 DEF Working
  <2>2. Working(q)
    BY <1>1 DEF Working
  <2> QED BY <1>1, <2>1, <2>2 DEF Accepted
<1>5. Contract!Settle(r, o)
  BY <1>1, <1>2, <1>3, <1>4, SepAssumption
     DEF Contract!Settle, Claim, Outcome, Accepted
<1>6. o \in Contract!Outcome \ {"absent"}
  BY <1>1 DEF Contract!Outcome
<1> QED BY <1>5, <1>6

LEMMA RollbackDrops ==
  ASSUME IInv, NEW S \in SUBSET Runs, RolledBack(S)
  PROVE  Contract!Drop(S)
<1>1. /\ \A s \in Runs : run'[s] = IF s \in S THEN Idle ELSE run[s]
      /\ \A o \in Requests :
           /\ \/ event'[o] = event[o]
              \/ event'[o].status = "lost" /\ event[o].status = "new"
           /\ event'[o].status = "new" => (Working(o)' <=> Working(o))
      /\ \A s \in S : run[s].pc # "idle" => event'[EventOf[s]].status # "new"
      /\ \A s \in Runs : s \notin S /\ run[s].pc # "idle" =>
                           event'[EventOf[s]] = event[EventOf[s]]
  BY RolledBackEvents, RolledBackRuns
<1>2. Claim' = [s \in Runs |-> IF s \in S THEN None ELSE Claim[s]]
  <2>1. \A s \in Runs : ClaimOf(s)' = IF s \in S THEN None ELSE ClaimOf(s)
    BY <1>1, IdleFacts DEF ClaimOf
  <2> QED BY <2>1 DEF Claim
<1>3. \A q \in Requests : OutcomeOf(q)' = OutcomeOf(q)
  BY <1>1 DEF OutcomeOf
<1>4. ASSUME NEW q \in Requests
      PROVE  (event[q].status # "new" \/ Working(q))
               <=> (event'[q].status # "new" \/ Working(q)')
  <2>1. event'[q].status = "lost" /\ event[q].status = "new" => Working(q)
    BY DEF RolledBack, Working
  <2> QED BY <1>1, <2>1
<1>5. Outcome' = Outcome /\ Accepted' = Accepted
  BY <1>3, <1>4 DEF Outcome, Accepted
<1> QED BY <1>2, <1>5 DEF Contract!Drop, Claim, Outcome, Accepted

LEMMA ContractStep ==
  ASSUME IInv, [Next]_vars
  PROVE  [Contract!Next]_(Contract!vars)
<1>0. TypeOK /\ \A r \in Runs : EventOf[r] \in Requests
  BY SepAssumption DEF IInv
<1>1. ASSUME NEW r \in Runs, Start(r) PROVE Contract!Next
  BY <1>0, <1>1, StartAccepts DEF Contract!Next
<1>2. ASSUME NEW S \in SUBSET Runs, RolledBack(S) PROVE Contract!Next
  BY <1>2, RollbackDrops DEF Contract!Next
<1>3. ASSUME NEW r \in Runs, ChainStep(r)
      PROVE  Contract!Next \/ UNCHANGED Contract!vars
  <2>1. CASE Commit(r)
    BY <2>1, CommitSettles DEF Contract!Next
  <2>2. CASE SaveConflicts(r)
    BY <1>2, <2>2 DEF SaveConflicts
  <2>3. CASE ~Commit(r) /\ ~SaveConflicts(r)
    BY <1>0, <1>3, <2>3, ChainGoesOn, RunningStutters
  <2> QED BY <2>1, <2>2, <2>3
<1>4. ASSUME NEW r \in Runs, ResumeCallback(r) PROVE Contract!Next
  <2>1. PICK at \in {"InvokeAuth", "CallbackPostprocess"} : at = event[EventOf[r]].at
    BY <1>4, Now DEF EventOK, ResumeCallback, Resumable
  <2> DEFINE c == Resumed(at, EventOf[r])
  <2>2. /\ Resumable(EventOf[r]) /\ run[r].pc = "idle"
        /\ Becomes(r, c) /\ event' = event
    BY <1>4, <2>1 DEF ResumeCallback
  <2>3. c \in Run /\ c.pc # "idle"
    BY <1>0, ResumedFacts
  <2> HIDE DEF c
  <2> QED BY <1>0, <2>2, <2>3, ResumeReclaims DEF Contract!Next
<1>5. ASSUME NEW n \in Notice, Notify(n)
      PROVE  Contract!Next \/ UNCHANGED Contract!vars
  <2> DEFINE c == CallbackDone(n.data)
  <2>1. n.to \in Requests /\ n.data \in Requests
    BY DEF Notice
  <2>2. c \in Run /\ c.pc # "idle"
    BY <2>1, CallbackDoneFacts DEF Response
  <2>3. CASE Resumable(n.to)
    <3>1. PICK r \in Runs : EventOf[r] = n.to /\ run[r].pc = "idle" /\ Becomes(r, c)
      BY <1>5, <2>3 DEF Notify
    <3>2. event' = event
      BY <1>5 DEF Notify
    <3> HIDE DEF c
    <3>3. Contract!Reclaim(r, EventOf[r])
      BY <1>0, <2>2, <2>3, <3>1, <3>2, ResumeReclaims
    <3> QED BY <1>0, <3>3 DEF Contract!Next
  <2>4. CASE ~Resumable(n.to)
    <3>1. UNCHANGED <<event, run>>
      BY <1>5, <2>4 DEF Notify
    <3> QED BY <3>1, ContractStutters
            DEF Outcome, Claim, Accepted, OutcomeOf, ClaimOf, Working
  <2> QED BY <2>3, <2>4
<1>6. CASE Restart
  BY <1>2, <1>6 DEF Restart
<1>7. CASE Expire \/ UNCHANGED vars
  BY <1>7, ContractStutters
     DEF Expire, vars, Outcome, Claim, Accepted, OutcomeOf, ClaimOf, Working
<1>8. ASSUME NEW r \in Runs, Abort(r) PROVE Contract!Next
  BY <1>2, <1>8 DEF Abort
<1> QED BY <1>1, <1>3, <1>4, <1>5, <1>6, <1>7, <1>8 DEF Next

(* The requests to one cache key keep the promise of EventContract: their  *)
(* events change only through a run that claimed them when they were new   *)
(* or pending, so neither a late callback nor notifyObservers() changes    *)
(* one that is settled.                                                    *)
THEOREM Refinement == Spec => ImplementsContract
<1>1. Spec => []IInv
  BY Invariance
<1>2. Init => Contract!Init
  BY ContractInit
<1>3. IInv /\ [Next]_vars => [Contract!Next]_(Contract!vars)
  BY ContractStep
<1> QED BY <1>1, <1>2, <1>3, PTL DEF Spec, ImplementsContract, Contract!Spec

LEMMA SettledStep ==
  ASSUME IInv, [Next]_vars, NEW e \in Requests, Contract!Settled(e)
  PROVE  Contract!Settled(e)'
<1> USE DEF Outcome, Claim, Accepted
<1>1. [Contract!Next]_(Contract!vars)
  BY ContractStep
<1>2. Outcome[e] \in {"done", "error"} /\ \A r \in Runs : Claim[r] # e
  BY DEF Contract!Settled, Contract!Final, Contract!Claimed
<1>3. e \in Accepted /\ e # None
  BY <1>2, SepAssumption DEF OutcomeOf
<1>4. SUFFICES Outcome'[e] = Outcome[e] /\ \A r \in Runs : Claim'[r] # e
  BY <1>2 DEF Contract!Settled, Contract!Final, Contract!Claimed
<1> HIDE DEF Outcome, Claim, Accepted
<1>5. /\ Outcome = [f \in Requests |-> Outcome[f]]
      /\ Claim = [r \in Runs |-> Claim[r]]
  BY DEF Outcome, Claim
<1>6. ASSUME NEW r \in Runs, NEW f \in Requests,
             Contract!Accept(r, f) \/ Contract!Reclaim(r, f)
      PROVE  Outcome'[e] = Outcome[e] /\ \A s \in Runs : Claim'[s] # e
  <2>1. Outcome' = Outcome /\ Claim' = [Claim EXCEPT ![r] = f] /\ f # e
    BY <1>2, <1>3, <1>6 DEF Contract!Accept, Contract!Reclaim, Outcome, Claim, Accepted
  <2> QED BY <1>2, <1>5, <2>1
<1>7. ASSUME NEW f \in Requests, Contract!Refuse(f)
      PROVE  Outcome' = Outcome /\ Claim' = Claim
  BY <1>7 DEF Contract!Refuse, Outcome, Claim
<1>8. ASSUME NEW r \in Runs, NEW o, Contract!Settle(r, o)
      PROVE  Outcome'[e] = Outcome[e] /\ \A s \in Runs : Claim'[s] # e
  <2>1. /\ Outcome' = [Outcome EXCEPT ![Claim[r]] = o]
        /\ Claim' = [Claim EXCEPT ![r] = None]
    BY <1>8 DEF Contract!Settle, Outcome, Claim
  <2> QED BY <1>2, <1>3, <1>5, <2>1
<1>9. ASSUME NEW S \in SUBSET Runs, Contract!Drop(S)
      PROVE  Outcome' = Outcome /\ \A s \in Runs : Claim'[s] # e
  <2>1. /\ Outcome' = Outcome
        /\ Claim' = [s \in Runs |-> IF s \in S THEN None ELSE Claim[s]]
    BY <1>9 DEF Contract!Drop, Outcome, Claim
  <2> QED BY <1>2, <1>3, <2>1
<1>10. ASSUME UNCHANGED Contract!vars PROVE Outcome' = Outcome /\ Claim' = Claim
  BY <1>10 DEF Contract!vars, Outcome, Claim
<1> QED
  BY <1>1, <1>2, <1>6, <1>7, <1>8, <1>9, <1>10 DEF Contract!Next

(* A settled request stays settled: neither a late callback nor a response *)
(* announced twice runs it again or changes what was stored for it.        *)
THEOREM SettledForeverHolds == Spec => Contract!SettledForever
<1>1. IInv /\ [Next]_vars =>
        [\A e \in Requests : Contract!Settled(e) => Contract!Settled(e)']_(Contract!vars)
  BY SettledStep
<1> QED BY <1>1, Invariance, PTL DEF Spec, Contract!SettledForever

============================================================================
