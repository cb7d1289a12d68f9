--------------------------- MODULE EventDispatch ---------------------------
(***************************************************************************)
(* EventListenersService and the part of EventStoresService it drives:     *)
(* emit() walks an event through the listeners in priority order, a        *)
(* listener may suspend the event (statusCode 2), and resume() walks on    *)
(* from the suspended listener when an external callback arrives.          *)
(*                                                                         *)
(* The process is a Node server: many runs of _invokeListeners interleave  *)
(* at their awaits, each in a database transaction of its own              *)
(* (Propagation.RequiresNew), and nothing but the EventStore row survives  *)
(* a run.  One call of a listener is one step.  A resume() refused because *)
(* the row is missing or not pending, or because the callback names no     *)
(* invocation, changes nothing and is not a step.                          *)
(***************************************************************************)
EXTENDS Integers

CONSTANTS Events,     \* event ids
          Runs,       \* slots for concurrent runs of _invokeListeners
          Listeners,  \* EventListener ids
          Prio,       \* EventListener.priority
          Preset,     \* listeners registered by prisma/seed.ts
          Stoppers,   \* listeners that may set event.stopPropagation
          Callbacks,  \* events whose request carries a callback URL
          None        \* null

ASSUME ConstantsAssumption ==
  /\ Prio \in [Listeners -> Int]
  /\ Preset \subseteq Listeners
  /\ Stoppers \subseteq Listeners
  /\ Callbacks \subseteq Events
  /\ None \notin Events /\ None \notin Listeners

VARIABLES store,      \* committed EventStore rows
          listener,   \* state of the EventListener rows
          run,        \* the runs in memory
          answer,     \* what the caller of emit() has got
          born,       \* history: listeners loaded when the event was emitted
          completed   \* history: listeners whose work for the event is committed

vars == <<store, listener, run, answer, born, completed>>

Code == {"done", "processing", "pending", "error"}    \* statusCode 0, 1, 2, other
Status == Code \cup {"absent"}
ListenerOrNone == Listeners \cup {None}

(* funName of a row names a method of the service of one listener: it is   *)
(* represented by that listener.                                           *)
Row == [status : Status, fun : ListenerOrNone, listener : ListenerOrNone,
        stop : BOOLEAN]
NoRow == [status |-> "absent", fun |-> None, listener |-> None, stop |-> FALSE]

(* pc: admitted = resume() has read a pending row; looping = in the loop;   *)
(* ending = in the finally block, nothing committed yet; answering =       *)
(* committed, the result not yet returned to the caller of emit().         *)
Run == [pc : {"idle", "admitted", "looping", "ending", "answering"},
        kind : {"emit", "resume"},
        event : Events \cup {None},
        rest : SUBSET Listeners,    \* listeners[idx..]
        first : ListenerOrNone,     \* listeners[0] when it is known, or None
        fun : ListenerOrNone,
        at : ListenerOrNone,        \* nextListener of the finally block
        status : Code,
        stop : BOOLEAN,
        ran : SUBSET Listeners]     \* history: calls that returned no funName
Idle == [pc |-> "idle", kind |-> "emit", event |-> None, rest |-> {},
         first |-> None, fun |-> None, at |-> None, status |-> "processing",
         stop |-> FALSE, ran |-> {}]

Answer == {"new", "waiting", "timeout", "failed", "undefined"} \cup Code

Init ==
  /\ store = [e \in Events |-> NoRow]
  /\ listener = [l \in Listeners |-> IF l \in Preset THEN "live" ELSE "none"]
  /\ run = [r \in Runs |-> Idle]
  /\ answer = [e \in Events |-> "new"]
  /\ born = [e \in Events |-> {}]
  /\ completed = [e \in Events |-> {}]

----------------------------------------------------------------------------
(* Listener rows. *)

Live == {l \in Listeners : listener[l] = "live"}

AddListener(l) ==
  /\ listener[l] = "none"
  /\ listener' = [listener EXCEPT ![l] = "live"]
  /\ UNCHANGED <<store, run, answer, born, completed>>

(* A soft delete: the row stays, deletedAt is set. *)
RemoveListener(l) ==
  /\ listener[l] = "live"
  /\ listener' = [listener EXCEPT ![l] = "deleted"]
  /\ UNCHANGED <<store, run, answer, born, completed>>

(* The listeners resumeListeners() may return for a row suspended at p:    *)
(* the live ones from p on.  Rows of equal priority come in any order.     *)
ResumeLists(p) ==
  IF p = None
  THEN {Live}
  ELSE LET later == {l \in Live : Prio[l] > Prio[p]}
           ties  == {l \in Live : Prio[l] = Prio[p] /\ l # p}
       IN  {later \cup kept \cup (Live \cap {p}) : kept \in SUBSET ties}

(* listeners[idx]: the lowest priority first, any order within one. *)
Heads(c) ==
  IF c.first # None
  THEN {c.first}
  ELSE {l \in c.rest : \A m \in c.rest : Prio[l] <= Prio[m]}

----------------------------------------------------------------------------
(* Starting a run. *)

StartLoop(kind, e, rest, first, fun, stop) ==
  [Idle EXCEPT !.pc = "looping", !.kind = kind, !.event = e, !.rest = rest,
               !.first = first, !.fun = fun, !.stop = stop]

Emit(r, e) ==
  /\ run[r].pc = "idle"
  /\ answer[e] = "new"
  /\ Live # {}
  /\ run' = [run EXCEPT ![r] = StartLoop("emit", e, Live, None, None, FALSE)]
  /\ answer' = [answer EXCEPT ![e] = "waiting"]
  /\ born' = [born EXCEPT ![e] = Live]
  /\ UNCHANGED <<store, listener, completed>>

(* loadListeners() throws: no listeners found for the event. *)
EmitRefused(e) ==
  /\ answer[e] = "new"
  /\ Live = {}
  /\ answer' = [answer EXCEPT ![e] = "failed"]
  /\ UNCHANGED <<store, listener, run, born, completed>>

(* resume(): the row is read and its status checked; the row is not        *)
(* changed and not locked.                                                 *)
ResumableUnlessDone(e) ==   \* faulty: a failed event may be resumed
  store[e].status \notin {"absent", "done"}

Resumable(e) == store[e].status = "pending"

Admit(r, e) ==
  /\ run[r].pc = "idle"
  /\ Resumable(e)
  /\ run' = [run EXCEPT ![r] = [Idle EXCEPT !.pc = "admitted",
                                            !.kind = "resume",
                                            !.event = e,
                                            !.fun = store[e].fun,
                                            !.at = store[e].listener,
                                            !.stop = store[e].stop]]
  /\ UNCHANGED <<store, listener, answer, born, completed>>

(* resume(): resumeListeners(), then the loop is entered, or               *)
(* UnprocessableEntity is thrown when no listener is left.                 *)
AfterLoad(c, rest) ==
  IF rest = {}
  THEN Idle
  ELSE StartLoop("resume", c.event, rest,
                 IF c.at \in rest THEN c.at ELSE None, c.fun, c.stop)

LoadRest(r) ==
  /\ run[r].pc = "admitted"
  /\ \E rest \in ResumeLists(run[r].at) :
       run' = [run EXCEPT ![r] = AfterLoad(@, rest)]
  /\ UNCHANGED <<store, listener, answer, born, completed>>

----------------------------------------------------------------------------
(* The loop of _invokeListeners. *)

Turn(r, l) ==
  /\ run[r].pc = "looping"
  /\ ~run[r].stop
  /\ l \in Heads(run[r])

(* service[funName || target.funName] exists *)
Callable(r, l) == run[r].fun \in {None, l}

MayStop(l) == IF l \in Stoppers THEN BOOLEAN ELSE {FALSE}

(* The status once a listener has returned no resumeFunName. *)
StatusAfter(stop, left) == IF stop \/ left = {} THEN "done" ELSE "processing"

AfterDone(c, l, stop) ==
  LET left == c.rest \ {l}
  IN  [c EXCEPT !.pc = IF stop \/ left = {} THEN "ending" ELSE "looping",
                !.status = StatusAfter(stop, left), !.rest = left,
                !.first = None, !.fun = None, !.at = None, !.stop = stop,
                !.ran = c.ran \cup {l}]

(* nextListener is the current listener, and so is the owner of funName. *)
AfterPend(c, l, stop) ==
  [c EXCEPT !.pc = "ending", !.status = "pending", !.rest = c.rest \ {l},
            !.first = None, !.fun = l, !.at = l, !.stop = stop]

(* The catch block keeps funName. *)
AfterThrow(c, l, stop) ==
  [c EXCEPT !.pc = "ending", !.status = "error", !.rest = c.rest \ {l},
            !.first = None, !.at = l, !.stop = stop]

ListenerDone(r, l) ==
  /\ Turn(r, l)
  /\ Callable(r, l)
  /\ \E s \in MayStop(l) : run' = [run EXCEPT ![r] = AfterDone(@, l, s)]
  /\ UNCHANGED <<store, listener, answer, born, completed>>

(* The listener returns a resumeFunName. *)
ListenerPends(r, l) ==
  /\ Turn(r, l)
  /\ Callable(r, l)
  /\ \E s \in MayStop(l) : run' = [run EXCEPT ![r] = AfterPend(@, l, s)]
  /\ UNCHANGED <<store, listener, answer, born, completed>>

(* The listener throws, or its service has no such method. *)
ListenerThrows(r, l) ==
  /\ Turn(r, l)
  /\ \E s \in IF Callable(r, l) THEN MayStop(l) ELSE {FALSE} :
       run' = [run EXCEPT ![r] = AfterThrow(@, l, s)]
  /\ UNCHANGED <<store, listener, answer, born, completed>>

(* if (event.stopPropagation) break, before any listener is called: only   *)
(* a resumed event can arrive here with the flag set.                      *)
AfterBreak(c, l) == [c EXCEPT !.pc = "ending", !.at = l]

StopsAtHead(r) ==
  /\ run[r].pc = "looping"
  /\ run[r].stop
  /\ \E l \in Heads(run[r]) : run' = [run EXCEPT ![r] = AfterBreak(@, l)]
  /\ UNCHANGED <<store, listener, answer, born, completed>>

----------------------------------------------------------------------------
(* The end of a run. *)

(* upsertEvent(): a successful event keeps its last listenerId, funName. *)
UpsertNoFun(row, c) ==   \* faulty: funName only written for a new row
  [status |-> c.status, fun |-> row.fun,
   listener |-> IF c.status = "done" /\ c.at = None THEN row.listener ELSE c.at,
   stop |-> c.stop]

UpsertNoStop(row, c) ==   \* faulty: stopPropagation is not persisted
  [status |-> c.status,
   fun |-> IF c.status = "done" /\ c.fun = None THEN row.fun ELSE c.fun,
   listener |-> IF c.status = "done" /\ c.at = None THEN row.listener ELSE c.at,
   stop |-> FALSE]

Upsert(row, c) ==
  [status |-> c.status,
   fun |-> IF c.status = "done" /\ c.fun = None THEN row.fun ELSE c.fun,
   listener |-> IF c.status = "done" /\ c.at = None THEN row.listener ELSE c.at,
   stop |-> c.stop]

(* The finally block, and the commit of the run's own transaction. *)
AfterCommit(c) ==
  IF c.kind = "emit" THEN [c EXCEPT !.pc = "answering"] ELSE Idle

Commit(r) ==
  LET e == run[r].event
  IN  /\ run[r].pc = "ending"
      /\ store' = [store EXCEPT ![e] = Upsert(@, run[r])]
      /\ completed' = [completed EXCEPT ![e] = @ \cup run[r].ran]
      /\ run' = [run EXCEPT ![r] = AfterCommit(@)]
      /\ UNCHANGED <<listener, answer, born>>

(* _invokeCallback(): nothing is returned when the event is done and has   *)
(* a callback URL.                                                         *)
InvokeCallback(e, status) ==
  IF status = "done" /\ e \in Callbacks THEN "undefined" ELSE status

(* Only the first of the result and the sync timeout reaches the caller. *)
AnsweredUnlessFailed(e, a) ==   \* faulty: a rejection is swallowed
  IF answer[e] = "waiting" /\ a # "failed" THEN a ELSE answer[e]

Answered(e, a) == IF answer[e] = "waiting" THEN a ELSE answer[e]

Reply(r) ==
  LET e == run[r].event
  IN  /\ run[r].pc = "answering"
      /\ answer' = [answer EXCEPT ![e] =
                      Answered(e, InvokeCallback(e, run[r].status))]
      /\ run' = [run EXCEPT ![r] = Idle]
      /\ UNCHANGED <<store, listener, born, completed>>

(* emit(data, timeout): the caller is told 1 (processing), the run goes on. *)
SyncTimeout(e) ==
  /\ answer[e] = "waiting"
  /\ answer' = [answer EXCEPT ![e] = "timeout"]
  /\ UNCHANGED <<store, listener, run, born, completed>>

(* A database error or the transaction timeout: the run rejects and its    *)
(* transaction is rolled back.                                             *)
Abort(r) ==
  LET e == run[r].event
  IN  /\ run[r].pc \in {"admitted", "looping", "ending"}
      /\ run' = [run EXCEPT ![r] = Idle]
      /\ answer' = IF run[r].kind = "emit"
                   THEN [answer EXCEPT ![e] = Answered(e, "failed")]
                   ELSE answer
      /\ UNCHANGED <<store, listener, born, completed>>

(* The server process ends and is started again. *)
Restart ==
  /\ \E r \in Runs : run[r].pc # "idle"
  /\ run' = [r \in Runs |-> Idle]
  /\ answer' = [e \in Events |-> Answered(e, "failed")]
  /\ UNCHANGED <<store, listener, born, completed>>

----------------------------------------------------------------------------
RunStep(r) ==
  \/ LoadRest(r)
  \/ \E l \in Listeners :
       ListenerDone(r, l) \/ ListenerPends(r, l) \/ ListenerThrows(r, l)
  \/ StopsAtHead(r)
  \/ Commit(r)
  \/ Reply(r)

Next ==
  \/ \E l \in Listeners : AddListener(l) \/ RemoveListener(l)
  \/ \E r \in Runs, e \in Events : Emit(r, e) \/ Admit(r, e)
  \/ \E e \in Events : EmitRefused(e) \/ SyncTimeout(e)
  \/ \E r \in Runs : RunStep(r) \/ Abort(r)
  \/ Restart

Spec == Init /\ [][Next]_vars

(* The event loop runs every continuation that is ready, and a listener    *)
(* call is taken to settle.  Nothing obliges a callback to arrive, a       *)
(* timeout to fire or the server to restart.                               *)
FairSpec == Spec /\ \A r \in Runs : WF_vars(RunStep(r))

----------------------------------------------------------------------------
(* Properties. *)

TypeOK ==
  /\ store \in [Events -> Row]
  /\ listener \in [Listeners -> {"none", "live", "deleted"}]
  /\ run \in [Runs -> Run]
  /\ answer \in [Events -> Answer]
  /\ born \in [Events -> SUBSET Listeners]
  /\ completed \in [Events -> SUBSET Listeners]

Looping(r) == run[r].pc = "looping"

(* A suspended row always says where to go on: the listener that suspended *)
(* the event, and a method of that listener's own service, whatever runs   *)
(* raced on the row before (statusCode 2: the callback calls               *)
(* current-listener.funName).                                              *)
PendingNamesOwner ==
  \A e \in Events :
    store[e].status = "pending" =>
      store[e].listener \in Listeners /\ store[e].fun = store[e].listener

(* "processing" is an intermediate value of the loop; a row keeps it       *)
(* forever only when a resumed event was already told to stop.             *)
StuckOnlyByStop ==
  \A e \in Events : store[e].status = "processing" => store[e].stop

(* The last word the caller of emit() was given is what the row says, even *)
(* when callbacks that raced with the answer resumed the event: a final    *)
(* answer is final in the row, and a caller told "pending" can resume.     *)
AnswerMatchesStore ==
  \A e \in Events :
    /\ answer[e] \in {"done", "error"} => store[e].status = answer[e]
    /\ answer[e] = "undefined" => store[e].status = "done"
    /\ answer[e] = "pending" => store[e].status # "absent"

(* A callback's method name is only ever carried to the listener that      *)
(* asked for it: while a run still holds the name, its listener is in the  *)
(* rest of the list, unless the listener was deleted in the meantime.      *)
ResumeReachesOwner ==
  \A r \in Runs :
    Looping(r) /\ run[r].fun # None =>
      run[r].fun \in run[r].rest \/ listener[run[r].fun] = "deleted"

(* Listeners that share their priority with another one may be skipped by  *)
(* a resume, whose list is read again in an order nothing determines.      *)
UniquePrio(l) == \A m \in Listeners : Prio[m] = Prio[l] => m = l

(* An event is reported done only when every listener it was emitted to    *)
(* has done its work, and committed it: suspensions, aborts and concurrent *)
(* resumes between the first listener and the last skip nobody.            *)
NoListenerSkipped ==
  \A e \in Events :
    store[e].status = "done" /\ ~store[e].stop =>
      \A l \in born[e] \cap Live : UniquePrio(l) => l \in completed[e]

(* The bus promises of each event what EventContract says. *)
Working == {"admitted", "looping", "ending"}

Contract == INSTANCE EventContract WITH
  outcome <- [e \in Events |-> store[e].status],
  claim <- [r \in Runs |-> IF run[r].pc \in Working THEN run[r].event
                           ELSE None],
  accepted <- {e \in Events : answer[e] # "new"}

(* Every step of the service is one the contract allows: a row only        *)
(* changes through a claim taken on a new or a pending event.              *)
ImplementsContract == Contract!Spec

(* Once a row is final and no run works on the event, no late or repeated  *)
(* callback changes it.                                                    *)
SettledForever == Contract!SettledForever

(* The caller of emit() gets an answer: a result, a failure or a timeout.  *)
EmitAnswered == \A e \in Events : answer[e] = "waiting" ~> answer[e] # "waiting"

----------------------------------------------------------------------------
(* The inductive invariant behind the safety properties. *)

(* What a run may hold at each of its stages. *)
ShapeOK(c) ==
  /\ c.pc = "idle" => c = Idle
  /\ c.pc # "idle" => c.event \in Events
  /\ c.pc = "admitted" =>
       /\ c.kind = "resume"
       /\ c.at \in Listeners /\ c.fun = c.at
       /\ listener[c.at] # "none"
  /\ c.pc = "looping" =>
       /\ c.status = "processing"
       /\ c.kind = "emit" => ~c.stop
       /\ c.first # None => c.first \in c.rest
       /\ \A l \in c.rest :
            /\ listener[l] # "none"
            /\ c.first # None => Prio[c.first] <= Prio[l]
  /\ c.pc \in {"ending", "answering"} =>
       /\ c.status = "processing" => c.stop /\ c.kind = "resume"
       /\ c.status = "pending" =>
            /\ c.at \in Listeners /\ c.fun = c.at
            /\ listener[c.at] # "none"
  /\ c.pc = "answering" => c.kind = "emit"

RunShape == \A r \in Runs : ShapeOK(run[r])

RowShape ==
  \A e \in Events :
    /\ store[e].status = "pending" => listener[store[e].listener] # "none"
    /\ \A l \in born[e] : listener[l] # "none"
    /\ answer[e] = "new" => store[e].status = "absent"

Unclaimed(e) == \A r \in Runs : run[r].pc \in Working => run[r].event # e

(* Only an event nobody has answered yet is being emitted, and only one    *)
(* that is stored is resumed.                                              *)
ClaimOK(c) ==
  /\ c.pc # "idle" => answer[c.event] # "new"
  /\ c.pc # "idle" /\ c.kind = "emit" =>
       answer[c.event] \in {"waiting", "timeout", "failed"}
  /\ c.pc \in Working => (c.kind = "emit" <=> store[c.event].status = "absent")
  /\ c.pc = "answering" =>
       /\ store[c.event].status # "absent"
       /\ c.status \in {"done", "error"} =>
            store[c.event].status = c.status /\ Unclaimed(c.event)

Emitting(c, e) == c.pc # "idle" /\ c.kind = "emit" /\ c.event = e

Claims ==
  /\ \A r \in Runs : ClaimOK(run[r])
  /\ \A r, s \in Runs, e \in Events :
       Emitting(run[r], e) /\ Emitting(run[s], e) => r = s
  /\ \A e \in Events :
       answer[e] \in {"done", "error", "undefined"} => Unclaimed(e)

(* The listeners an event must have passed before it is done. *)
Required(e) == {l \in born[e] \cap Live : UniquePrio(l)}
Before(e, p) == {l \in Required(e) : Prio[l] < Prio[p]}

(* Whoever is required and not yet reached is still to come. *)
CoverOK(c) ==
  /\ c.pc = "admitted" => Before(c.event, c.at) \subseteq completed[c.event]
  /\ c.pc = "looping" =>
       Required(c.event) \subseteq c.rest \cup c.ran \cup completed[c.event]
  /\ c.pc = "ending" /\ c.status = "done" /\ ~c.stop =>
       Required(c.event) \subseteq c.ran \cup completed[c.event]
  /\ c.pc = "ending" /\ c.status = "pending" =>
       Before(c.event, c.at) \subseteq c.ran \cup completed[c.event]

Coverage ==
  /\ \A r \in Runs : CoverOK(run[r])
  /\ \A e \in Events :
       store[e].status = "pending" =>
         Before(e, store[e].listener) \subseteq completed[e]

IInv ==
  /\ RunShape
  /\ PendingNamesOwner
  /\ RowShape
  /\ Claims
  /\ Coverage
  /\ StuckOnlyByStop
  /\ AnswerMatchesStore
  /\ ResumeReachesOwner
  /\ NoListenerSkipped

============================================================================
