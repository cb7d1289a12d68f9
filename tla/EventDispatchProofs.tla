------------------------ MODULE EventDispatchProofs ------------------------
(***************************************************************************)
(* Proofs about EventDispatch, for every set of events, runs and listeners *)
(* and every assignment of priorities: type correctness, the inductive     *)
(* invariant IInv and the safety properties it implies, and the            *)
(* refinement of EventContract.                                            *)
(***************************************************************************)
EXTENDS EventDispatch, TLAPS

USE DEF Code, Status, ListenerOrNone

(* A record of a run stays one when a slot is set to a typed record. *)
LEMMA IdleTyped == Idle \in Run
BY DEF Idle, Run

LEMMA StartLoopTyped ==
  ASSUME NEW kind \in {"emit", "resume"}, NEW e \in Events \cup {None},
         NEW rest \in SUBSET Listeners, NEW first \in ListenerOrNone,
         NEW fun \in ListenerOrNone, NEW stop \in BOOLEAN
  PROVE  StartLoop(kind, e, rest, first, fun, stop) \in Run
BY DEF StartLoop, Idle, Run

LEMMA AfterTyped ==
  ASSUME NEW c \in Run, NEW l \in Listeners, NEW stop \in BOOLEAN
  PROVE  /\ AfterDone(c, l, stop) \in Run
         /\ AfterPend(c, l, stop) \in Run
         /\ AfterThrow(c, l, stop) \in Run
         /\ AfterBreak(c, l) \in Run
<1>0. c.rest \ {l} \in SUBSET Listeners /\ c.ran \cup {l} \in SUBSET Listeners
  BY DEF Run
<1>1. ASSUME NEW pc \in {"looping", "ending"}, NEW st \in Code,
             NEW rest \in SUBSET Listeners, NEW ran \in SUBSET Listeners
      PROVE  [c EXCEPT !.pc = pc, !.status = st, !.rest = rest, !.first = None,
                       !.fun = None, !.at = None, !.stop = stop, !.ran = ran]
             \in Run
  BY DEF Run
<1>2. AfterDone(c, l, stop) \in Run
  BY <1>0, <1>1 DEF AfterDone, StatusAfter
<1>3. ASSUME NEW rest \in SUBSET Listeners
      PROVE  /\ [c EXCEPT !.pc = "ending", !.status = "pending", !.rest = rest,
                          !.first = None, !.fun = l, !.at = l, !.stop = stop]
                 \in Run
             /\ [c EXCEPT !.pc = "ending", !.status = "error", !.rest = rest,
                          !.first = None, !.at = l, !.stop = stop] \in Run
  BY DEF Run
<1>4. AfterPend(c, l, stop) \in Run /\ AfterThrow(c, l, stop) \in Run
  BY <1>0, <1>3 DEF AfterPend, AfterThrow
<1>5. AfterBreak(c, l) \in Run
  BY DEF AfterBreak, Run
<1> QED BY <1>2, <1>4, <1>5

LEMMA AfterLoadTyped ==
  ASSUME NEW c \in Run, NEW rest \in SUBSET Listeners
  PROVE  AfterLoad(c, rest) \in Run
<1>1. /\ c.event \in Events \cup {None} /\ c.at \in ListenerOrNone
      /\ c.fun \in ListenerOrNone /\ c.stop \in BOOLEAN
  BY DEF Run
<1> QED BY <1>1, IdleTyped, StartLoopTyped DEF AfterLoad

LEMMA TypeInit == Init => TypeOK
BY ConstantsAssumption, IdleTyped DEF Init, TypeOK, NoRow, Row, Answer

LEMMA HeadsTyped ==
  ASSUME NEW c \in Run
  PROVE  Heads(c) \subseteq Listeners
BY DEF Heads, Run

LEMMA ResumeListsTyped ==
  ASSUME NEW p, NEW rest \in ResumeLists(p)
  PROVE  rest \in SUBSET Listeners
BY DEF ResumeLists, Live

LEMMA UpsertTyped ==
  ASSUME NEW row \in Row, NEW c \in Run
  PROVE  Upsert(row, c) \in Row
BY DEF Upsert, Row, Run

LEMMA TypeStep == TypeOK /\ [Next]_vars => TypeOK'
<1> SUFFICES ASSUME TypeOK, [Next]_vars PROVE TypeOK'
  OBVIOUS
<1> USE DEF TypeOK
<1>1. ASSUME NEW l \in Listeners, AddListener(l) PROVE TypeOK'
  BY <1>1 DEF AddListener
<1>2. ASSUME NEW l \in Listeners, RemoveListener(l) PROVE TypeOK'
  BY <1>2 DEF RemoveListener
<1>3. ASSUME NEW r \in Runs, NEW e \in Events, Emit(r, e) PROVE TypeOK'
  <2>1. StartLoop("emit", e, Live, None, None, FALSE) \in Run
    BY StartLoopTyped DEF Live
  <2> QED BY <1>3, <2>1 DEF Emit, Answer, Live
<1>4. ASSUME NEW r \in Runs, NEW e \in Events, Admit(r, e) PROVE TypeOK'
  BY <1>4 DEF Admit, Run, Idle, Row
<1>5. ASSUME NEW e \in Events, EmitRefused(e) PROVE TypeOK'
  BY <1>5 DEF EmitRefused, Answer
<1>6. ASSUME NEW e \in Events, SyncTimeout(e) PROVE TypeOK'
  BY <1>6 DEF SyncTimeout, Answer
<1>7. ASSUME NEW r \in Runs, LoadRest(r) PROVE TypeOK'
  <2>1. PICK rest \in ResumeLists(run[r].at) :
          run' = [run EXCEPT ![r] = AfterLoad(run[r], rest)]
    BY <1>7 DEF LoadRest
  <2>2. AfterLoad(run[r], rest) \in Run
    BY AfterLoadTyped, ResumeListsTyped
  <2> QED BY <1>7, <2>1, <2>2 DEF LoadRest
<1>8. ASSUME NEW r \in Runs, NEW l \in Listeners, ListenerDone(r, l)
      PROVE  TypeOK'
  <2>1. PICK s \in BOOLEAN : run' = [run EXCEPT ![r] = AfterDone(run[r], l, s)]
    BY <1>8 DEF ListenerDone, MayStop
  <2>2. AfterDone(run[r], l, s) \in Run
    BY AfterTyped
  <2> QED BY <1>8, <2>1, <2>2 DEF ListenerDone
<1>9. ASSUME NEW r \in Runs, NEW l \in Listeners, ListenerPends(r, l)
      PROVE  TypeOK'
  <2>1. PICK s \in BOOLEAN : run' = [run EXCEPT ![r] = AfterPend(run[r], l, s)]
    BY <1>9 DEF ListenerPends, MayStop
  <2>2. AfterPend(run[r], l, s) \in Run
    BY AfterTyped
  <2> QED BY <1>9, <2>1, <2>2 DEF ListenerPends
<1>10. ASSUME NEW r \in Runs, NEW l \in Listeners, ListenerThrows(r, l)
       PROVE  TypeOK'
  <2>1. PICK s \in BOOLEAN : run' = [run EXCEPT ![r] = AfterThrow(run[r], l, s)]
    BY <1>10 DEF ListenerThrows, MayStop
  <2>2. AfterThrow(run[r], l, s) \in Run
    BY AfterTyped
  <2> QED BY <1>10, <2>1, <2>2 DEF ListenerThrows
<1>11. ASSUME NEW r \in Runs, StopsAtHead(r) PROVE TypeOK'
  <2>1. PICK l \in Heads(run[r]) : run' = [run EXCEPT ![r] = AfterBreak(run[r], l)]
    BY <1>11 DEF StopsAtHead
  <2>2. AfterBreak(run[r], l) \in Run
    BY AfterTyped, HeadsTyped
  <2> QED BY <1>11, <2>1, <2>2 DEF StopsAtHead
<1>12. ASSUME NEW r \in Runs, Commit(r) PROVE TypeOK'
  <2>1. run[r] \in Run
    OBVIOUS
  <2>2. AfterCommit(run[r]) \in Run
    BY <2>1, IdleTyped DEF AfterCommit, Run
  <2>3. run' \in [Runs -> Run]
    BY <1>12, <2>2 DEF Commit
  <2>4. store' \in [Events -> Row]
    <3>1. CASE run[r].event \in Events
      BY <1>12, <2>1, <3>1, UpsertTyped DEF Commit
    <3>2. CASE run[r].event \notin Events
      BY <1>12, <3>2 DEF Commit
    <3> QED BY <3>1, <3>2
  <2>5. completed' \in [Events -> SUBSET Listeners]
    <3>1. run[r].ran \subseteq Listeners
      BY <2>1 DEF Run
    <3> QED BY <1>12, <3>1 DEF Commit
  <2> QED BY <1>12, <2>3, <2>4, <2>5 DEF Commit
<1>13. ASSUME NEW r \in Runs, Reply(r) PROVE TypeOK'
  <2>1. run' \in [Runs -> Run]
    BY <1>13, IdleTyped DEF Reply
  <2>2. answer' \in [Events -> Answer]
    BY <1>13 DEF Reply, Answered, InvokeCallback, Run, Answer
  <2> QED BY <1>13, <2>1, <2>2 DEF Reply
<1>14. ASSUME NEW r \in Runs, Abort(r) PROVE TypeOK'
  BY <1>14, IdleTyped DEF Abort, Answered, Run, Answer
<1>15. CASE Restart
  BY <1>15, IdleTyped DEF Restart, Answered, Answer
<1>16. CASE UNCHANGED vars
  BY <1>16 DEF vars
<1> QED
  BY <1>1, <1>2, <1>3, <1>4, <1>5, <1>6, <1>7, <1>8, <1>9, <1>10, <1>11,
     <1>12, <1>13, <1>14, <1>15, <1>16 DEF Next, RunStep

(* Rows, runs, answers and histories always have the values the service    *)
(* can give them: statusCode, funName and listenerId of every row, and the *)
(* locals of every run of _invokeListeners.                                *)
THEOREM TypeCorrect == Spec => []TypeOK
BY TypeInit, TypeStep, PTL DEF Spec

----------------------------------------------------------------------------
(* The inductive invariant. *)

LEMMA LoadFields ==
  ASSUME NEW c \in Run, NEW rest \in SUBSET Listeners, rest # {}
  PROVE  LET d == AfterLoad(c, rest)
         IN  /\ d.pc = "looping" /\ d.kind = "resume" /\ d.event = c.event
             /\ d.rest = rest /\ d.fun = c.fun /\ d.ran = {}
             /\ d.status = "processing"
             /\ d.first = IF c.at \in rest THEN c.at ELSE None
BY DEF AfterLoad, StartLoop, Idle, Run

LEMMA DoneFields ==
  ASSUME NEW c \in Run, NEW l \in Listeners, NEW stop \in BOOLEAN
  PROVE  LET d == AfterDone(c, l, stop)
         IN  /\ d.pc = (IF stop \/ c.rest \ {l} = {} THEN "ending" ELSE "looping")
             /\ d.kind = c.kind /\ d.event = c.event
             /\ d.rest = c.rest \ {l} /\ d.fun = None /\ d.at = None
             /\ d.first = None /\ d.ran = c.ran \cup {l} /\ d.stop = stop
             /\ d.status = (IF stop \/ c.rest \ {l} = {} THEN "done"
                            ELSE "processing")
BY DEF AfterDone, StatusAfter, Run

LEMMA PendFields ==
  ASSUME NEW c \in Run, NEW l \in Listeners, NEW stop \in BOOLEAN
  PROVE  LET d == AfterPend(c, l, stop)
         IN  /\ d.pc = "ending" /\ d.kind = c.kind /\ d.event = c.event
             /\ d.rest = c.rest \ {l} /\ d.fun = l /\ d.at = l
             /\ d.ran = c.ran /\ d.stop = stop /\ d.status = "pending"
BY DEF AfterPend, Run

LEMMA ThrowFields ==
  ASSUME NEW c \in Run, NEW l \in Listeners, NEW stop \in BOOLEAN
  PROVE  LET d == AfterThrow(c, l, stop)
         IN  /\ d.pc = "ending" /\ d.kind = c.kind /\ d.event = c.event
             /\ d.status = "error"
BY DEF AfterThrow, Run

LEMMA BreakFields ==
  ASSUME NEW c \in Run, NEW l
  PROVE  LET d == AfterBreak(c, l)
         IN  /\ d.pc = "ending" /\ d.kind = c.kind /\ d.event = c.event
             /\ d.status = c.status /\ d.stop = c.stop
BY DEF AfterBreak, Run

LEMMA CommitFields ==
  ASSUME NEW c \in Run
  PROVE  LET d == AfterCommit(c)
         IN  IF c.kind = "emit"
             THEN /\ d.pc = "answering" /\ d.kind = "emit" /\ d.event = c.event
                  /\ d.status = c.status /\ d.stop = c.stop
                  /\ d.at = c.at /\ d.fun = c.fun
             ELSE d = Idle
BY DEF AfterCommit, Run

LEMMA IdleFields ==
  /\ Idle.pc = "idle" /\ Idle.kind = "emit" /\ Idle.event = None
BY DEF Idle

(* The five steps between the start of a run and its commit change nothing *)
(* but the run: it keeps its event and its kind, or ends.                  *)
Walks(r) ==
  \/ LoadRest(r)
  \/ \E l \in Listeners :
       ListenerDone(r, l) \/ ListenerPends(r, l) \/ ListenerThrows(r, l)
  \/ StopsAtHead(r)

LEMMA WalkMoves ==
  ASSUME TypeOK, NEW r \in Runs, Walks(r)
  PROVE  /\ UNCHANGED <<store, listener, answer, born, completed>>
         /\ run[r].pc \in {"admitted", "looping"}
         /\ \E d \in Run :
              /\ run' = [run EXCEPT ![r] = d]
              /\ \/ d = Idle
                 \/ /\ d.pc \in {"looping", "ending"}
                    /\ d.event = run[r].event
                    /\ d.kind = run[r].kind \/ run[r].pc = "admitted"
                    /\ run[r].pc = "admitted" => d.kind = "resume"
<1>0. run[r] \in Run
  BY DEF TypeOK
<1>1. CASE LoadRest(r)
  <2>1. PICK rest \in ResumeLists(run[r].at) :
          run' = [run EXCEPT ![r] = AfterLoad(run[r], rest)]
    BY <1>1 DEF LoadRest
  <2>2. rest \in SUBSET Listeners
    BY ResumeListsTyped
  <2>3. CASE rest = {}
    BY <1>1, <2>1, <2>3, IdleTyped DEF LoadRest, AfterLoad
  <2>4. CASE rest # {}
    <3>1. AfterLoad(run[r], rest) \in Run
      BY <1>0, <2>2, AfterLoadTyped
    <3>2. LET d == AfterLoad(run[r], rest)
          IN  d.pc = "looping" /\ d.kind = "resume" /\ d.event = run[r].event
      BY <1>0, <2>2, <2>4, LoadFields
    <3> QED BY <1>1, <2>1, <3>1, <3>2 DEF LoadRest
  <2> QED BY <2>3, <2>4
<1>2. ASSUME NEW l \in Listeners, ListenerDone(r, l)
      PROVE  \E s \in BOOLEAN : run' = [run EXCEPT ![r] = AfterDone(run[r], l, s)]
  BY <1>2 DEF ListenerDone, MayStop
<1>3. ASSUME NEW l \in Listeners, ListenerPends(r, l)
      PROVE  \E s \in BOOLEAN : run' = [run EXCEPT ![r] = AfterPend(run[r], l, s)]
  BY <1>3 DEF ListenerPends, MayStop
<1>4. ASSUME NEW l \in Listeners, ListenerThrows(r, l)
      PROVE  \E s \in BOOLEAN : run' = [run EXCEPT ![r] = AfterThrow(run[r], l, s)]
  BY <1>4 DEF ListenerThrows, MayStop
<1>5. ASSUME NEW l \in Listeners,
             ListenerDone(r, l) \/ ListenerPends(r, l) \/ ListenerThrows(r, l)
      PROVE  /\ run[r].pc = "looping"
             /\ UNCHANGED <<store, listener, answer, born, completed>>
  BY <1>5 DEF ListenerDone, ListenerPends, ListenerThrows, Turn
<1>6. CASE \E l \in Listeners : ListenerDone(r, l)
  <2>1. PICK l \in Listeners, s \in BOOLEAN :
          run' = [run EXCEPT ![r] = AfterDone(run[r], l, s)]
    BY <1>2, <1>6
  <2>2. AfterDone(run[r], l, s) \in Run
    BY <1>0, AfterTyped
  <2>3. LET d == AfterDone(run[r], l, s)
        IN  /\ d.pc \in {"looping", "ending"}
            /\ d.event = run[r].event /\ d.kind = run[r].kind
    BY <1>0, DoneFields
  <2> QED BY <1>5, <1>6, <2>1, <2>2, <2>3
<1>7. CASE \E l \in Listeners : ListenerPends(r, l)
  <2>1. PICK l \in Listeners, s \in BOOLEAN :
          run' = [run EXCEPT ![r] = AfterPend(run[r], l, s)]
    BY <1>3, <1>7
  <2>2. AfterPend(run[r], l, s) \in Run
    BY <1>0, AfterTyped
  <2>3. LET d == AfterPend(run[r], l, s)
        IN  /\ d.pc \in {"looping", "ending"}
            /\ d.event = run[r].event /\ d.kind = run[r].kind
    BY <1>0, PendFields
  <2> QED BY <1>5, <1>7, <2>1, <2>2, <2>3
<1>8. CASE \E l \in Listeners : ListenerThrows(r, l)
  <2>1. PICK l \in Listeners, s \in BOOLEAN :
          run' = [run EXCEPT ![r] = AfterThrow(run[r], l, s)]
    BY <1>4, <1>8
  <2>2. AfterThrow(run[r], l, s) \in Run
    BY <1>0, AfterTyped
  <2>3. LET d == AfterThrow(run[r], l, s)
        IN  /\ d.pc \in {"looping", "ending"}
            /\ d.event = run[r].event /\ d.kind = run[r].kind
    BY <1>0, ThrowFields
  <2> QED BY <1>5, <1>8, <2>1, <2>2, <2>3
<1>9. CASE StopsAtHead(r)
  <2>1. PICK l \in Heads(run[r]) : run' = [run EXCEPT ![r] = AfterBreak(run[r], l)]
    BY <1>9 DEF StopsAtHead
  <2>2. AfterBreak(run[r], l) \in Run
    BY <1>0, <2>1, AfterTyped, HeadsTyped
  <2>3. LET d == AfterBreak(run[r], l)
        IN  d.pc = "ending" /\ d.event = run[r].event /\ d.kind = run[r].kind
    BY <1>0, BreakFields
  <2>4. /\ UNCHANGED <<store, listener, answer, born, completed>>
        /\ run[r].pc = "looping"
    BY <1>9 DEF StopsAtHead
  <2> QED BY <2>1, <2>2, <2>3, <2>4
<1> QED BY <1>1, <1>6, <1>7, <1>8, <1>9 DEF Walks

(* One case per action that moves a run or an answer. *)
LEMMA ClaimsStep ==
  ASSUME TypeOK, RunShape, RowShape, Claims, AnswerMatchesStore, [Next]_vars
  PROVE  Claims'
<1> USE DEF Claims, ClaimOK, Emitting, Unclaimed, Working
<1>0. \A r \in Runs : run[r] \in Run
  BY DEF TypeOK
<1>1. ASSUME NEW l \in Listeners, AddListener(l) \/ RemoveListener(l)
      PROVE  Claims'
  BY <1>1 DEF AddListener, RemoveListener
<1>2. ASSUME NEW r \in Runs, NEW e \in Events, Emit(r, e) PROVE Claims'
  <2> DEFINE d == StartLoop("emit", e, Live, None, None, FALSE)
  <2>0. d.pc = "looping" /\ d.kind = "emit" /\ d.event = e
    BY DEF StartLoop, Idle
  <2>1. run' = [run EXCEPT ![r] = d]
    BY <1>2 DEF Emit
  <2>2. /\ store[e].status = "absent"
        /\ \A s \in Runs : run[s].pc # "idle" => run[s].event # e
    BY <1>2 DEF Emit, RowShape
  <2>3. /\ answer' = [answer EXCEPT ![e] = "waiting"]
        /\ store' = store
    BY <1>2 DEF Emit
  <2> HIDE DEF d
  <2> QED BY <2>0, <2>1, <2>2, <2>3 DEF TypeOK
<1>3. ASSUME NEW r \in Runs, NEW e \in Events, Admit(r, e) PROVE Claims'
  BY <1>3, IdleFields DEF Admit, RowShape, TypeOK, Resumable, AnswerMatchesStore, Idle
<1>4. ASSUME NEW e \in Events, EmitRefused(e) PROVE Claims'
  BY <1>4 DEF EmitRefused, TypeOK
<1>5. ASSUME NEW e \in Events, SyncTimeout(e) PROVE Claims'
  BY <1>5 DEF SyncTimeout, TypeOK
<1>6. ASSUME NEW r \in Runs, Walks(r) PROVE Claims'
  <2>1. PICK d \in Run :
          /\ run' = [run EXCEPT ![r] = d]
          /\ \/ d = Idle
             \/ /\ d.pc \in {"looping", "ending"}
                /\ d.event = run[r].event
                /\ d.kind = run[r].kind \/ run[r].pc = "admitted"
                /\ run[r].pc = "admitted" => d.kind = "resume"
    BY <1>6, WalkMoves
  <2>2. /\ UNCHANGED <<store, listener, answer, born, completed>>
        /\ run[r].pc \in {"admitted", "looping"}
    BY <1>6, WalkMoves
  <2>3. run[r].pc = "admitted" => run[r].kind = "resume"
    BY DEF RunShape, ShapeOK
  <2> QED BY <2>1, <2>2, <2>3, IdleFields DEF TypeOK
<1>7. ASSUME NEW r \in Runs, Commit(r) PROVE Claims'
  <2> DEFINE d == AfterCommit(run[r])
  <2>1. run[r].pc = "ending" /\ run' = [run EXCEPT ![r] = d] /\ answer' = answer
        /\ run[r] \in Run
    BY <1>0, <1>7 DEF Commit, TypeOK
  <2>2. store' = [store EXCEPT ![run[r].event] = Upsert(@, run[r])]
    BY <1>7 DEF Commit
  <2>3. IF run[r].kind = "emit"
        THEN d.pc = "answering" /\ d.kind = "emit" /\ d.event = run[r].event
             /\ d.status = run[r].status
        ELSE d = Idle
    BY <2>1, CommitFields
  <2> HIDE DEF d
  <2> QED BY <1>0, <2>1, <2>2, <2>3, IdleFields DEF Upsert, TypeOK, RunShape, ShapeOK, Row, Run
<1>8. ASSUME NEW r \in Runs, Reply(r) PROVE Claims'
  BY <1>0, <1>8, IdleFields DEF Reply, Answered, InvokeCallback, TypeOK, RunShape, ShapeOK, Run
<1>9. ASSUME NEW r \in Runs, Abort(r) PROVE Claims'
  BY <1>9, IdleFields DEF Abort, Answered, TypeOK
<1>10. CASE Restart
  BY <1>10, IdleFields DEF Restart, Answered, TypeOK
<1>11. CASE UNCHANGED vars
  BY <1>11 DEF vars
<1> QED
  BY <1>1, <1>2, <1>3, <1>4, <1>5, <1>6, <1>7, <1>8, <1>9, <1>10, <1>11
     DEF Next, RunStep, Walks

(* statusCode and listenerId of the rows, and what the callers were told. *)
LEMMA RowsStep ==
  ASSUME TypeOK, RunShape, PendingNamesOwner, RowShape, Claims, StuckOnlyByStop,
         AnswerMatchesStore, [Next]_vars
  PROVE  /\ PendingNamesOwner' /\ RowShape' /\ StuckOnlyByStop'
         /\ AnswerMatchesStore'
<1> DEFINE Goal == PendingNamesOwner /\ RowShape /\ StuckOnlyByStop
                     /\ AnswerMatchesStore
<1> SUFFICES Goal'
  OBVIOUS
<1> USE DEF PendingNamesOwner, RowShape, StuckOnlyByStop, AnswerMatchesStore
<1>0. \A r \in Runs : run[r] \in Run
  BY DEF TypeOK
<1>1. ASSUME NEW l \in Listeners, AddListener(l) \/ RemoveListener(l)
      PROVE  Goal'
  BY <1>1 DEF AddListener, RemoveListener, TypeOK
<1>2. ASSUME NEW r \in Runs, NEW e \in Events, Emit(r, e) PROVE Goal'
  BY <1>2 DEF Emit, TypeOK, Live
<1>3. ASSUME NEW r \in Runs, NEW e \in Events, Admit(r, e) PROVE Goal'
  BY <1>3 DEF Admit
<1>4. ASSUME NEW e \in Events, EmitRefused(e) PROVE Goal'
  BY <1>4 DEF EmitRefused, TypeOK
<1>5. ASSUME NEW e \in Events, SyncTimeout(e) PROVE Goal'
  BY <1>5 DEF SyncTimeout, TypeOK
<1>6. ASSUME NEW r \in Runs, Walks(r) PROVE Goal'
  BY <1>6, WalkMoves
<1>7. ASSUME NEW r \in Runs, Commit(r) PROVE Goal'
  <2> DEFINE c == run[r]
  <2>1. /\ c \in Run /\ c.event \in Events /\ c.pc = "ending"
        /\ c.status = "processing" => c.stop
        /\ c.status = "pending" =>
             c.at \in Listeners /\ c.fun = c.at /\ listener[c.at] # "none"
    BY <1>0, <1>7 DEF Commit, RunShape, ShapeOK
  <2>2. /\ UNCHANGED <<listener, answer, born>>
        /\ store' = [store EXCEPT ![c.event] = Upsert(store[c.event], c)]
    BY <1>7 DEF Commit
  <2>3. LET row == Upsert(store[c.event], c)
        IN  /\ row.status = c.status /\ row.stop = c.stop
            /\ c.status = "pending" => row.fun = c.fun /\ row.listener = c.at
    BY DEF Upsert
  <2>4. answer[c.event] \notin {"new", "done", "error", "undefined"}
    BY <2>1 DEF Claims, ClaimOK, Unclaimed, Working
  <2>5. c.status # "absent"
    BY <2>1 DEF Run
  <2> HIDE DEF c
  <2> QED BY <2>1, <2>2, <2>3, <2>4, <2>5 DEF TypeOK
<1>8. ASSUME NEW r \in Runs, Reply(r) PROVE Goal'
  BY <1>0, <1>8 DEF Reply, Answered, InvokeCallback, TypeOK, RunShape, ShapeOK,
     Claims, ClaimOK, Run
<1>9. ASSUME NEW r \in Runs, Abort(r) PROVE Goal'
  BY <1>9 DEF Abort, Answered, TypeOK
<1>10. CASE Restart
  BY <1>10 DEF Restart, Answered, TypeOK
<1>11. CASE UNCHANGED vars
  BY <1>11 DEF vars
<1> HIDE DEF Goal
<1> QED
  BY <1>1, <1>2, <1>3, <1>4, <1>5, <1>6, <1>7, <1>8, <1>9, <1>10, <1>11
     DEF Next, RunStep, Walks

LEMMA AdmitFields ==
  ASSUME NEW e, NEW fun, NEW at, NEW stop
  PROVE  LET d == [Idle EXCEPT !.pc = "admitted", !.kind = "resume",
                               !.event = e, !.fun = fun, !.at = at,
                               !.stop = stop]
         IN  /\ d.pc = "admitted" /\ d.kind = "resume" /\ d.event = e
             /\ d.fun = fun /\ d.at = at
BY DEF Idle

LEMMA ShapeOne ==
  ASSUME TypeOK, RunShape, NEW r \in Runs, NEW d, ShapeOK(d),
         run' = [run EXCEPT ![r] = d], listener' = listener
  PROVE  RunShape'
<1> SUFFICES ASSUME NEW s \in Runs PROVE ShapeOK(run[s])'
  BY DEF RunShape
<1>1. CASE s = r
  <2>1. run'[s] = d
    BY <1>1 DEF TypeOK
  <2> QED BY <2>1 DEF ShapeOK
<1>2. CASE s # r
  <2>1. run'[s] = run[s] /\ ShapeOK(run[s])
    BY <1>2 DEF TypeOK, RunShape
  <2> QED BY <2>1 DEF ShapeOK
<1> QED BY <1>1, <1>2

(* The runs keep their shape.  The steps of the loop are proved from the   *)
(* fields of the record they leave; the others only move rows or answers.  *)
LEMMA ShapeStep ==
  ASSUME TypeOK, RunShape, PendingNamesOwner, RowShape, [Next]_vars
  PROVE  RunShape'
<1> USE DEF RunShape, ShapeOK
<1>0. \A r \in Runs : run[r] \in Run
  BY DEF TypeOK
<1>1. ASSUME NEW l \in Listeners, AddListener(l) \/ RemoveListener(l)
      PROVE  RunShape'
  BY <1>0, <1>1 DEF AddListener, RemoveListener, TypeOK, Run
<1>2. ASSUME NEW r \in Runs, NEW e \in Events, Emit(r, e) PROVE RunShape'
  <2> DEFINE d == StartLoop("emit", e, Live, None, None, FALSE)
  <2>1. /\ d.pc = "looping" /\ d.kind = "emit" /\ d.event = e /\ d.rest = Live
        /\ d.first = None /\ d.stop = FALSE /\ d.status = "processing"
    BY DEF StartLoop, Idle
  <2>2. run' = [run EXCEPT ![r] = d] /\ listener' = listener
    BY <1>2 DEF Emit
  <2>3. ShapeOK(d)
    BY <2>1 DEF Live
  <2> HIDE DEF d
  <2> QED BY <2>2, <2>3, ShapeOne
<1>3. ASSUME NEW r \in Runs, NEW e \in Events, Admit(r, e) PROVE RunShape'
  <2> DEFINE d == [Idle EXCEPT !.pc = "admitted", !.kind = "resume",
                               !.event = e, !.fun = store[e].fun,
                               !.at = store[e].listener, !.stop = store[e].stop]
  <2>1. /\ d.pc = "admitted" /\ d.kind = "resume" /\ d.event = e
        /\ d.fun = store[e].fun /\ d.at = store[e].listener
    BY AdmitFields
  <2>2. run' = [run EXCEPT ![r] = d] /\ listener' = listener
    BY <1>3 DEF Admit
  <2>3. /\ store[e].listener \in Listeners /\ store[e].fun = store[e].listener
        /\ listener[store[e].listener] # "none"
    BY <1>3 DEF Admit, Resumable, PendingNamesOwner, RowShape
  <2> HIDE DEF d
  <2>4. ShapeOK(d)
    BY <2>1, <2>3
  <2> QED BY <2>2, <2>4, ShapeOne
<1>4. ASSUME NEW e \in Events, EmitRefused(e) \/ SyncTimeout(e) PROVE RunShape'
  BY <1>4 DEF EmitRefused, SyncTimeout
<1>5. ASSUME NEW r \in Runs, LoadRest(r) PROVE RunShape'
  <2>1. PICK rest \in ResumeLists(run[r].at) :
          run' = [run EXCEPT ![r] = AfterLoad(run[r], rest)]
    BY <1>5 DEF LoadRest
  <2>2. rest \in SUBSET Listeners /\ listener' = listener
    BY <1>5, ResumeListsTyped DEF LoadRest
  <2>3. CASE rest = {}
    BY <2>1, <2>2, <2>3, IdleFields DEF AfterLoad, TypeOK
  <2>4. CASE rest # {}
    <3> DEFINE d == AfterLoad(run[r], rest)
    <3>1. /\ d.pc = "looping" /\ d.kind = "resume" /\ d.event = run[r].event
          /\ d.rest = rest /\ d.status = "processing"
          /\ d.first = IF run[r].at \in rest THEN run[r].at ELSE None
      BY <1>0, <2>2, <2>4, LoadFields
    <3>2. run[r].event \in Events /\ run[r].at \in Listeners
      BY <1>5 DEF LoadRest
    <3>3. \A l \in rest : listener[l] # "none" /\ Prio[run[r].at] <= Prio[l]
      BY <3>2, ConstantsAssumption DEF ResumeLists, Live
    <3>4. run' = [run EXCEPT ![r] = d]
      BY <2>1
    <3> HIDE DEF d
    <3>5. ShapeOK(d)
      BY <3>1, <3>2, <3>3
    <3> QED BY <2>2, <3>4, <3>5, ShapeOne
  <2> QED BY <2>3, <2>4
<1>6. ASSUME NEW r \in Runs, NEW l \in Listeners, ListenerDone(r, l)
      PROVE  RunShape'
  <2>1. PICK s \in BOOLEAN : run' = [run EXCEPT ![r] = AfterDone(run[r], l, s)]
    BY <1>6 DEF ListenerDone, MayStop
  <2>2. run[r].pc = "looping" /\ listener' = listener /\ ~run[r].stop
    BY <1>6 DEF ListenerDone, Turn
  <2> DEFINE d == AfterDone(run[r], l, s)
  <2>3. /\ d.pc = (IF s \/ run[r].rest \ {l} = {} THEN "ending" ELSE "looping")
        /\ d.kind = run[r].kind /\ d.event = run[r].event /\ d.stop = s
        /\ d.rest = run[r].rest \ {l} /\ d.first = None
        /\ d.status = (IF s \/ run[r].rest \ {l} = {} THEN "done"
                       ELSE "processing")
    BY <1>0, DoneFields
  <2>4. run' = [run EXCEPT ![r] = d]
    BY <2>1
  <2> HIDE DEF d
  <2>5. ShapeOK(d)
    BY <2>2, <2>3
  <2> QED BY <2>2, <2>4, <2>5, ShapeOne
<1>7. ASSUME NEW r \in Runs, NEW l \in Listeners, ListenerPends(r, l)
      PROVE  RunShape'
  <2>1. PICK s \in BOOLEAN : run' = [run EXCEPT ![r] = AfterPend(run[r], l, s)]
    BY <1>7 DEF ListenerPends, MayStop
  <2>2. run[r].pc = "looping" /\ listener' = listener /\ listener[l] # "none"
    BY <1>0, <1>7 DEF ListenerPends, Turn, Heads
  <2> DEFINE d == AfterPend(run[r], l, s)
  <2>3. /\ d.pc = "ending" /\ d.kind = run[r].kind /\ d.event = run[r].event
        /\ d.fun = l /\ d.at = l /\ d.status = "pending"
    BY <1>0, PendFields
  <2>4. run' = [run EXCEPT ![r] = d]
    BY <2>1
  <2> HIDE DEF d
  <2>5. ShapeOK(d)
    BY <2>2, <2>3
  <2> QED BY <2>2, <2>4, <2>5, ShapeOne
<1>8. ASSUME NEW r \in Runs, NEW l \in Listeners, ListenerThrows(r, l)
      PROVE  RunShape'
  <2>1. PICK s \in BOOLEAN : run' = [run EXCEPT ![r] = AfterThrow(run[r], l, s)]
    BY <1>8 DEF ListenerThrows, MayStop
  <2>2. run[r].pc = "looping" /\ listener' = listener
    BY <1>8 DEF ListenerThrows, Turn
  <2> DEFINE d == AfterThrow(run[r], l, s)
  <2>3. /\ d.pc = "ending" /\ d.kind = run[r].kind /\ d.event = run[r].event
        /\ d.status = "error"
    BY <1>0, ThrowFields
  <2>4. run' = [run EXCEPT ![r] = d]
    BY <2>1
  <2> HIDE DEF d
  <2>5. ShapeOK(d)
    BY <2>2, <2>3
  <2> QED BY <2>2, <2>4, <2>5, ShapeOne
<1>9. ASSUME NEW r \in Runs, StopsAtHead(r) PROVE RunShape'
  <2>1. PICK l \in Heads(run[r]) : run' = [run EXCEPT ![r] = AfterBreak(run[r], l)]
    BY <1>9 DEF StopsAtHead
  <2>2. run[r].pc = "looping" /\ run[r].stop /\ listener' = listener
    BY <1>9 DEF StopsAtHead
  <2> DEFINE d == AfterBreak(run[r], l)
  <2>3. /\ d.pc = "ending" /\ d.kind = run[r].kind /\ d.event = run[r].event
        /\ d.status = run[r].status /\ d.stop = run[r].stop
    BY <1>0, BreakFields
  <2>4. run[r].kind = "resume"
    BY <1>0, <2>2 DEF Run
  <2>5. run' = [run EXCEPT ![r] = d]
    BY <2>1
  <2> HIDE DEF d
  <2>6. ShapeOK(d)
    BY <2>2, <2>3, <2>4
  <2> QED BY <2>2, <2>5, <2>6, ShapeOne
<1>10. ASSUME NEW r \in Runs, Commit(r) PROVE RunShape'
  BY <1>0, <1>10, CommitFields, IdleFields DEF Commit, TypeOK
<1>11. ASSUME NEW r \in Runs, Reply(r) \/ Abort(r) PROVE RunShape'
  BY <1>11, IdleFields DEF Reply, Abort, TypeOK
<1>12. CASE Restart
  BY <1>12, IdleFields DEF Restart
<1>13. CASE UNCHANGED vars
  BY <1>13 DEF vars
<1> QED
  BY <1>1, <1>2, <1>3, <1>4, <1>5, <1>6, <1>7, <1>8, <1>9, <1>10, <1>11,
     <1>12, <1>13 DEF Next, RunStep

(* The name a callback brings reaches the listener that waits for it. *)
LEMMA OwnerStep ==
  ASSUME TypeOK, RunShape, ResumeReachesOwner, [Next]_vars
  PROVE  ResumeReachesOwner'
<1> USE DEF ResumeReachesOwner, Looping
<1>0. \A r \in Runs : run[r] \in Run
  BY DEF TypeOK
<1>1. ASSUME NEW l \in Listeners, AddListener(l) \/ RemoveListener(l)
      PROVE  ResumeReachesOwner'
  BY <1>0, <1>1 DEF AddListener, RemoveListener, TypeOK, Run
<1>2. ASSUME NEW r \in Runs, NEW d, d.pc = "looping" => d.fun = None,
             run' = [run EXCEPT ![r] = d], listener' = listener
      PROVE  ResumeReachesOwner'
  BY <1>2 DEF TypeOK
<1>3. ASSUME NEW r \in Runs, NEW e \in Events, Emit(r, e)
      PROVE  ResumeReachesOwner'
  <2>1. StartLoop("emit", e, Live, None, None, FALSE).fun = None
    BY DEF StartLoop, Idle
  <2> QED BY <1>2, <1>3, <2>1 DEF Emit
<1>4. ASSUME NEW r \in Runs, NEW e \in Events, Admit(r, e)
      PROVE  ResumeReachesOwner'
  BY <1>2, <1>4, AdmitFields DEF Admit
<1>5. ASSUME NEW e \in Events, EmitRefused(e) \/ SyncTimeout(e)
      PROVE  ResumeReachesOwner'
  BY <1>5 DEF EmitRefused, SyncTimeout
<1>6. ASSUME NEW r \in Runs, LoadRest(r) PROVE ResumeReachesOwner'
  <2>1. PICK rest \in ResumeLists(run[r].at) :
          run' = [run EXCEPT ![r] = AfterLoad(run[r], rest)]
    BY <1>6 DEF LoadRest
  <2>2. rest \in SUBSET Listeners /\ listener' = listener
    BY <1>6, ResumeListsTyped DEF LoadRest
  <2>3. /\ run[r].at \in Listeners /\ run[r].fun = run[r].at
        /\ listener[run[r].at] # "none"
    BY <1>6 DEF LoadRest, RunShape, ShapeOK
  <2>4. run[r].at \in rest \/ listener[run[r].at] = "deleted"
    <3>1. run[r].at # None
      BY <2>3, ConstantsAssumption
    <3> QED BY <2>3, <3>1 DEF ResumeLists, Live, TypeOK
  <2>5. CASE rest = {}
    BY <1>2, <2>1, <2>2, <2>5, IdleFields DEF AfterLoad
  <2>6. CASE rest # {}
    <3> DEFINE d == AfterLoad(run[r], rest)
    <3>1. d.rest = rest /\ d.fun = run[r].fun
      BY <1>0, <2>2, <2>6, LoadFields
    <3>2. run' = [run EXCEPT ![r] = d]
      BY <2>1
    <3> HIDE DEF d
    <3> QED BY <2>2, <2>3, <2>4, <3>1, <3>2 DEF TypeOK
  <2> QED BY <2>5, <2>6
<1>7. ASSUME NEW r \in Runs, NEW l \in Listeners, ListenerDone(r, l)
      PROVE  ResumeReachesOwner'
  <2>1. PICK s \in BOOLEAN : run' = [run EXCEPT ![r] = AfterDone(run[r], l, s)]
    BY <1>7 DEF ListenerDone, MayStop
  <2>2. AfterDone(run[r], l, s).fun = None
    BY <1>0, DoneFields
  <2> QED BY <1>2, <1>7, <2>1, <2>2 DEF ListenerDone
<1>8. ASSUME NEW r \in Runs, NEW l \in Listeners, ListenerPends(r, l)
      PROVE  ResumeReachesOwner'
  <2>1. PICK s \in BOOLEAN : run' = [run EXCEPT ![r] = AfterPend(run[r], l, s)]
    BY <1>8 DEF ListenerPends, MayStop
  <2>2. AfterPend(run[r], l, s).pc = "ending"
    BY <1>0, PendFields
  <2> QED BY <1>2, <1>8, <2>1, <2>2 DEF ListenerPends
<1>9. ASSUME NEW r \in Runs, NEW l \in Listeners, ListenerThrows(r, l)
      PROVE  ResumeReachesOwner'
  <2>1. PICK s \in BOOLEAN : run' = [run EXCEPT ![r] = AfterThrow(run[r], l, s)]
    BY <1>9 DEF ListenerThrows, MayStop
  <2>2. AfterThrow(run[r], l, s).pc = "ending"
    BY <1>0, ThrowFields
  <2> QED BY <1>2, <1>9, <2>1, <2>2 DEF ListenerThrows
<1>10. ASSUME NEW r \in Runs, StopsAtHead(r) PROVE ResumeReachesOwner'
  <2>1. PICK l \in Heads(run[r]) : run' = [run EXCEPT ![r] = AfterBreak(run[r], l)]
    BY <1>10 DEF StopsAtHead
  <2>2. AfterBreak(run[r], l).pc = "ending"
    BY <1>0, BreakFields
  <2> QED BY <1>2, <1>10, <2>1, <2>2 DEF StopsAtHead
<1>11. ASSUME NEW r \in Runs, Commit(r) PROVE ResumeReachesOwner'
  <2>1. AfterCommit(run[r]).pc # "looping"
    BY <1>0, CommitFields, IdleFields
  <2> QED BY <1>2, <1>11, <2>1 DEF Commit
<1>12. ASSUME NEW r \in Runs, Reply(r) \/ Abort(r) PROVE ResumeReachesOwner'
  BY <1>2, <1>12, IdleFields DEF Reply, Abort
<1>13. CASE Restart
  BY <1>13, IdleFields DEF Restart
<1>14. CASE UNCHANGED vars
  BY <1>14 DEF vars
<1> QED
  BY <1>1, <1>3, <1>4, <1>5, <1>6, <1>7, <1>8, <1>9, <1>10, <1>11, <1>12,
     <1>13, <1>14 DEF Next, RunStep

(* Which listeners an event needs only depends on the listener rows and on *)
(* the list it was emitted to; un-listed listeners never become required.  *)
LEMMA RequiredShrinks ==
  ASSUME TypeOK, RowShape, NEW l \in Listeners,
         AddListener(l) \/ RemoveListener(l), NEW e \in Events
  PROVE  Required(e)' \subseteq Required(e)
BY DEF AddListener, RemoveListener, TypeOK, RowShape, Required, Live, UniquePrio

LEMMA RequiredSame ==
  ASSUME listener' = listener, born' = born
  PROVE  /\ \A e \in Events : Required(e)' = Required(e)
         /\ \A e \in Events : \A p : Before(e, p)' = Before(e, p)
BY DEF Required, Before, Live, UniquePrio

Covered == Coverage /\ NoListenerSkipped

LEMMA CoverOne ==
  ASSUME TypeOK, RunShape, Covered, NEW r \in Runs, NEW d,
         d.pc # "idle" => d.event \in Events,
         CoverOK(d), run' = [run EXCEPT ![r] = d],
         UNCHANGED <<store, listener, born, completed>>
  PROVE  Covered'
<1>1. NoListenerSkipped'
  BY DEF NoListenerSkipped, Covered, UniquePrio, Live
<1>2. ASSUME NEW s \in Runs PROVE CoverOK(run[s])'
  <2>1. CASE s = r
    <3>1. run'[s] = d
      BY <2>1 DEF TypeOK
    <3> QED BY <3>1, RequiredSame DEF CoverOK
  <2>2. CASE s # r
    <3>1. run'[s] = run[s] /\ CoverOK(run[s])
      BY <2>2 DEF TypeOK, Covered, Coverage
    <3>2. run[s].pc # "idle" => run[s].event \in Events
      BY DEF RunShape, ShapeOK
    <3> QED BY <3>1, <3>2, RequiredSame DEF CoverOK
  <2> QED BY <2>1, <2>2
<1>3. \A e \in Events : store'[e].status = "pending" =>
        Before(e, store[e].listener)' \subseteq completed'[e]
  BY RequiredSame DEF Covered, Coverage
<1> QED BY <1>1, <1>2, <1>3 DEF Covered, Coverage

(* No required listener is lost between the start of the first run and the *)
(* commit that reports the event done.                                     *)
LEMMA CoverStep ==
  ASSUME TypeOK, RunShape, PendingNamesOwner, RowShape, Claims, Covered,
         [Next]_vars
  PROVE  Covered'
<1>0. \A r \in Runs : /\ run[r] \in Run
                      /\ run[r].pc # "idle" => run[r].event \in Events
  BY DEF TypeOK, RunShape, ShapeOK
<1>1. ASSUME NEW l \in Listeners, AddListener(l) \/ RemoveListener(l)
      PROVE  Covered'
  <2>1. \A e \in Events : Required(e)' \subseteq Required(e)
    BY <1>1, RequiredShrinks
  <2>2. \A e \in Events : \A p : Before(e, p)' \subseteq Before(e, p)
    BY <2>1 DEF Before
  <2>3. UNCHANGED <<store, run, completed>>
    BY <1>1 DEF AddListener, RemoveListener
  <2>4. NoListenerSkipped'
    BY <2>1, <2>3 DEF Covered, NoListenerSkipped, Required, UniquePrio
  <2>5. Coverage'
    BY <1>0, <2>1, <2>2, <2>3 DEF Covered, Coverage, CoverOK
  <2> QED BY <2>4, <2>5 DEF Covered
<1>2. ASSUME NEW r \in Runs, NEW e \in Events, Emit(r, e) PROVE Covered'
  <2> DEFINE d == StartLoop("emit", e, Live, None, None, FALSE)
  <2>1. d.pc = "looping" /\ d.event = e /\ d.rest = Live /\ d.ran = {}
    BY DEF StartLoop, Idle
  <2>2. /\ run' = [run EXCEPT ![r] = d] /\ born' = [born EXCEPT ![e] = Live]
        /\ UNCHANGED <<store, listener, completed>>
    BY <1>2 DEF Emit
  <2>3. store[e].status = "absent" /\ \A s \in Runs : run[s].pc # "idle" => run[s].event # e
    BY <1>2 DEF Emit, RowShape, Claims, ClaimOK
  <2>4. /\ Required(e)' \subseteq Live
        /\ \A f \in Events \ {e} : Required(f)' = Required(f)
        /\ \A f \in Events \ {e} : \A p : Before(f, p)' = Before(f, p)
    BY <2>2 DEF TypeOK, Required, Before, Live, UniquePrio
  <2> HIDE DEF d
  <2>5. ASSUME NEW s \in Runs PROVE CoverOK(run[s])'
    <3>1. CASE s = r
      <4>1. run'[s] = d
        BY <2>2, <3>1 DEF TypeOK
      <4> QED BY <2>1, <2>4, <4>1 DEF CoverOK
    <3>2. CASE s # r
      <4>1. run'[s] = run[s] /\ CoverOK(run[s])
        BY <2>2, <3>2 DEF TypeOK, Covered, Coverage
      <4>2. run[s].pc # "idle" => run[s].event \in Events \ {e}
        BY <1>0, <2>3
      <4> QED BY <2>2, <2>4, <4>1, <4>2 DEF CoverOK
    <3> QED BY <3>1, <3>2
  <2>6. \A f \in Events : store'[f].status = "pending" =>
          Before(f, store[f].listener)' \subseteq completed'[f]
    BY <2>2, <2>3, <2>4 DEF Covered, Coverage
  <2>7. NoListenerSkipped'
    BY <2>2, <2>3 DEF TypeOK, Covered, NoListenerSkipped, Live, UniquePrio
  <2> QED BY <2>2, <2>5, <2>6, <2>7 DEF Covered, Coverage
<1>3. ASSUME NEW r \in Runs, NEW e \in Events, Admit(r, e) PROVE Covered'
  <2> DEFINE d == [Idle EXCEPT !.pc = "admitted", !.kind = "resume",
                               !.event = e, !.fun = store[e].fun,
                               !.at = store[e].listener, !.stop = store[e].stop]
  <2>1. d.pc = "admitted" /\ d.event = e /\ d.at = store[e].listener
    BY AdmitFields
  <2>2. /\ run' = [run EXCEPT ![r] = d] /\ store[e].status = "pending"
        /\ UNCHANGED <<store, listener, born, completed>>
    BY <1>3 DEF Admit, Resumable
  <2> HIDE DEF d
  <2>3. CoverOK(d)
    BY <2>1, <2>2 DEF CoverOK, Covered, Coverage
  <2> QED BY <2>1, <2>2, <2>3, CoverOne
<1>4. ASSUME NEW e \in Events, EmitRefused(e) \/ SyncTimeout(e) PROVE Covered'
  <2>1. UNCHANGED <<store, listener, run, born, completed>>
    BY <1>4 DEF EmitRefused, SyncTimeout
  <2> QED BY <2>1 DEF Covered, Coverage, CoverOK, NoListenerSkipped, Required,
            Before, Live, UniquePrio
<1>5. ASSUME NEW r \in Runs, run' = [run EXCEPT ![r] = Idle],
             UNCHANGED <<store, listener, born, completed>>
      PROVE  Covered'
  BY <1>5, CoverOne, IdleFields DEF CoverOK
<1>6. ASSUME NEW r \in Runs, LoadRest(r) PROVE Covered'
  <2>1. PICK rest \in ResumeLists(run[r].at) :
          run' = [run EXCEPT ![r] = AfterLoad(run[r], rest)]
    BY <1>6 DEF LoadRest
  <2>2. /\ rest \in SUBSET Listeners /\ run[r].pc = "admitted"
        /\ UNCHANGED <<store, listener, born, completed>>
    BY <1>6, ResumeListsTyped DEF LoadRest
  <2>3. CASE rest = {}
    BY <1>5, <2>1, <2>2, <2>3 DEF AfterLoad
  <2>4. CASE rest # {}
    <3> DEFINE d == AfterLoad(run[r], rest)
    <3>1. d.pc = "looping" /\ d.event = run[r].event /\ d.rest = rest
      BY <1>0, <2>2, <2>4, LoadFields
    <3>2. run[r].at \in Listeners /\ run[r].at # None
      BY <2>2, ConstantsAssumption DEF RunShape, ShapeOK
    <3>3. Required(run[r].event) \subseteq rest \cup completed[run[r].event]
      <4>1. Before(run[r].event, run[r].at) \subseteq completed[run[r].event]
        BY <2>2 DEF Covered, Coverage, CoverOK
      <4>2. ASSUME NEW l \in Required(run[r].event),
                   ~(Prio[l] < Prio[run[r].at])
            PROVE  l \in rest
        <5>1. l \in Live /\ UniquePrio(l) /\ l \in Listeners
          BY DEF Required, Live
        <5>2. Prio[l] \in Int /\ Prio[run[r].at] \in Int
          BY <3>2, <5>1, ConstantsAssumption
        <5>3. CASE Prio[l] = Prio[run[r].at]
          <6>1. l = run[r].at
            BY <3>2, <5>1, <5>3 DEF UniquePrio
          <6> QED BY <3>2, <5>1, <6>1 DEF ResumeLists
        <5>4. CASE Prio[l] > Prio[run[r].at]
          BY <3>2, <5>1, <5>4 DEF ResumeLists
        <5> QED BY <4>2, <5>2, <5>3, <5>4
      <4> QED BY <4>1, <4>2 DEF Before
    <3>4. run' = [run EXCEPT ![r] = d]
      BY <2>1
    <3> HIDE DEF d
    <3>5. CoverOK(d)
      BY <3>1, <3>3 DEF CoverOK
    <3> QED BY <1>0, <2>2, <3>1, <3>4, <3>5, CoverOne
  <2> QED BY <2>3, <2>4
<1>7. ASSUME NEW r \in Runs, NEW l \in Listeners, ListenerDone(r, l)
      PROVE  Covered'
  <2>1. PICK s \in BOOLEAN : run' = [run EXCEPT ![r] = AfterDone(run[r], l, s)]
    BY <1>7 DEF ListenerDone, MayStop
  <2>2. run[r].pc = "looping" /\ UNCHANGED <<store, listener, born, completed>>
    BY <1>7 DEF ListenerDone, Turn
  <2> DEFINE d == AfterDone(run[r], l, s)
  <2>3. /\ d.pc = (IF s \/ run[r].rest \ {l} = {} THEN "ending" ELSE "looping")
        /\ d.event = run[r].event /\ d.stop = s
        /\ d.rest = run[r].rest \ {l} /\ d.ran = run[r].ran \cup {l}
        /\ d.status = (IF s \/ run[r].rest \ {l} = {} THEN "done"
                       ELSE "processing")
    BY <1>0, DoneFields
  <2>4. Required(run[r].event)
          \subseteq run[r].rest \cup run[r].ran \cup completed[run[r].event]
    BY <2>2 DEF Covered, Coverage, CoverOK
  <2>5. run' = [run EXCEPT ![r] = d]
    BY <2>1
  <2> HIDE DEF d
  <2>6. CoverOK(d)
    BY <2>3, <2>4 DEF CoverOK
  <2> QED BY <1>0, <2>2, <2>3, <2>5, <2>6, CoverOne
<1>8. ASSUME NEW r \in Runs, NEW l \in Listeners, ListenerPends(r, l)
      PROVE  Covered'
  <2>1. PICK s \in BOOLEAN : run' = [run EXCEPT ![r] = AfterPend(run[r], l, s)]
    BY <1>8 DEF ListenerPends, MayStop
  <2>2. /\ run[r].pc = "looping" /\ l \in Heads(run[r])
        /\ UNCHANGED <<store, listener, born, completed>>
    BY <1>8 DEF ListenerPends, Turn
  <2> DEFINE d == AfterPend(run[r], l, s)
  <2>3. /\ d.pc = "ending" /\ d.event = run[r].event /\ d.at = l
        /\ d.ran = run[r].ran /\ d.status = "pending"
    BY <1>0, PendFields
  <2>4. Required(run[r].event)
          \subseteq run[r].rest \cup run[r].ran \cup completed[run[r].event]
    BY <2>2 DEF Covered, Coverage, CoverOK
  <2>5. \A m \in run[r].rest : Prio[l] <= Prio[m]
    BY <1>0, <2>2 DEF Heads, RunShape, ShapeOK, Run
  <2>6. run[r].rest \subseteq Listeners
    BY <1>0 DEF Run
  <2>7. Before(run[r].event, l) \cap run[r].rest = {}
    BY <2>5, <2>6, ConstantsAssumption DEF Before
  <2>8. Before(run[r].event, l) \subseteq run[r].ran \cup completed[run[r].event]
    BY <2>4, <2>7 DEF Before
  <2>9. run' = [run EXCEPT ![r] = d]
    BY <2>1
  <2> HIDE DEF d
  <2>10. CoverOK(d)
    BY <2>3, <2>8 DEF CoverOK
  <2> QED BY <1>0, <2>2, <2>3, <2>9, <2>10, CoverOne
<1>9. ASSUME NEW r \in Runs, NEW l \in Listeners, ListenerThrows(r, l)
      PROVE  Covered'
  <2>1. PICK s \in BOOLEAN : run' = [run EXCEPT ![r] = AfterThrow(run[r], l, s)]
    BY <1>9 DEF ListenerThrows, MayStop
  <2>2. run[r].pc = "looping" /\ UNCHANGED <<store, listener, born, completed>>
    BY <1>9 DEF ListenerThrows, Turn
  <2> DEFINE d == AfterThrow(run[r], l, s)
  <2>3. d.pc = "ending" /\ d.event = run[r].event /\ d.status = "error"
    BY <1>0, ThrowFields
  <2>4. run' = [run EXCEPT ![r] = d]
    BY <2>1
  <2> HIDE DEF d
  <2>5. CoverOK(d)
    BY <2>3 DEF CoverOK
  <2> QED BY <1>0, <2>2, <2>3, <2>4, <2>5, CoverOne
<1>10. ASSUME NEW r \in Runs, StopsAtHead(r) PROVE Covered'
  <2>1. PICK l \in Heads(run[r]) : run' = [run EXCEPT ![r] = AfterBreak(run[r], l)]
    BY <1>10 DEF StopsAtHead
  <2>2. /\ run[r].pc = "looping" /\ run[r].status = "processing"
        /\ UNCHANGED <<store, listener, born, completed>>
    BY <1>10 DEF StopsAtHead, RunShape, ShapeOK
  <2> DEFINE d == AfterBreak(run[r], l)
  <2>3. d.pc = "ending" /\ d.event = run[r].event /\ d.status = run[r].status
    BY <1>0, BreakFields
  <2>4. run' = [run EXCEPT ![r] = d]
    BY <2>1
  <2> HIDE DEF d
  <2>5. CoverOK(d)
    BY <2>2, <2>3 DEF CoverOK
  <2> QED BY <1>0, <2>2, <2>3, <2>4, <2>5, CoverOne
<1>11. ASSUME NEW r \in Runs, Commit(r) PROVE Covered'
  <2> DEFINE c == run[r]
             e == run[r].event
             row == Upsert(store[e], c)
             d == AfterCommit(c)
  <2>1. /\ c \in Run /\ e \in Events /\ c.pc = "ending" /\ CoverOK(c)
        /\ c.status = "pending" => c.at \in Listeners
    BY <1>0, <1>11 DEF Commit, Covered, Coverage, RunShape, ShapeOK
  <2>2. /\ store' = [store EXCEPT ![e] = row]
        /\ completed' = [completed EXCEPT ![e] = completed[e] \cup c.ran]
        /\ run' = [run EXCEPT ![r] = d]
        /\ UNCHANGED <<listener, born>>
    BY <1>11 DEF Commit
  <2>3. /\ row.status = c.status /\ row.stop = c.stop
        /\ c.status = "pending" => row.listener = c.at
    BY DEF Upsert
  <2>4. d.pc \in {"answering", "idle"}
    BY <2>1, CommitFields, IdleFields
  <2>5. \A f \in Events : completed[f] \subseteq completed'[f]
    BY <2>2 DEF TypeOK
  <2>6. ASSUME NEW s \in Runs PROVE CoverOK(run[s])'
    <3>1. CASE s = r
      <4>1. run'[s] = d
        BY <2>2, <3>1 DEF TypeOK
      <4> HIDE DEF d
      <4> QED BY <2>4, <4>1 DEF CoverOK
    <3>2. CASE s # r
      <4>1. run'[s] = run[s] /\ CoverOK(run[s])
        BY <2>2, <3>2 DEF TypeOK, Covered, Coverage
      <4>2. run[s].pc # "idle" => run[s].event \in Events
        BY <1>0
      <4> HIDE DEF c, e, row, d
      <4> QED BY <2>2, <2>5, <4>1, <4>2, RequiredSame DEF CoverOK
    <3> QED BY <3>1, <3>2
  <2>7. ASSUME NEW f \in Events, store'[f].status = "pending"
        PROVE  Before(f, store[f].listener)' \subseteq completed'[f]
    <3>1. CASE f = e
      <4>1. store'[f] = row /\ completed'[f] = completed[e] \cup c.ran
        BY <2>1, <2>2, <3>1 DEF TypeOK
      <4>2. c.status = "pending" /\ row.listener = c.at
        BY <2>3, <2>7, <4>1
      <4>3. Before(e, c.at) \subseteq c.ran \cup completed[e]
        BY <2>1, <4>2 DEF CoverOK
      <4>4. Before(f, store[f].listener)' = Before(e, c.at)
        <5> HIDE DEF c, e, row
        <5> QED BY <2>2, <3>1, <4>1, <4>2 DEF Before, Required, Live, UniquePrio
      <4> QED BY <4>1, <4>3, <4>4
    <3>2. CASE f # e
      <4>1. store'[f] = store[f]
        BY <2>2, <3>2 DEF TypeOK
      <4>2. Before(f, store[f].listener) \subseteq completed[f]
        BY <2>7, <4>1 DEF Covered, Coverage
      <4>3. Before(f, store[f].listener)' = Before(f, store[f].listener)
        <5> HIDE DEF c, e, row, d
        <5> QED BY <2>2, <4>1 DEF Before, Required, Live, UniquePrio
      <4> QED BY <2>5, <4>2, <4>3
    <3> QED BY <3>1, <3>2
  <2>8. ASSUME NEW f \in Events, store'[f].status = "done", ~store'[f].stop
        PROVE  Required(f)' \subseteq completed'[f]
    <3>1. CASE f = e
      <4>1. store'[f] = row /\ completed'[f] = completed[e] \cup c.ran
        BY <2>1, <2>2, <3>1 DEF TypeOK
      <4>2. Required(e) \subseteq c.ran \cup completed[e]
        BY <2>1, <2>3, <2>8, <4>1 DEF CoverOK
      <4> QED BY <2>2, <3>1, <4>1, <4>2, RequiredSame
    <3>2. CASE f # e
      <4>1. store'[f] = store[f]
        BY <2>2, <3>2 DEF TypeOK
      <4>2. Required(f) \subseteq completed[f]
        BY <2>8, <4>1 DEF Covered, NoListenerSkipped, Required
      <4> QED BY <2>2, <2>5, <4>2, RequiredSame
    <3> QED BY <3>1, <3>2
  <2>9. NoListenerSkipped'
    BY <2>8 DEF NoListenerSkipped, Required
  <2> QED BY <2>6, <2>7, <2>9 DEF Covered, Coverage
<1>12. ASSUME NEW r \in Runs, Reply(r) \/ Abort(r) PROVE Covered'
  BY <1>5, <1>12 DEF Reply, Abort
<1>13. CASE Restart
  <2>1. \A r \in Runs : run'[r].pc = "idle"
    BY <1>13, IdleFields DEF Restart
  <2>2. UNCHANGED <<store, listener, born, completed>>
    BY <1>13 DEF Restart
  <2> QED BY <2>1, <2>2 DEF Covered, Coverage, CoverOK, NoListenerSkipped,
            Required, Before, Live, UniquePrio
<1>14. CASE UNCHANGED vars
  BY <1>14 DEF vars, Covered, Coverage, CoverOK, NoListenerSkipped, Required,
     Before, Live, UniquePrio
<1> QED
  BY <1>1, <1>2, <1>3, <1>4, <1>6, <1>7, <1>8, <1>9, <1>10, <1>11, <1>12,
     <1>13, <1>14 DEF Next, RunStep

LEMMA IInvInit == Init => IInv
BY ConstantsAssumption, IdleFields
   DEF Init, IInv, NoRow, RunShape, ShapeOK, PendingNamesOwner, RowShape, Claims,
       ClaimOK, Emitting, Unclaimed, Working, Coverage, CoverOK, StuckOnlyByStop,
       AnswerMatchesStore, ResumeReachesOwner, Looping, NoListenerSkipped

LEMMA IInvStep == TypeOK /\ IInv /\ [Next]_vars => IInv'
BY ClaimsStep, RowsStep, ShapeStep, OwnerStep, CoverStep DEF IInv, Covered

(* The inductive invariant holds of every execution of the service. *)
THEOREM Invariance == Spec => []IInv
BY IInvInit, IInvStep, TypeCorrect, PTL DEF Spec

(* A row of status 2 (pending) always names the listener that suspended    *)
(* the event and a method of that listener, whatever callbacks, aborts and *)
(* restarts happened: upsertEvent() is given listeners[idx - 1] and its    *)
(* resumeFunName together.                                                 *)
THEOREM PendingNamesOwnerHolds == Spec => []PendingNamesOwner
<1>1. IInv => PendingNamesOwner
  BY DEF IInv
<1> QED BY <1>1, Invariance, PTL

(* The answer emit() gave to its caller is never contradicted by the row. *)
THEOREM AnswerMatchesStoreHolds == Spec => []AnswerMatchesStore
<1>1. IInv => AnswerMatchesStore
  BY DEF IInv
<1> QED BY <1>1, Invariance, PTL

(* A stored statusCode 1 is only ever left by a resume that was stopped    *)
(* before its first listener.                                              *)
THEOREM StuckOnlyByStopHolds == Spec => []StuckOnlyByStop
<1>1. IInv => StuckOnlyByStop
  BY DEF IInv
<1> QED BY <1>1, Invariance, PTL

(* A resumed run carries the method name to the listener it belongs to. *)
THEOREM ResumeReachesOwnerHolds == Spec => []ResumeReachesOwner
<1>1. IInv => ResumeReachesOwner
  BY DEF IInv
<1> QED BY <1>1, Invariance, PTL

(* No listener of its own priority is skipped on the way to "done". *)
THEOREM NoListenerSkippedHolds == Spec => []NoListenerSkipped
<1>1. IInv => NoListenerSkipped
  BY DEF IInv
<1> QED BY <1>1, Invariance, PTL

----------------------------------------------------------------------------
(* EventDispatch implements EventContract. *)

LEMMA ContractInit == Init => Contract!Init
BY IdleFields DEF Init, Contract!Init, NoRow, Working

(* The refinement mapping, under names of its own. *)
Outcome == [e \in Events |-> store[e].status]
Claim == [r \in Runs |-> IF run[r].pc \in Working THEN run[r].event ELSE None]
Accepted == {e \in Events : answer[e] # "new"}

LEMMA ClaimChange ==
  ASSUME TypeOK, NEW r \in Runs, NEW d, run' = [run EXCEPT ![r] = d]
  PROVE  Claim' = [Claim EXCEPT ![r] = IF d.pc \in Working THEN d.event ELSE None]
BY DEF Claim, TypeOK, Working

LEMMA ContractStep ==
  ASSUME TypeOK, IInv, [Next]_vars
  PROVE  [Contract!Next]_(Contract!vars)
<1>0. \A r \in Runs : /\ run[r] \in Run
                      /\ run[r].pc # "idle" => run[r].event \in Events
                      /\ run[r].pc = "idle" => Claim[r] = None
  BY DEF TypeOK, IInv, RunShape, ShapeOK, Claim, Working
<1>1. ASSUME UNCHANGED <<Outcome, Claim, Accepted>>
      PROVE  UNCHANGED Contract!vars
  BY <1>1 DEF Outcome, Claim, Accepted, Contract!vars
<1>2. ASSUME NEW l \in Listeners, AddListener(l) \/ RemoveListener(l)
      PROVE  UNCHANGED Contract!vars
  BY <1>1, <1>2 DEF AddListener, RemoveListener, Outcome, Claim, Accepted
<1>3. ASSUME NEW r \in Runs, NEW e \in Events, Emit(r, e)
      PROVE  Contract!Accept(r, e)
  <2> DEFINE d == StartLoop("emit", e, Live, None, None, FALSE)
  <2>1. d.pc = "looping" /\ d.event = e
    BY DEF StartLoop, Idle
  <2>2. Claim' = [Claim EXCEPT ![r] = e]
    <3>1. run' = [run EXCEPT ![r] = d]
      BY <1>3 DEF Emit
    <3> HIDE DEF d
    <3> QED BY <2>1, <3>1, ClaimChange DEF Working
  <2>3. Claim[r] = None /\ e \notin Accepted /\ Outcome' = Outcome
    BY <1>0, <1>3 DEF Emit, Accepted, Outcome
  <2>4. Accepted' = Accepted \cup {e}
    BY <1>3 DEF Emit, Accepted, TypeOK
  <2> QED BY <2>2, <2>3, <2>4 DEF Contract!Accept, Claim, Accepted, Outcome
<1>4. ASSUME NEW r \in Runs, NEW e \in Events, Admit(r, e)
      PROVE  Contract!Reclaim(r, e)
  <2> DEFINE d == [Idle EXCEPT !.pc = "admitted", !.kind = "resume",
                               !.event = e, !.fun = store[e].fun,
                               !.at = store[e].listener, !.stop = store[e].stop]
  <2>0. d.pc = "admitted" /\ d.event = e
    BY AdmitFields
  <2>1. Claim' = [Claim EXCEPT ![r] = e]
    <3>1. run' = [run EXCEPT ![r] = d]
      BY <1>4 DEF Admit
    <3> HIDE DEF d
    <3> QED BY <2>0, <3>1, ClaimChange DEF Working
  <2>2. Claim[r] = None /\ Outcome[e] = "pending"
    BY <1>0, <1>4 DEF Admit, Resumable, Outcome
  <2>3. Outcome' = Outcome /\ Accepted' = Accepted
    BY <1>4 DEF Admit, Outcome, Accepted
  <2> QED BY <2>1, <2>2, <2>3 DEF Contract!Reclaim, Claim, Accepted, Outcome
<1>5. ASSUME NEW e \in Events, EmitRefused(e) PROVE Contract!Refuse(e)
  <2>1. Accepted' = Accepted \cup {e} /\ e \notin Accepted
    BY <1>5 DEF EmitRefused, Accepted, TypeOK
  <2>2. Outcome' = Outcome /\ Claim' = Claim
    BY <1>5 DEF EmitRefused, Outcome, Claim
  <2> QED BY <2>1, <2>2 DEF Contract!Refuse, Claim, Accepted, Outcome
<1>6. ASSUME NEW e \in Events, SyncTimeout(e) PROVE UNCHANGED Contract!vars
  <2>1. Accepted' = Accepted
    BY <1>6 DEF SyncTimeout, Accepted, TypeOK
  <2> QED BY <1>1, <1>6, <2>1 DEF SyncTimeout, Outcome, Claim
<1>7. ASSUME NEW r \in Runs, run' = [run EXCEPT ![r] = Idle],
             Outcome' = Outcome, Accepted' = Accepted
      PROVE  Contract!Drop({r})
  <2>1. Claim' = [Claim EXCEPT ![r] = None]
    BY <1>7, ClaimChange, IdleFields DEF Working
  <2>2. Claim' = [s \in Runs |-> IF s \in {r} THEN None ELSE Claim[s]]
    BY <2>1 DEF Claim
  <2> QED BY <1>7, <2>2 DEF Contract!Drop, Claim, Accepted, Outcome
<1>8. ASSUME NEW r \in Runs, Walks(r)
      PROVE  Contract!Drop({r}) \/ UNCHANGED Contract!vars
  <2>1. PICK d \in Run :
          /\ run' = [run EXCEPT ![r] = d]
          /\ \/ d = Idle
             \/ /\ d.pc \in {"looping", "ending"}
                /\ d.event = run[r].event
                /\ d.kind = run[r].kind \/ run[r].pc = "admitted"
                /\ run[r].pc = "admitted" => d.kind = "resume"
    BY <1>8, WalkMoves
  <2>2. /\ run[r].pc \in {"admitted", "looping"}
        /\ Outcome' = Outcome /\ Accepted' = Accepted
    BY <1>8, WalkMoves DEF Outcome, Accepted
  <2>3. CASE d = Idle
    BY <1>7, <2>1, <2>2, <2>3
  <2>4. CASE d # Idle
    <3>1. Claim' = [Claim EXCEPT ![r] = run[r].event] /\ Claim[r] = run[r].event
      BY <2>1, <2>2, <2>4, ClaimChange DEF Working, Claim
    <3>2. Claim' = Claim
      BY <3>1 DEF Claim
    <3> QED BY <1>1, <2>2, <3>2
  <2> QED BY <2>3, <2>4
<1>9. ASSUME NEW r \in Runs, Commit(r)
      PROVE  Contract!Settle(r, run[r].status)
  <2>1. Claim' = [Claim EXCEPT ![r] = None]
    <3>1. AfterCommit(run[r]).pc \notin Working
      BY <1>0, CommitFields, IdleFields DEF Working
    <3> QED BY <1>9, <3>1, ClaimChange DEF Commit
  <2>2. Claim[r] = run[r].event /\ Claim[r] # None
    BY <1>0, <1>9, ConstantsAssumption DEF Commit, Claim, Working
  <2>3. Outcome' = [Outcome EXCEPT ![Claim[r]] = run[r].status]
    BY <1>0, <1>9, <2>2 DEF Commit, Outcome, Upsert, TypeOK
  <2>4. Accepted' = Accepted
    BY <1>9 DEF Commit, Accepted
  <2> QED BY <2>1, <2>2, <2>3, <2>4 DEF Contract!Settle, Claim, Accepted, Outcome
<1>10. ASSUME NEW r \in Runs, Reply(r) \/ Abort(r)
       PROVE  Contract!Drop({r})
  <2>1. Accepted' = Accepted
    <3>1. CASE Reply(r)
      BY <1>0, <3>1 DEF Reply, Answered, InvokeCallback, Accepted, TypeOK, Run
    <3>2. CASE Abort(r)
      BY <3>2 DEF Abort, Answered, Accepted, TypeOK
    <3> QED BY <1>10, <3>1, <3>2
  <2> QED BY <1>7, <1>10, <2>1 DEF Reply, Abort, Outcome
<1>11. ASSUME Restart PROVE Contract!Drop(Runs)
  <2>1. Accepted' = Accepted /\ Outcome' = Outcome
    BY <1>11 DEF Restart, Answered, Accepted, Outcome, TypeOK
  <2>2. Claim' = [r \in Runs |-> IF r \in Runs THEN None ELSE Claim[r]]
    BY <1>11, IdleFields DEF Restart, Claim, Working
  <2> QED BY <2>1, <2>2 DEF Contract!Drop, Claim, Accepted, Outcome
<1>12. CASE UNCHANGED vars
  BY <1>1, <1>12 DEF vars, Outcome, Claim, Accepted
<1>13. \A r \in Runs : run[r].status \in Contract!Outcome \ {"absent"}
  BY <1>0 DEF Run, Contract!Outcome
<1>14. CASE \E r \in Runs, e \in Events : Emit(r, e) \/ Admit(r, e)
  BY <1>3, <1>4, <1>14 DEF Contract!Next
<1>15. CASE \E e \in Events : EmitRefused(e) \/ SyncTimeout(e)
  BY <1>5, <1>6, <1>15 DEF Contract!Next
<1>16. CASE \E r \in Runs : Walks(r) \/ Reply(r) \/ Abort(r)
  <2>1. \A r \in Runs : {r} \in SUBSET Runs
    OBVIOUS
  <2> QED BY <1>8, <1>10, <1>16, <2>1 DEF Contract!Next
<1>17. CASE \E r \in Runs : Commit(r)
  <2>1. PICK r \in Runs : Commit(r)
    BY <1>17
  <2>2. Contract!Settle(r, run[r].status)
    BY <1>9, <2>1
  <2>3. \E o \in Contract!Outcome \ {"absent"} : Contract!Settle(r, o)
    BY <1>13, <2>2 DEF Contract!Settle
  <2> QED BY <2>3 DEF Contract!Next
<1>18. CASE Restart
  BY <1>11, <1>18 DEF Contract!Next
<1>19. CASE \E l \in Listeners : AddListener(l) \/ RemoveListener(l)
  BY <1>2, <1>19
<1> QED
  BY <1>12, <1>14, <1>15, <1>16, <1>17, <1>18, <1>19 DEF Next, RunStep, Walks

(* The event bus keeps the promise of EventContract: a row is only written *)
(* by a run that claimed the event when it was new or pending, whatever    *)
(* listeners, callbacks, timeouts and restarts there are.                  *)
THEOREM Refinement == Spec => ImplementsContract
<1>1. Spec => [](TypeOK /\ IInv)
  BY TypeCorrect, Invariance, PTL
<1> QED BY <1>1, ContractInit, ContractStep, PTL
        DEF Spec, ImplementsContract, Contract!Spec

LEMMA SettledStep ==
  ASSUME TypeOK, IInv, [Next]_vars, NEW e \in Events, Contract!Settled(e)
  PROVE  Contract!Settled(e)'
<1> USE DEF Outcome, Claim, Accepted
<1>1. [Contract!Next]_(Contract!vars)
  BY ContractStep
<1>2. Outcome[e] \in {"done", "error"} /\ \A r \in Runs : Claim[r] # e
  BY DEF Contract!Settled, Contract!Final, Contract!Claimed
<1>3. e \in Accepted /\ e # None
  BY <1>2, ConstantsAssumption DEF IInv, RowShape
<1>4. SUFFICES Outcome'[e] = Outcome[e] /\ \A r \in Runs : Claim'[r] # e
  BY <1>2 DEF Contract!Settled, Contract!Final, Contract!Claimed
<1> HIDE DEF Outcome, Claim, Accepted
<1>5. /\ Outcome = [f \in Events |-> Outcome[f]]
      /\ Claim = [r \in Runs |-> Claim[r]]
  BY DEF Outcome, Claim
<1>6. ASSUME NEW r \in Runs, NEW f \in Events,
             Contract!Accept(r, f) \/ Contract!Reclaim(r, f)
      PROVE  Outcome'[e] = Outcome[e] /\ \A s \in Runs : Claim'[s] # e
  <2>1. Outcome' = Outcome /\ Claim' = [Claim EXCEPT ![r] = f] /\ f # e
    BY <1>2, <1>3, <1>6 DEF Contract!Accept, Contract!Reclaim, Outcome, Claim, Accepted
  <2> QED BY <1>2, <1>5, <2>1
<1>7. ASSUME NEW f \in Events, Contract!Refuse(f)
      PROVE  Outcome' = Outcome /\ Claim' = Claim
  BY <1>7 DEF Contract!Refuse, Outcome, Claim
<1>8. ASSUME NEW r \in Runs, NEW o, Contract!Settle(r, o)
      PROVE  Outcome'[e] = Outcome[e] /\ \A s \in Runs : Claim'[s] # e
  <2>1. /\ Outcome' = [Outcome EXCEPT ![Claim[r]] = o]
        /\ Claim' = [Claim EXCEPT ![r] = None]
    BY <1>8 DEF Contract!Settle, Outcome, Claim
  <2> QED BY <1>2, <1>3, <1>5, <2>1
<1>9. ASSUME NEW S \in SUBSET Runs, Contract!Drop(S)
      PROVE  Outcome' = Outcome /\ \A s \in Runs : Claim'[s] # e
  <2>1. /\ Outcome' = Outcome
        /\ Claim' = [s \in Runs |-> IF s \in S THEN None ELSE Claim[s]]
    BY <1>9 DEF Contract!Drop, Outcome, Claim
  <2> QED BY <1>2, <1>3, <2>1
<1>10. ASSUME UNCHANGED Contract!vars PROVE Outcome' = Outcome /\ Claim' = Claim
  BY <1>10 DEF Contract!vars, Outcome, Claim
<1> QED
  BY <1>1, <1>2, <1>6, <1>7, <1>8, <1>9, <1>10 DEF Contract!Next

(* A settled event stays settled: a duplicate or late callback for an      *)
(* event that is done or failed never changes its row again.               *)
THEOREM SettledForeverHolds == Spec => SettledForever
<1>1. Spec => [](TypeOK /\ IInv)
  BY TypeCorrect, Invariance, PTL
<1>2. TypeOK /\ IInv /\ [Next]_vars =>
        [\A e \in Events : Contract!Settled(e) => Contract!Settled(e)']_(Contract!vars)
  BY SettledStep
<1> QED BY <1>1, <1>2, PTL DEF Spec, SettledForever, Contract!SettledForever

============================================================================
