--------------------------- MODULE TaskPipeProofs ---------------------------
(***************************************************************************)
(* Proofs about TaskPipe, for any number of commands: its types, that a    *)
(* pending event names an endpoint that took the call, and that data is    *)
(* answered only for a script that came to its end.                        *)
(***************************************************************************)
EXTENDS TaskPipe, SequenceTheorems, TLAPS

USE DEF Alive, ServerLocals

LEMMA NewChildTyped ==
  /\ NewChild \in Child
  /\ NewChild.script = "starting" /\ NewChild.sent = 0
  /\ NewChild.result = FALSE /\ NewChild.emitted = FALSE
BY TaskPipeAssumption DEF NewChild, Child, Key

(* The id parsed from the key of a command is not the id of the event. *)
LEMMA NotAdmitted == \A k \in Key : ~Admitted(k)
<1> SUFFICES ASSUME NEW k \in Key
             PROVE  ParsedEventId(InvokeKey(k)) # EventId
  BY DEF Admitted
<1> DEFINE key == InvokeKey(k)
           First(i) == /\ i \in DOMAIN key /\ key[i] = "-"
                       /\ \A j \in 1..(i - 1) : key[j] /= "-"
           idx == CHOOSE i : First(i)
           S == {"-", k, "event"}
<1>1. key \in Seq(S) /\ Len(key) = 4 /\ key[1] = "-"
  <2>1. InvokeId(k) \in Seq(S) /\ Len(InvokeId(k)) = 2 /\ InvokeId(k)[1] = "-"
    BY DEF InvokeId
  <2>2. <<"-">> \in Seq(S) /\ EventId \in Seq(S) /\ Len(EventId) = 1
    BY DEF EventId
  <2>10. PICK id : id = InvokeId(k)
    OBVIOUS
  <2>11. PICK head : head = id \o <<"-">>
    OBVIOUS
  <2>3. id = InvokeId(k) /\ head = id \o <<"-">>
    BY <2>10, <2>11
  <2> HIDE DEF S
  <2>4. id \in Seq(S) /\ Len(id) = 2 /\ id[1] = "-"
    BY <2>1, <2>3
  <2>5. head \in Seq(S) /\ Len(head) = 3 /\ head[1] = "-"
    <3>1. Len(<<"-">>) = 1
      OBVIOUS
    <3> QED BY <2>2, <2>3, <2>4, <3>1, ConcatProperties
  <2>6. key = head \o EventId
    BY <2>3 DEF InvokeKey
  <2> HIDE DEF key
  <2>7. /\ head \o EventId \in Seq(S) /\ Len(head \o EventId) = 4
        /\ (head \o EventId)[1] = "-"
    <3>1. /\ head \o EventId \in Seq(S)
          /\ Len(head \o EventId) = Len(head) + Len(EventId)
          /\ \A i \in 1..(Len(head) + Len(EventId)) :
               (head \o EventId)[i] =
                 IF i <= Len(head) THEN head[i] ELSE EventId[i - Len(head)]
      BY <2>2, <2>5, ConcatProperties
    <3> QED BY <2>2, <2>5, <3>1
  <2> QED BY <2>6, <2>7
<1> HIDE DEF key, S
<1>2. First(1) /\ \A i : First(i) => i = 1
  BY <1>1
<1>3. idx = 1
  BY <1>2
<1>4. ParsedEventId(key) = SubSeq(key, idx + 1, Len(key))
  BY DEF ParsedEventId
<1> HIDE DEF idx
<1>5. ParsedEventId(key) = SubSeq(key, 2, 4)
  BY <1>1, <1>3, <1>4
<1>6. Len(SubSeq(key, 2, 4)) = 3
  BY <1>1, SubSeqProperties
<1>7. Len(EventId) = 1
  BY DEF EventId
<1> QED BY <1>5, <1>6, <1>7 DEF key

LEMMA PipeFacts ==
  ASSUME TypeOK
  PROVE  /\ pipe \in Seq(Line) /\ DOMAIN pipe = 1..Len(pipe) /\ Len(pipe) \in Nat
         /\ \A n \in DOMAIN pipe :
              /\ pipe[n].kind \in {"command", "result", "error"}
              /\ pipe[n].kind = "command" => pipe[n].key \in Key
         /\ child.sent \in 0..MaxCommands
<1>1. pipe \in Seq(Line) /\ DOMAIN pipe = 1..Len(pipe) /\ Len(pipe) \in Nat
  BY DEF TypeOK
<1>2. ASSUME NEW n \in DOMAIN pipe
      PROVE  /\ pipe[n].kind \in {"command", "result", "error"}
             /\ pipe[n].kind = "command" => pipe[n].key \in Key
  <2>1. pipe[n] \in Line
    BY <1>1, ElementOfSeq
  <2> QED BY <2>1 DEF Line
<1> QED BY <1>1, <1>2 DEF TypeOK, Child

LEMMA InvInit == Init => IInv
<1> SUFFICES ASSUME Init PROVE IInv
  OBVIOUS
<1>1. child \in Child /\ child.script = "dead" /\ child.sent = 0
      /\ child.npx = "down" /\ child.emitted
  BY NewChildTyped DEF Init, Child
<1>2. server \in ServerLocals
      /\ server.pc = "idle" /\ ~server.final /\ ~server.frozen
  BY DEF Init, NewServer
<1>3. pipe = <<>> /\ Len(pipe) = 0 /\ DOMAIN pipe = {} /\ pipe \in Seq(Line)
  BY DEF Init
<1>4. event.status = "new" /\ event.invocations = {}
  BY DEF Init
<1>5. TypeOK
  BY <1>1, <1>2, <1>3, TaskPipeAssumption DEF Init, TypeOK
<1>6. StageOK /\ OutcomeOK
  BY <1>1, <1>2, <1>3, <1>4 DEF Init, StageOK, OutcomeOK
<1>7. PipeOK /\ ResultOK /\ FrozenOK
  BY <1>1, <1>2, <1>3 DEF Init, PipeOK, ResultOK, FrozenOK
<1>8. PendingCalledOut /\ DataIsOfEndedScript
  BY <1>4 DEF PendingCalledOut, DataIsOfEndedScript
<1> QED BY <1>5, <1>6, <1>7, <1>8 DEF IInv

----------------------------------------------------------------------------
(* Steps of the subprocess, and of the server watching it. *)

(* The child moves on without sending anything, or the server notices.     *)
LEMMA ChildKeeps ==
  ASSUME IInv,
         child' \in Child, child'.sent = child.sent,
         child'.result = child.result,
         child'.script = "starting" => child.script = "starting",
         child'.script = "running" => child.script \in {"starting", "running"},
         child.script = "dead" => child'.script = "dead",
         child.emitted => child'.emitted,
         child.npx = "down" => child'.npx = "down",
         child'.emitted => child'.npx = "down",
         server' \in ServerLocals,
         server'.frozen = server.frozen, server'.final = server.final,
         \/ server'.pc = server.pc
         \/ server.pc = "spawning" /\ server'.pc = "waiting"
         \/ server.pc = "waiting" /\ server'.pc = "exited" /\ child'.emitted
         \/ server.pc = "exited" /\ server'.pc = "saving",
         replies' \subseteq [execution : {None}, code : Key],
         UNCHANGED <<event, invocations, pipe, handling, owed, refused>>,
         OutcomeOK'
  PROVE  IInv'
<1> USE DEF IInv
<1>1. TypeOK'
  BY DEF TypeOK
<1>2. StageOK'
  BY DEF StageOK
<1>3. PipeOK'
  BY DEF PipeOK, Later, TypeOK, Child
<1>4. ResultOK'
  BY DEF ResultOK, TypeOK, Child
<1>5. FrozenOK'
  BY DEF FrozenOK, Later, StageOK
<1>6. PendingCalledOut'
  BY DEF PendingCalledOut, StageOK
<1>7. DataIsOfEndedScript'
  BY DEF DataIsOfEndedScript
<1> QED BY <1>1, <1>2, <1>3, <1>4, <1>5, <1>6, <1>7

LEMMA ConnectKeeps ==
  ASSUME IInv, Connect
  PROVE  IInv'
<1>1. child \in Child /\ child.script = "starting"
  BY DEF IInv, TypeOK, Connect
<1>2. /\ child' = [child EXCEPT !.script = "running", !.out = TRUE]
      /\ UNCHANGED <<event, invocations, server, pipe, replies, handling, owed,
                     refused>>
  BY DEF Connect
<1>3. /\ child' \in Child /\ child'.sent = child.sent
      /\ child'.result = child.result /\ child'.script = "running"
      /\ child'.emitted = child.emitted /\ child'.npx = child.npx
  BY <1>1, <1>2 DEF Child
<1>4. OutcomeOK'
  BY <1>2, <1>3 DEF IInv, OutcomeOK
<1> QED BY <1>1, <1>2, <1>3, <1>4, ChildKeeps DEF IInv, TypeOK, StageOK

LEMMA DieKeeps ==
  ASSUME IInv, NEW said \in BOOLEAN, Die(said)
  PROVE  IInv'
<1> DEFINE c == CodeOf(IF said THEN 1 ELSE None)
           o == child.out \/ said
<1>1. child \in Child /\ child.script \in {"starting", "running"}
  BY DEF IInv, TypeOK, Die
<1>2. /\ child' = [child EXCEPT !.script = "dead", !.out = o, !.code = c]
      /\ UNCHANGED <<event, invocations, server, pipe, replies, handling, owed,
                     refused>>
  BY DEF Die
<1>3. /\ child' \in Child /\ child'.sent = child.sent
      /\ child'.result = child.result /\ child'.script = "dead"
      /\ child'.emitted = child.emitted /\ child'.npx = child.npx
  <2>1. c \in {0, 1, None} /\ o \in BOOLEAN
    BY <1>1 DEF CodeOf, Child
  <2> HIDE DEF c, o
  <2> QED BY <1>1, <1>2, <2>1 DEF Child
<1>4. OutcomeOK'
  BY <1>2, <1>3 DEF IInv, OutcomeOK
<1> QED BY <1>1, <1>2, <1>3, <1>4, ChildKeeps DEF IInv, TypeOK, StageOK

LEMMA TakeReplyKeeps ==
  ASSUME IInv, TakeReply
  PROVE  IInv'
<1>1. PICK r \in replies :
        /\ replies' = replies \ {r}
        /\ child' = [child EXCEPT !.pending = @ \ {r}, !.awaited = @ \ {r}]
  BY DEF TakeReply
<1>2. /\ child \in Child
      /\ UNCHANGED <<event, invocations, server, pipe, handling, owed, refused>>
  BY DEF IInv, TypeOK, TakeReply
<1>3. /\ child' \in Child /\ child'.sent = child.sent
      /\ child'.result = child.result /\ child'.script = child.script
      /\ child'.emitted = child.emitted /\ child'.npx = child.npx
  BY <1>1, <1>2 DEF Child
<1>4. OutcomeOK'
  BY <1>2, <1>3 DEF IInv, OutcomeOK
<1>5. replies' \subseteq [execution : {None}, code : Key]
  BY <1>1 DEF IInv, TypeOK
<1> QED BY <1>2, <1>3, <1>4, <1>5, ChildKeeps DEF IInv, TypeOK, StageOK

LEMMA ExitKeeps ==
  ASSUME IInv, Exit
  PROVE  IInv'
<1>1. /\ child \in Child /\ child.script = "ending"
      /\ child' = [child EXCEPT !.script = "dead"]
      /\ UNCHANGED <<event, invocations, server, pipe, replies, handling, owed,
                     refused>>
  BY DEF IInv, TypeOK, Exit
<1>2. /\ child' \in Child /\ child'.sent = child.sent
      /\ child'.result = child.result /\ child'.script = "dead"
      /\ child'.emitted = child.emitted /\ child'.npx = child.npx
  BY <1>1 DEF Child
<1>3. OutcomeOK'
  BY <1>1, <1>2 DEF IInv, OutcomeOK
<1> QED BY <1>1, <1>2, <1>3, ChildKeeps DEF IInv, TypeOK, StageOK

LEMMA NpxExitKeeps ==
  ASSUME IInv, NpxExit
  PROVE  IInv'
<1>1. /\ child \in Child
      /\ child' = [child EXCEPT !.npx = "down"]
      /\ UNCHANGED <<event, invocations, server, pipe, replies, handling, owed,
                     refused>>
  BY DEF IInv, TypeOK, NpxExit
<1>2. /\ child' \in Child /\ child'.sent = child.sent
      /\ child'.result = child.result /\ child'.script = child.script
      /\ child'.emitted = child.emitted /\ child'.npx = "down"
  BY <1>1 DEF Child
<1>3. OutcomeOK'
  BY <1>1, <1>2 DEF IInv, OutcomeOK
<1> QED BY <1>1, <1>2, <1>3, ChildKeeps DEF IInv, TypeOK, StageOK

LEMMA SpawnResolvedKeeps ==
  ASSUME IInv, SpawnResolved
  PROVE  IInv'
<1>1. /\ server.pc = "spawning"
      /\ server' = [server EXCEPT !.pc = "waiting"]
      /\ UNCHANGED <<event, invocations, child, pipe, replies, handling, owed,
                     refused>>
  BY DEF SpawnResolved
<1>2. /\ server'.frozen = server.frozen /\ server'.final = server.final
      /\ server'.pc = "waiting"
      /\ server' \in ServerLocals
  BY <1>1 DEF IInv, TypeOK
<1>3. OutcomeOK'
  BY <1>2 DEF OutcomeOK
<1> QED BY <1>1, <1>2, <1>3, ChildKeeps DEF IInv, TypeOK, StageOK

LEMMA EmitExitKeeps ==
  ASSUME IInv, EmitExit
  PROVE  IInv'
<1> DEFINE p == HeardExit
           m == server.pc = "spawning"
<1>1. /\ child.npx = "down" /\ child \in Child
      /\ child' = [child EXCEPT !.emitted = TRUE]
      /\ server' = [server EXCEPT !.pc = p, !.missed = m]
      /\ UNCHANGED <<event, invocations, pipe, replies, handling, owed,
                     refused>>
  BY DEF IInv, TypeOK, EmitExit
<1>2. /\ p = server.pc \/ (server.pc = "waiting" /\ p = "exited")
      /\ m \in BOOLEAN
  BY DEF HeardExit
<1> HIDE DEF p, m
<1>3. /\ child' \in Child /\ child'.sent = child.sent
      /\ child'.result = child.result /\ child'.script = child.script
      /\ child'.emitted /\ child'.npx = "down"
  BY <1>1 DEF Child
<1>4. /\ server'.frozen = server.frozen /\ server'.final = server.final
      /\ server'.pc = p /\ server'.outcome = server.outcome
      /\ server' \in ServerLocals
  BY <1>1, <1>2 DEF IInv, TypeOK
<1>5. OutcomeOK'
  BY <1>2, <1>3, <1>4 DEF IInv, OutcomeOK
<1> QED BY <1>1, <1>2, <1>3, <1>4, <1>5, ChildKeeps DEF IInv, TypeOK, StageOK

LEMMA ReturnKeeps ==
  ASSUME IInv, Return
  PROVE  IInv'
<1> DEFINE o == Outcome
<1>1. /\ server.pc = "exited"
      /\ server' = [server EXCEPT !.pc = "saving", !.outcome = o]
      /\ UNCHANGED <<event, invocations, child, pipe, replies, handling, owed,
                     refused>>
  BY DEF Return
<1>2. /\ o \in {"pending", "done", "failed"}
      /\ o = "pending" => server.frozen
      /\ o = "done" => server.final /\ ~server.frozen
  BY DEF Outcome
<1> HIDE DEF o
<1>3. /\ server'.frozen = server.frozen /\ server'.final = server.final
      /\ server'.pc = "saving" /\ server'.outcome = o
      /\ server' \in ServerLocals
  BY <1>1, <1>2 DEF IInv, TypeOK
<1>4. OutcomeOK'
  BY <1>1, <1>2, <1>3 DEF IInv, OutcomeOK, ResultOK
<1> QED BY <1>1, <1>3, <1>4, ChildKeeps DEF IInv, TypeOK, StageOK

----------------------------------------------------------------------------
(* The script sends. *)

LEMMA SendCommandKeeps ==
  ASSUME IInv, NEW awaits \in BOOLEAN, SendCommand(awaits)
  PROVE  IInv'
<1> USE DEF IInv
<1> DEFINE k == child.sent + 1
           line == [kind |-> "command", key |-> k]
           aw == IF awaits THEN {RequestId(k)} ELSE child.awaited
<1>1. /\ child.script = "running" /\ k <= MaxCommands /\ child \in Child
      /\ child' = [child EXCEPT !.sent = k, !.pending = @ \cup {RequestId(k)},
                                !.awaited = aw]
      /\ pipe' = Append(pipe, line)
      /\ UNCHANGED <<event, invocations, server, replies, handling, owed,
                     refused>>
  BY DEF TypeOK, SendCommand, Ready
<1>2. k \in Key /\ k = child.sent + 1 /\ k \in 0..MaxCommands /\ line \in Line
      /\ line.kind = "command" /\ line.key = k /\ child.sent \in Nat
  BY <1>1, TaskPipeAssumption DEF Key, Line, Child
<1>3. RequestId(k) \in [execution : {"task"}, code : Key]
      /\ aw \subseteq [execution : {"task"}, code : Key]
  BY <1>1, <1>2 DEF RequestId, Child
<1> HIDE DEF k, line, aw
<1>4. /\ child' \in Child /\ child'.sent = k /\ child'.result = child.result
      /\ child'.script = "running"
      /\ child'.emitted = child.emitted /\ child'.npx = child.npx
  BY <1>1, <1>2, <1>3 DEF Child
<1>5. /\ pipe \in Seq(Line) /\ Len(pipe) \in Nat /\ DOMAIN pipe = 1..Len(pipe)
  BY DEF TypeOK
<1>6. /\ pipe' \in Seq(Line) /\ Len(pipe') = Len(pipe) + 1
      /\ DOMAIN pipe' = 1..(Len(pipe) + 1)
      /\ \A n \in DOMAIN pipe : pipe'[n] = pipe[n]
      /\ pipe'[Len(pipe) + 1] = line
      /\ \A n \in DOMAIN pipe' : n \in DOMAIN pipe \/ n = Len(pipe) + 1
  BY <1>1, <1>2, <1>5, AppendProperties
<1>7. /\ Len(pipe) <= child.sent
      /\ \A n \in DOMAIN pipe : pipe[n].kind = "command" => pipe[n].key <= child.sent
  BY <1>1 DEF PipeOK
<1>8. \A j : j <= child.sent /\ j \in Int /\ Later(j) => Later(j)'
  BY <1>2, <1>6 DEF Later
<1>9. TypeOK'
  <2>1. Len(pipe') <= MaxCommands + 1
    BY <1>2, <1>5, <1>6, <1>7, TaskPipeAssumption
  <2> QED BY <1>1, <1>4, <1>6, <2>1 DEF TypeOK
<1>10. StageOK'
  BY <1>1, <1>4 DEF StageOK
<1>11. PipeOK'
  <2>1. Len(pipe') <= child'.sent
    BY <1>2, <1>4, <1>5, <1>6, <1>7
  <2>2. \A n \in DOMAIN pipe' : pipe'[n].kind = "command" => pipe'[n].key <= k
    <3> SUFFICES ASSUME NEW n \in DOMAIN pipe', pipe'[n].kind = "command"
                 PROVE  pipe'[n].key <= k
      OBVIOUS
    <3>1. CASE n = Len(pipe) + 1
      BY <1>2, <1>6, <3>1
    <3>2. CASE n \in DOMAIN pipe
      <4>1. pipe[n].key \in Key /\ pipe[n].key <= child.sent
        BY <1>6, <1>7, <3>2, PipeFacts
      <4> QED BY <1>2, <1>6, <3>2, <4>1 DEF Key
    <3> QED BY <1>6, <3>1, <3>2
  <2>3. ASSUME NEW m \in DOMAIN pipe', NEW n \in DOMAIN pipe', m < n,
               pipe'[m].kind = "command", pipe'[n].kind = "command"
        PROVE  pipe'[m].key < pipe'[n].key
    <3>1. m \in DOMAIN pipe
      BY <1>5, <1>6, <2>3
    <3>2. CASE n \in DOMAIN pipe
      BY <1>6, <2>3, <3>1, <3>2 DEF PipeOK
    <3>3. CASE n = Len(pipe) + 1
      <4>1. pipe[m].key \in Key /\ pipe[m].key <= child.sent
        BY <1>6, <1>7, <2>3, <3>1, PipeFacts
      <4> QED BY <1>2, <1>6, <3>1, <3>3, <4>1 DEF Key
    <3> QED BY <1>6, <3>2, <3>3
  <2>4. \A j \in handling' : Later(j)' /\ j <= child'.sent
    <3> SUFFICES ASSUME NEW j \in handling PROVE Later(j)' /\ j <= k
      BY <1>1, <1>4
    <3>1. j \in Int /\ Later(j) /\ j <= child.sent
      BY DEF PipeOK, TypeOK, Key
    <3> QED BY <1>2, <1>8, <3>1
  <2>5. Len(pipe') <= child'.sent + 1
    BY <1>2, <1>4, <1>5, <1>6, <1>7
  <2> QED BY <1>4, <2>1, <2>2, <2>3, <2>4, <2>5 DEF PipeOK
<1>12. ResultOK'
  BY <1>1, <1>2, <1>4, <1>6 DEF ResultOK
<1>13. FrozenOK' /\ PendingCalledOut'
  <2>1. FrozenOK'
    <3> SUFFICES ASSUME server.frozen
                 PROVE  /\ child'.npx = "down" /\ server.pc # "spawning"
                        /\ \E j \in invocations \cap (owed \cup refused) :
                             j \notin handling /\ j <= k /\ Later(j)'
      BY <1>1, <1>4 DEF FrozenOK
    <3>1. PICK j \in invocations \cap (owed \cup refused) :
            j \notin handling /\ j <= child.sent /\ Later(j)
      BY DEF FrozenOK
    <3>2. j \in Int
      BY <3>1 DEF TypeOK, Key
    <3> QED BY <1>2, <1>4, <1>8, <3>1, <3>2 DEF FrozenOK
  <2> QED BY <1>1, <1>4, <2>1 DEF PendingCalledOut
<1>14. OutcomeOK' /\ DataIsOfEndedScript'
  BY <1>1, <1>4 DEF OutcomeOK, DataIsOfEndedScript
<1> QED BY <1>9, <1>10, <1>11, <1>12, <1>13, <1>14

LEMMA FinishKeeps ==
  ASSUME IInv, NEW code \in {0, 1},
         NEW lines \in {<<>>, <<[kind |-> "result"]>>, <<[kind |-> "error"]>>},
         Finish(lines, code)
  PROVE  IInv'
<1> USE DEF IInv
<1> DEFINE sends == lines = <<[kind |-> "result"]>>
           c == CodeOf(code)
<1>1. /\ child.script = "running" /\ child \in Child
      /\ child' = [child EXCEPT !.script = "ending", !.code = c, !.result = sends]
      /\ pipe' = pipe \o lines
      /\ UNCHANGED <<event, invocations, server, replies, handling, owed,
                     refused>>
  BY DEF TypeOK, Finish, Ready
<1>2. /\ child' \in Child /\ child'.sent = child.sent /\ child'.script = "ending"
      /\ child'.result = sends
      /\ child'.emitted = child.emitted /\ child'.npx = child.npx
  <2>1. sends \in BOOLEAN /\ c \in {0, 1, None}
    BY <1>1 DEF CodeOf, Child
  <2> HIDE DEF sends, c
  <2> QED BY <1>1, <2>1 DEF Child
<1>3. /\ pipe \in Seq(Line) /\ Len(pipe) \in Nat /\ DOMAIN pipe = 1..Len(pipe)
      /\ Len(pipe) <= child.sent /\ child.sent \in 0..MaxCommands
      /\ ~server.final
      /\ \A n \in DOMAIN pipe : pipe[n].kind # "result"
  BY <1>1, PipeFacts DEF TypeOK, PipeOK, ResultOK
<1>4. PICK e \in {"result", "error"} : lines = <<>> \/ lines = <<[kind |-> e]>>
  OBVIOUS
<1>5. /\ pipe' \in Seq(Line) /\ Len(pipe') \in Nat /\ Len(pipe') <= Len(pipe) + 1
      /\ DOMAIN pipe \subseteq DOMAIN pipe'
      /\ \A n \in DOMAIN pipe : pipe'[n] = pipe[n]
      /\ \A n \in DOMAIN pipe' :
           \/ n \in DOMAIN pipe
           \/ /\ pipe'[n].kind \in {"result", "error"}
              /\ pipe'[n].kind = "result" => sends
  <2>1. CASE lines = <<>>
    <3>1. pipe' = pipe
      BY <1>1, <1>3, <2>1, ConcatEmptySeq
    <3> QED BY <1>3, <3>1
  <2>2. CASE lines # <<>>
    <3> DEFINE line == [kind |-> e]
    <3>1. lines = <<line>> /\ line \in Line /\ line.kind = e
      BY <1>4, <2>2 DEF Line
    <3>2. e = "result" => sends
      BY <3>1
    <3> HIDE DEF line, sends
    <3>3. pipe' = Append(pipe, line)
      BY <1>1, <1>3, <3>1, AppendIsConcat
    <3>4. /\ pipe' \in Seq(Line) /\ Len(pipe') = Len(pipe) + 1
          /\ \A n \in 1..Len(pipe) : pipe'[n] = pipe[n]
          /\ pipe'[Len(pipe) + 1] = line
      BY <1>3, <3>1, <3>3, AppendProperties
    <3>5. \A n \in DOMAIN pipe' : n \in DOMAIN pipe \/ n = Len(pipe) + 1
      BY <1>3, <3>4
    <3> QED BY <1>3, <3>1, <3>2, <3>4, <3>5
  <2> QED BY <2>1, <2>2
<1> HIDE DEF sends, c
<1>6. \A n \in DOMAIN pipe' :
        pipe'[n].kind = "command" => n \in DOMAIN pipe /\ pipe'[n] = pipe[n]
  BY <1>5
<1>7. TypeOK'
  <2>1. Len(pipe') <= MaxCommands + 1
    BY <1>3, <1>5, TaskPipeAssumption
  <2> QED BY <1>1, <1>2, <1>5, <2>1 DEF TypeOK
<1>8. StageOK'
  BY <1>1, <1>2 DEF StageOK
<1>9. PipeOK'
  <2>1. Len(pipe') <= child'.sent + 1
    BY <1>2, <1>3, <1>5
  <2>2. \A n \in DOMAIN pipe' : pipe'[n].kind = "command" => pipe'[n].key <= child.sent
    BY <1>6 DEF PipeOK
  <2>3. \A m, n \in DOMAIN pipe' :
          /\ m < n
          /\ pipe'[m].kind = "command" /\ pipe'[n].kind = "command"
          => pipe'[m].key < pipe'[n].key
    BY <1>6 DEF PipeOK
  <2>4. \A k \in handling : Later(k)' /\ k <= child.sent
    BY <1>6 DEF PipeOK, Later
  <2> QED BY <1>1, <1>2, <2>1, <2>2, <2>3, <2>4 DEF PipeOK
<1>10. ResultOK'
  BY <1>1, <1>2, <1>3, <1>5 DEF ResultOK
<1>11. FrozenOK' /\ PendingCalledOut'
  BY <1>1, <1>2, <1>6 DEF FrozenOK, PendingCalledOut, Later
<1>12. OutcomeOK' /\ DataIsOfEndedScript'
  BY <1>1, <1>2 DEF OutcomeOK, DataIsOfEndedScript, ResultOK
<1> QED BY <1>7, <1>8, <1>9, <1>10, <1>11, <1>12

----------------------------------------------------------------------------
(* The server handles what it reads. *)

LEMMA ReadLineKeeps ==
  ASSUME IInv, ReadLine
  PROVE  IInv'
<1> USE DEF IInv
<1> DEFINE line == Head(pipe)
<1>1. /\ pipe # <<>> /\ pipe' = Tail(pipe)
      /\ UNCHANGED <<event, child, replies, owed, refused>>
      /\ \/ /\ line.kind = "command" /\ handling' = handling \cup {line.key}
            /\ invocations' = invocations \cup {line.key} /\ server' = server
         \/ /\ line.kind = "result" /\ server' = [server EXCEPT !.final = TRUE]
            /\ handling' = handling /\ invocations' = invocations
         \/ /\ line.kind = "error" /\ server' = server
            /\ handling' = handling /\ invocations' = invocations
  BY DEF ReadLine
<1>2. /\ pipe \in Seq(Line) /\ Len(pipe) \in Nat /\ DOMAIN pipe = 1..Len(pipe)
      /\ child.sent \in 0..MaxCommands
  BY PipeFacts
<1>3. /\ line = pipe[1] /\ 1 \in DOMAIN pipe
      /\ pipe' \in Seq(Line) /\ Len(pipe') = Len(pipe) - 1
      /\ \A n \in 1..Len(pipe') : pipe'[n] = pipe[n + 1]
  BY <1>1, <1>2, HeadTailProperties
<1>4. \A n \in DOMAIN pipe' : /\ n \in Nat \ {0} /\ n + 1 \in DOMAIN pipe
                              /\ pipe'[n] = pipe[n + 1]
  BY <1>2, <1>3
<1>5. PICK key : key = line.key
  OBVIOUS
<1>6. line.kind = "command" =>
        key \in Key /\ key <= child.sent /\ Later(key)'
  <2> SUFFICES ASSUME line.kind = "command"
               PROVE  key \in Key /\ key <= child.sent /\ Later(key)'
    OBVIOUS
  <2>1. key \in Key /\ key <= child.sent
    BY <1>3, <1>5, PipeFacts DEF PipeOK
  <2>2. ASSUME NEW n \in DOMAIN pipe', pipe'[n].kind = "command"
        PROVE  key < pipe'[n].key
    <3>1. n + 1 \in DOMAIN pipe /\ pipe'[n] = pipe[n + 1] /\ 1 < n + 1
      BY <1>4
    <3> QED BY <1>3, <1>5, <2>2, <3>1 DEF PipeOK
  <2> QED BY <2>1, <2>2 DEF Later
<1>7. \A k : Later(k) => Later(k)'
  BY <1>4 DEF Later
<1> HIDE DEF line
<1>8. /\ server'.frozen = server.frozen /\ server'.pc = server.pc
      /\ server'.outcome = server.outcome
      /\ server'.final => server.final \/ line.kind = "result"
      /\ server' \in ServerLocals
  BY <1>1 DEF TypeOK
<1>9. /\ \/ handling' = handling /\ invocations' = invocations
         \/ /\ line.kind = "command" /\ handling' = handling \cup {key}
            /\ invocations' = invocations \cup {key}
      /\ handling' \subseteq invocations' /\ invocations' \subseteq Key
      /\ invocations \subseteq invocations'
  BY <1>1, <1>5, <1>6 DEF TypeOK
<1>10. TypeOK'
  <2>1. Len(pipe') <= MaxCommands + 1
    BY <1>2, <1>3, TaskPipeAssumption DEF TypeOK
  <2> QED BY <1>1, <1>3, <1>8, <1>9, <2>1 DEF TypeOK
<1>11. StageOK'
  BY <1>1, <1>8, <1>9 DEF StageOK
<1>12. PipeOK'
  <2>1. /\ Len(pipe') <= child.sent + 1
        /\ child.script \in {"starting", "running"} => Len(pipe') <= child.sent
    BY <1>2, <1>3 DEF PipeOK
  <2>2. \A n \in DOMAIN pipe' : pipe'[n].kind = "command" => pipe'[n].key <= child.sent
    BY <1>4 DEF PipeOK
  <2>3. ASSUME NEW m \in DOMAIN pipe', NEW n \in DOMAIN pipe', m < n,
               pipe'[m].kind = "command", pipe'[n].kind = "command"
        PROVE  pipe'[m].key < pipe'[n].key
    <3>1. m + 1 \in DOMAIN pipe /\ n + 1 \in DOMAIN pipe /\ m + 1 < n + 1
      BY <1>4, <2>3
    <3> QED BY <1>4, <2>3, <3>1 DEF PipeOK
  <2>4. \A k \in handling' : Later(k)' /\ k <= child.sent
    BY <1>6, <1>7, <1>9 DEF PipeOK
  <2> QED BY <1>1, <2>1, <2>2, <2>3, <2>4 DEF PipeOK
<1>13. ResultOK'
  BY <1>1, <1>3, <1>4, <1>8 DEF ResultOK
<1>14. FrozenOK'
  <2> SUFFICES ASSUME server.frozen
               PROVE  /\ child.npx = "down" /\ server.pc # "spawning"
                      /\ \E k \in invocations' \cap (owed \cup refused) :
                           k \notin handling' /\ k <= child.sent /\ Later(k)'
    BY <1>1, <1>8 DEF FrozenOK
  <2>1. PICK k \in invocations \cap (owed \cup refused) :
          k \notin handling /\ k <= child.sent /\ Later(k)
    BY DEF FrozenOK
  <2>2. line.kind = "command" => k < key
    BY <1>3, <1>5, <2>1 DEF Later
  <2>3. k \notin handling'
    BY <1>6, <1>9, <2>1, <2>2 DEF Key
  <2> QED BY <1>7, <1>9, <2>1, <2>3 DEF FrozenOK
<1>15. OutcomeOK' /\ PendingCalledOut' /\ DataIsOfEndedScript'
  BY <1>1, <1>8 DEF OutcomeOK, PendingCalledOut, DataIsOfEndedScript
<1> QED BY <1>10, <1>11, <1>12, <1>13, <1>14, <1>15

(* The chain of a command ends: with a response, an exception, or pending. *)
LEMMA InvokeEndsKeeps ==
  ASSUME IInv, NEW k \in Key, InvokeReturns(k) \/ InvokeThrows(k)
  PROVE  IInv'
<1> USE DEF IInv
<1>1. /\ k \in handling /\ handling' = handling \ {k}
      /\ invocations' = invocations \ {k}
      /\ replies' \subseteq [execution : {None}, code : Key]
      /\ UNCHANGED <<event, server, child, pipe, owed, refused>>
  BY DEF InvokeReturns, InvokeThrows, ReplyId, TypeOK
<1>2. TypeOK'
  BY <1>1 DEF TypeOK
<1>3. StageOK' /\ ResultOK' /\ OutcomeOK'
  BY <1>1 DEF StageOK, ResultOK, OutcomeOK
<1>4. PipeOK'
  BY <1>1 DEF PipeOK, Later
<1>5. FrozenOK'
  BY <1>1 DEF FrozenOK, Later
<1>6. PendingCalledOut' /\ DataIsOfEndedScript'
  BY <1>1 DEF PendingCalledOut, DataIsOfEndedScript
<1> QED BY <1>2, <1>3, <1>4, <1>5, <1>6

LEMMA InvokePendsKeeps ==
  ASSUME IInv, NEW k \in Key, NEW dump \in Dump, InvokePends(k, dump)
  PROVE  IInv'
<1> USE DEF IInv
<1> DEFINE kills == Killable /\ child.npx = "up"
           s == IF dump = "done" THEN "dead" ELSE child.script
<1>1. /\ k \in handling /\ handling' = handling \ {k} /\ owed' = owed \cup {k}
      /\ server' = [server EXCEPT !.frozen = Frozen(dump)]
      /\ child' = IF kills
                  THEN [child EXCEPT !.npx = "down", !.code = None, !.script = s]
                  ELSE child
      /\ UNCHANGED <<event, invocations, pipe, replies, refused>>
      /\ child \in Child
  BY DEF InvokePends, Kept, TypeOK
<1>2. s \in {child.script, "dead"}
  OBVIOUS
<1> HIDE DEF s
<1>3. /\ child' \in Child /\ child'.sent = child.sent
      /\ child'.result = child.result
      /\ child'.script \in {child.script, "dead"}
      /\ child'.emitted = child.emitted
      /\ child'.npx = IF Killable THEN "down" ELSE child.npx
  BY <1>1, <1>2 DEF Child
<1>4. /\ server' \in ServerLocals
      /\ server'.pc = server.pc /\ server'.final = server.final
      /\ server'.outcome = server.outcome
      /\ server'.frozen => server.frozen \/ Killable
  BY <1>1 DEF TypeOK, Frozen
<1>5. TypeOK'
  BY <1>1, <1>3, <1>4 DEF TypeOK
<1>6. StageOK'
  BY <1>1, <1>3, <1>4 DEF StageOK
<1>7. PipeOK'
  BY <1>1, <1>3 DEF PipeOK, Later
<1>8. ResultOK'
  BY <1>1, <1>3, <1>4 DEF ResultOK
<1>9. FrozenOK'
  <2> SUFFICES ASSUME server'.frozen
               PROVE  /\ child'.npx = "down" /\ server'.pc # "spawning"
                      /\ \E j \in invocations' \cap (owed' \cup refused') :
                           j \notin handling' /\ j <= child'.sent /\ Later(j)'
    BY DEF FrozenOK
  <2>1. child'.npx = "down" /\ server'.pc # "spawning"
    BY <1>3, <1>4 DEF FrozenOK, Killable
  <2>2. k \in invocations' \cap owed' /\ k \notin handling' /\ k <= child'.sent
    BY <1>1, <1>3 DEF TypeOK, PipeOK
  <2>3. Later(k)'
    BY <1>1 DEF PipeOK, Later
  <2> QED BY <2>1, <2>2, <2>3
<1>10. server.pc \in {"idle", "saving"} => server'.frozen = server.frozen
  BY <1>1, <1>4 DEF StageOK, Killable, Frozen, TypeOK
<1>11. OutcomeOK'
  BY <1>1, <1>3, <1>4, <1>10 DEF OutcomeOK
<1>12. PendingCalledOut' /\ DataIsOfEndedScript'
  BY <1>1, <1>3, <1>10 DEF PendingCalledOut, DataIsOfEndedScript, StageOK
<1> QED BY <1>5, <1>6, <1>7, <1>8, <1>9, <1>11, <1>12

LEMMA CallbackArrivesKeeps ==
  ASSUME IInv, NEW k \in Key, CallbackArrives(k)
  PROVE  IInv'
<1> USE DEF IInv
<1>1. /\ k \in owed /\ owed' = owed \ {k} /\ refused' = refused \cup {k}
      /\ UNCHANGED <<event, invocations, server, child, pipe, replies, handling>>
  BY NotAdmitted DEF CallbackArrives
<1>2. owed' \cup refused' = owed \cup refused
  BY <1>1
<1>3. TypeOK' /\ StageOK'
  BY <1>1 DEF TypeOK, StageOK
<1>4. PipeOK' /\ ResultOK' /\ OutcomeOK'
  BY <1>1 DEF PipeOK, Later, ResultOK, OutcomeOK
<1>5. FrozenOK'
  BY <1>1, <1>2 DEF FrozenOK, Later
<1>6. PendingCalledOut' /\ DataIsOfEndedScript'
  BY <1>1, <1>2 DEF PendingCalledOut, DataIsOfEndedScript
<1> QED BY <1>3, <1>4, <1>5, <1>6

----------------------------------------------------------------------------
(* The run begins, and its event is stored. *)

LEMMA RunAndFixKeeps ==
  ASSUME IInv, RunAndFix
  PROVE  IInv'
<1> USE DEF IInv
<1>1. /\ event.status = "new"
      /\ event' = [event EXCEPT !.status = "running"]
      /\ child' = NewChild /\ server' = NewServer
      /\ UNCHANGED <<invocations, pipe, replies, handling, owed, refused>>
  BY DEF RunAndFix
<1>2. handling = {} /\ pipe = <<>>
  BY <1>1 DEF StageOK
<1>3. /\ server' \in ServerLocals
      /\ server'.pc = "spawning" /\ ~server'.frozen /\ ~server'.final
  BY <1>1 DEF NewServer
<1>4. event'.status = "running"
  BY <1>1 DEF TypeOK
<1>5. TypeOK'
  BY <1>1, <1>3, NewChildTyped DEF TypeOK
<1>6. StageOK'
  BY <1>1, <1>2, <1>3, <1>4, NewChildTyped DEF StageOK
<1>7. PipeOK' /\ ResultOK'
  BY <1>1, <1>2, <1>3, NewChildTyped DEF PipeOK, ResultOK
<1>8. FrozenOK' /\ OutcomeOK' /\ PendingCalledOut' /\ DataIsOfEndedScript'
  BY <1>3, <1>4 DEF FrozenOK, OutcomeOK, PendingCalledOut, DataIsOfEndedScript
<1> QED BY <1>5, <1>6, <1>7, <1>8

LEMMA SpawnFailsKeeps ==
  ASSUME IInv, SpawnFails
  PROVE  IInv'
<1> USE DEF IInv
<1>1. /\ server.pc = "spawning" /\ child = NewChild
      /\ child' = [child EXCEPT !.npx = "down", !.script = "dead", !.emitted = TRUE]
      /\ server' = [server EXCEPT !.pc = "idle"]
      /\ event' = [event EXCEPT !.status = "failed", !.invocations = invocations]
      /\ UNCHANGED <<invocations, pipe, replies, handling, owed, refused>>
  BY DEF SpawnFails
<1>2. handling = {} /\ pipe = <<>>
  BY <1>1, NewChildTyped DEF StageOK
<1>3. /\ child' \in Child /\ child'.script = "dead" /\ child'.sent = child.sent
      /\ child'.result = child.result /\ child'.npx = "down" /\ child'.emitted
  BY <1>1, NewChildTyped DEF Child
<1>4. /\ server' \in ServerLocals /\ server'.pc = "idle"
      /\ server'.final = server.final /\ server'.frozen = server.frozen
  BY <1>1 DEF TypeOK
<1>5. event'.status = "failed"
  BY <1>1 DEF TypeOK
<1>6. TypeOK'
  BY <1>1, <1>3, <1>4 DEF TypeOK
<1>7. StageOK' /\ OutcomeOK' /\ FrozenOK'
  BY <1>1, <1>2, <1>3, <1>4, <1>5 DEF StageOK, OutcomeOK, FrozenOK
<1>8. PipeOK' /\ ResultOK'
  BY <1>1, <1>2, <1>3, <1>4 DEF PipeOK, ResultOK
<1>9. PendingCalledOut' /\ DataIsOfEndedScript'
  BY <1>5 DEF PendingCalledOut, DataIsOfEndedScript
<1> QED BY <1>6, <1>7, <1>8, <1>9

LEMMA SaveKeeps ==
  ASSUME IInv, Save
  PROVE  IInv'
<1> USE DEF IInv
<1>1. /\ server.pc = "saving" /\ server' = [server EXCEPT !.pc = "idle"]
      /\ event' = [event EXCEPT !.status = server.outcome,
                                !.invocations = invocations]
      /\ UNCHANGED <<invocations, child, pipe, replies, handling, owed, refused>>
  BY DEF Save
<1>2. event.status = "running" /\ child.emitted
  BY <1>1 DEF StageOK
<1>3. /\ server' \in ServerLocals /\ server'.pc = "idle"
      /\ server'.final = server.final /\ server'.frozen = server.frozen
  BY <1>1 DEF TypeOK
<1>4. /\ event'.status = server.outcome
      /\ event'.status \in {"pending", "done", "failed"}
      /\ event'.invocations = invocations
  BY <1>1 DEF TypeOK
<1>5. TypeOK'
  BY <1>1, <1>3, <1>4 DEF TypeOK
<1>6. StageOK' /\ OutcomeOK'
  BY <1>1, <1>2, <1>3, <1>4 DEF StageOK, OutcomeOK
<1>7. PipeOK' /\ ResultOK'
  BY <1>1, <1>3 DEF PipeOK, Later, ResultOK
<1>8. FrozenOK'
  BY <1>1, <1>3 DEF FrozenOK, Later
<1>9. PendingCalledOut'
  BY <1>1, <1>4 DEF PendingCalledOut, OutcomeOK, FrozenOK
<1>10. DataIsOfEndedScript'
  BY <1>1, <1>3, <1>4 DEF DataIsOfEndedScript, OutcomeOK
<1> QED BY <1>5, <1>6, <1>7, <1>8, <1>9, <1>10

----------------------------------------------------------------------------
LEMMA NextKeeps ==
  ASSUME IInv, [Next]_vars
  PROVE  IInv'
<1>1. CASE Script
  <2>1. CASE FinishWithResult \/ FinishEmpty \/ FinishWithError
    BY <2>1, FinishKeeps DEF FinishWithResult, FinishEmpty, FinishWithError
  <2> QED BY <1>1, <2>1, ConnectKeeps, TakeReplyKeeps, ExitKeeps,
         NpxExitKeeps DEF Script
<1>2. CASE Server
  BY <1>2, SpawnResolvedKeeps, ReadLineKeeps, EmitExitKeeps, ReturnKeeps,
     SaveKeeps DEF Server
<1>3. \A b \in BOOLEAN : Die(b) \/ SendCommand(b) => IInv'
  BY DieKeeps, SendCommandKeeps
<1>4. \A k \in Key : InvokeReturns(k) \/ InvokeThrows(k) => IInv'
  BY InvokeEndsKeeps
<1>5. /\ \A k \in Key : CallbackArrives(k) => IInv'
      /\ \A k \in Key, dump \in Dump : InvokePends(k, dump) => IInv'
  BY CallbackArrivesKeeps, InvokePendsKeeps
<1>6. CASE UNCHANGED vars
  BY <1>6
     DEF vars, IInv, TypeOK, StageOK, PipeOK, Later, ResultOK, FrozenOK,
         OutcomeOK, PendingCalledOut, DataIsOfEndedScript
<1> QED
  BY <1>1, <1>2, <1>3, <1>4, <1>5, <1>6, RunAndFixKeeps, SpawnFailsKeeps DEF Next

(* However the script, its commands, the server and the endpoints          *)
(* interleave, fail and call back, IInv holds: _spawnOrRestoreSubprocess() *)
(* and InvokeSubprocess.                                                   *)
THEOREM Invariance == Spec => []IInv
<1> QED BY InvInit, NextKeeps, PTL DEF Spec

(* Every variable keeps its type. *)
THEOREM TypeCorrect == Spec => []TypeOK
<1>1. IInv => TypeOK
  BY DEF IInv
<1> QED BY <1>1, Invariance, PTL

(* An event that _invokeListeners() stores as pending names an invocation  *)
(* whose endpoint took the call and answers later, and npx is gone.        *)
THEOREM PendingCalledOutHolds == Spec => []PendingCalledOut
<1>1. IInv => PendingCalledOut
  BY DEF IInv
<1> QED BY <1>1, Invariance, PTL

(* Data is answered only for a script that sent a result at its end and    *)
(* was not frozen.                                                         *)
THEOREM DataIsOfEndedScriptHolds == Spec => []DataIsOfEndedScript
<1>1. IInv => DataIsOfEndedScript
  BY DEF IInv
<1> QED BY <1>1, Invariance, PTL

============================================================================
