------------------------------ MODULE TaskPipe ------------------------------
(***************************************************************************)
(* The script of a task, run in a subprocess that talks to the server over *)
(* a named pipe: InvokeService._spawnOrRestoreSubprocess() and             *)
(* InvokeSubprocess in the server, index.ts and pipe-client.ts of the task *)
(* runner template in the subprocess.                                      *)
(*                                                                         *)
(* A script sends commands (invokeService) and a result.  The server       *)
(* invokes an endpoint for every command; one that pends makes it dump the *)
(* process tree with criu, kill its root and store the request event as    *)
(* pending.  Commands are numbered 1, 2, ... for the codes -1, -2, ... of  *)
(* the protocol.  The process the server spawns is npx; tsx and the script *)
(* are below it and one process here.  The chain of an endpoint (SepInvoke)*)
(* is reduced to its outcome.  An event has one run: no callback of a      *)
(* command is admitted (Admitted), so what would follow one, the restoring *)
(* of a process, is not modelled.                                          *)
(***************************************************************************)
EXTENDS Naturals, Sequences

CONSTANTS MaxCommands,  \* bound: commands a script sends
          None          \* null, and the executionId a reply does not carry

ASSUME TaskPipeAssumption == MaxCommands \in Nat

VARIABLES event,        \* the stored request event
          invocations,  \* context.invocations of the running event
          server,       \* locals of _spawnOrRestoreSubprocess()
          child,        \* npx, and the script below it
          pipe,         \* lines the server has not read yet
          replies,      \* lines the subprocess has not read yet
          handling,     \* commands whose onLine() awaits _invokeSEP()
          owed,         \* endpoints (by command) that have yet to call back
          refused       \* those whose callback was not admitted

vars == <<event, invocations, server, child, pipe, replies, handling, owed,
          refused>>

Key == 1..MaxCommands

(* The id of a command is executionId:code; the server splits it, keeps    *)
(* the code only, and replies under that.                                  *)
RequestId(k) == [execution |-> "task", code |-> k]
ReplyId(k) == [execution |-> None, code |-> k]

Line == [kind : {"command"}, key : Key] \cup [kind : {"result", "error"}]

(* code: npx exits with it, None when a signal ended it; out: something    *)
(* was written to stdout or stderr; emitted: 'exit' of npx was emitted,    *)
(* until when its pid can be killed; pending: pendingRequests of the pipe  *)
(* client; awaited: those the script awaits.                               *)
Child == [npx : {"up", "down"},
          script : {"starting", "running", "ending", "dead"},
          code : {0, 1, None}, out : BOOLEAN, emitted : BOOLEAN,
          sent : 0..MaxCommands, result : BOOLEAN,
          pending : SUBSET [execution : {"task"}, code : Key],
          awaited : SUBSET [execution : {"task"}, code : Key]]

NewChild == [npx |-> "up", script |-> "starting", code |-> 0, out |-> FALSE,
             emitted |-> FALSE, sent |-> 0, result |-> FALSE,
             pending |-> {}, awaited |-> {}]

(* missed: the exit came before anybody listened to it. *)
ServerLocals == [pc : {"idle", "spawning", "waiting", "exited", "saving"},
                 frozen : BOOLEAN, final : BOOLEAN, missed : BOOLEAN,
                 outcome : {"pending", "done", "failed"}]
NewServer == [pc |-> "spawning", frozen |-> FALSE, final |-> FALSE,
              missed |-> FALSE, outcome |-> "failed"]

Alive == child.script /= "dead"

TypeOK ==
  /\ event \in [status : {"new", "running", "pending", "done", "failed",
                          "resumed"}, invocations : SUBSET Key]
  /\ invocations \subseteq Key
  /\ server \in ServerLocals
  /\ child \in Child
  /\ pipe \in Seq(Line) /\ Len(pipe) <= MaxCommands + 1
  /\ replies \subseteq [execution : {None}, code : Key]
  /\ handling \subseteq invocations
  /\ owed \subseteq Key /\ refused \subseteq Key

Init ==
  /\ event = [status |-> "new", invocations |-> {}]
  /\ invocations = {}
  /\ server = [NewServer EXCEPT !.pc = "idle"]
  /\ child = [NewChild EXCEPT !.npx = "down", !.script = "dead",
                              !.emitted = TRUE]
  /\ pipe = <<>> /\ replies = {} /\ handling = {}
  /\ owed = {} /\ refused = {}

-----------------------------------------------------------------------------
(* The start of the run, and the callbacks                                 *)

(* runAndFix -> invokeSEPs of an event with a script -> spawnOrRestore(),  *)
(* which finds no image: it looks for one in checkpoint/checkpoint, and a  *)
(* dump goes to checkpoint.                                                *)
RunAndFix ==
  /\ event.status = "new"
  /\ event' = [event EXCEPT !.status = "running"]
  /\ child' = NewChild
  /\ server' = NewServer
  /\ UNCHANGED <<invocations, pipe, replies, handling, owed, refused>>

(* The strings of the key an endpoint is given for its callback: invokeId, *)
(* a dash, the id of the event.  The invokeId of a command is its code,    *)
(* which starts with a dash of its own; the key is cut at the first one.   *)
EventId == <<"event">>
InvokeId(k) == <<"-", k>>
InvokeKey(k) == InvokeId(k) \o <<"-">> \o EventId
ParsedEventId(key) ==
  LET idx == CHOOSE i \in DOMAIN key :
               key[i] = "-" /\ \A j \in 1..(i - 1) : key[j] /= "-"
  IN  SubSeq(key, idx + 1, Len(key))

(* resume(): NotFound, unless loadEvent() finds the id in the key, and     *)
(* BadRequest for an event that is not pending.                            *)
Admitted(k) ==
  ParsedEventId(InvokeKey(k)) = EventId /\ event.status = "pending"

CallbackArrives(k) ==
  /\ k \in owed
  /\ owed' = owed \ {k}
  /\ event' = IF Admitted(k) THEN [event EXCEPT !.status = "resumed"] ELSE event
  /\ refused' = IF Admitted(k) THEN refused ELSE refused \cup {k}
  /\ UNCHANGED <<invocations, server, child, pipe, replies, handling>>

(* Output of the child, or its 'close', resolves spawnOrRestore(), and     *)
(* waitForExit() starts to listen to 'exit'.                               *)
SpawnResolved ==
  /\ server.pc = "spawning"
  /\ child.out \/ child.emitted
  /\ server' = [server EXCEPT !.pc = "waiting"]
  /\ UNCHANGED <<event, invocations, child, pipe, replies, handling, owed,
                 refused>>

(* spawn() emits 'error': no child, and the request fails.                 *)
SpawnFails ==
  /\ server.pc = "spawning" /\ child = NewChild
  /\ child' = [child EXCEPT !.npx = "down", !.script = "dead", !.emitted = TRUE]
  /\ server' = [server EXCEPT !.pc = "idle"]
  /\ event' = [event EXCEPT !.status = "failed", !.invocations = invocations]
  /\ UNCHANGED <<invocations, pipe, replies, handling, owed, refused>>

-----------------------------------------------------------------------------
(* The subprocess                                                          *)

(* main() of index.ts up to execute(): connected to the pipe, and said so. *)
Connect ==
  /\ child.script = "starting"
  /\ child' = [child EXCEPT !.script = "running", !.out = TRUE]
  /\ UNCHANGED <<event, invocations, server, pipe, replies, handling, owed,
                 refused>>

(* What npx exits with, which a killed npx does no more. *)
CodeOf(code) == IF child.npx = "up" THEN code ELSE child.code

(* It dies before its end: with an error message, or without a word.       *)
Die(said) ==
  /\ child.script \in {"starting", "running"}
  /\ child' = [child EXCEPT !.script = "dead", !.out = @ \/ said,
                            !.code = CodeOf(IF said THEN 1 ELSE None)]
  /\ UNCHANGED <<event, invocations, server, pipe, replies, handling, owed,
                 refused>>

(* The script goes on as long as it awaits no command.                     *)
Ready == child.script = "running" /\ child.awaited = {}

(* invokeService -> sendCommand.                                           *)
SendCommand(awaits) ==
  LET k == child.sent + 1
  IN  /\ Ready /\ k <= MaxCommands
      /\ child' = [child EXCEPT !.sent = k,
                     !.pending = @ \cup {RequestId(k)},
                     !.awaited = IF awaits THEN {RequestId(k)} ELSE @]
      /\ pipe' = Append(pipe, [kind |-> "command", key |-> k])
      /\ UNCHANGED <<event, invocations, server, replies, handling, owed,
                     refused>>

(* on 'data': the pending request of that id is resolved; others ignored.  *)
TakeReply ==
  /\ child.script = "running"
  /\ \E r \in replies :
       /\ replies' = replies \ {r}
       /\ child' = [child EXCEPT !.pending = @ \ {r}, !.awaited = @ \ {r}]
  /\ UNCHANGED <<event, invocations, server, pipe, handling, owed, refused>>

(* execute() is settled: sendResult, unless the result is empty; close().  *)
Finish(lines, code) ==
  /\ Ready
  /\ pipe' = pipe \o lines
  /\ child' = [child EXCEPT !.script = "ending", !.code = CodeOf(code),
                            !.result = (lines = <<[kind |-> "result"]>>)]
  /\ UNCHANGED <<event, invocations, server, replies, handling, owed,
                 refused>>
FinishWithResult == Finish(<<[kind |-> "result"]>>, 0)
FinishEmpty == Finish(<<>>, 0)
FinishWithError == Finish(<<[kind |-> "error"]>>, 1)

Exit ==
  /\ child.script = "ending"
  /\ child' = [child EXCEPT !.script = "dead"]
  /\ UNCHANGED <<event, invocations, server, pipe, replies, handling, owed,
                 refused>>

(* npx ends after what it has run. *)
NpxExit ==
  /\ child.npx = "up" /\ child.script = "dead"
  /\ child' = [child EXCEPT !.npx = "down"]
  /\ UNCHANGED <<event, invocations, server, pipe, replies, handling, owed,
                 refused>>

-----------------------------------------------------------------------------
(* The server                                                              *)

(* onLine: 0 and above are results, the others commands.  The connection   *)
(* outlives server.close(): what a script below a dead npx still sends is  *)
(* handled, on an event object nobody stores again.                        *)
ReadLine ==
  /\ pipe /= <<>>
  /\ pipe' = Tail(pipe)
  /\ \/ /\ Head(pipe).kind = "command"
        /\ handling' = handling \cup {Head(pipe).key}
        /\ invocations' = invocations \cup {Head(pipe).key}
        /\ UNCHANGED server
     \/ /\ Head(pipe).kind = "result"
        /\ server' = [server EXCEPT !.final = TRUE]
        /\ UNCHANGED <<handling, invocations>>
     \/ /\ Head(pipe).kind = "error"
        /\ UNCHANGED <<handling, invocations, server>>
  /\ UNCHANGED <<event, child, replies, owed, refused>>

InvokeReturns(k) ==
  /\ k \in handling
  /\ handling' = handling \ {k}
  /\ invocations' = invocations \ {k}
  /\ replies' = IF child.script = "running" THEN replies \cup {ReplyId(k)}
                                           ELSE replies
  /\ UNCHANGED <<event, server, child, pipe, owed, refused>>

(* The handler is rejected, which nobody awaits: no reply is written.      *)
InvokeThrows(k) ==
  /\ k \in handling
  /\ handling' = handling \ {k}
  /\ invocations' = invocations \ {k}
  /\ UNCHANGED <<event, server, child, pipe, replies, owed, refused>>

(* freezeProcess(): criu dump, then kill -9 of npx, sent in any case.  It  *)
(* throws when either fails, which leaves frozenKilled unset; child is     *)
(* undefined, and the call throws, before spawnOrRestore() resolved.  A    *)
(* dump that is done ends the whole tree, the kill only npx.  A criu that  *)
(* cannot be started or dies of a signal has the status null, which passes *)
(* for success ("unseen").                                                 *)
Dump == {"done", "failed", "unseen"}
Killable == server.pc /= "spawning" /\ ~child.emitted

(* Faulty: set without regard for the exception.                           *)
FrozenAnyway(dump) == TRUE
Frozen(dump) == server.frozen \/ (Killable /\ dump /= "failed")

(* Faulty: the invocation is ended like one that returned.                 *)
EndedAtOnce(k) == invocations \ {k}
Kept(k) == invocations

InvokePends(k, dump) ==
  /\ k \in handling
  /\ dump = "done" => Killable /\ child.npx = "up"
  /\ handling' = handling \ {k}
  /\ invocations' = Kept(k)
  /\ owed' = owed \cup {k}
  /\ server' = [server EXCEPT !.frozen = Frozen(dump)]
  /\ child' = IF Killable /\ child.npx = "up"
              THEN [child EXCEPT !.npx = "down", !.code = None,
                      !.script = IF dump = "done" THEN "dead" ELSE @]
              ELSE child
  /\ UNCHANGED <<event, pipe, replies, refused>>

(* Faulty: the null code of a signal is not taken for an exit.             *)
HeardExitCode ==
  IF server.pc = "waiting" /\ child.code /= None THEN "exited" ELSE server.pc
(* 'exit', heard by waitForExit() once it listens; missed: before that.    *)
HeardExit == IF server.pc = "waiting" THEN "exited" ELSE server.pc

EmitExit ==
  /\ child.npx = "down" /\ ~child.emitted
  /\ child' = [child EXCEPT !.emitted = TRUE]
  /\ server' = [server EXCEPT !.pc = HeardExit,
                              !.missed = (server.pc = "spawning")]
  /\ UNCHANGED <<event, invocations, pipe, replies, handling, owed, refused>>

(* Faulty: the final response is looked at first.                          *)
OutcomeFinalFirst ==
  IF child.code = 1 THEN "failed"
  ELSE IF server.final THEN "done"
  ELSE IF server.frozen THEN "pending" ELSE "failed"
(* What the run returns, and what _handleResult() makes of it: pending,    *)
(* data, or a statusCode 1, which fixScriptError() never repairs.          *)
Outcome ==
  IF child.code = 1 THEN "failed"
  ELSE IF server.frozen THEN "pending"
  ELSE IF server.final THEN "done" ELSE "failed"

Return ==
  /\ server.pc = "exited"
  /\ server' = [server EXCEPT !.pc = "saving", !.outcome = Outcome]
  /\ UNCHANGED <<event, invocations, child, pipe, replies, handling, owed, refused>>

(* upsertEvent() stores the event with the invocations it has by then.     *)
Save ==
  /\ server.pc = "saving"
  /\ server' = [server EXCEPT !.pc = "idle"]
  /\ event' = [event EXCEPT !.status = server.outcome,
                            !.invocations = invocations]
  /\ UNCHANGED <<invocations, child, pipe, replies, handling, owed, refused>>

-----------------------------------------------------------------------------
Script == \/ Connect \/ TakeReply \/ Exit \/ NpxExit
          \/ FinishWithResult \/ FinishEmpty \/ FinishWithError
Server == SpawnResolved \/ ReadLine \/ EmitExit \/ Return \/ Save

Next ==
  \/ RunAndFix
  \/ \E k \in Key : CallbackArrives(k)
  \/ SpawnFails
  \/ \E said \in BOOLEAN : Die(said)
  \/ \E awaits \in BOOLEAN : SendCommand(awaits)
  \/ Script
  \/ Server
  \/ \E k \in Key : InvokeReturns(k)
  \/ \E k \in Key : InvokeThrows(k)
  \/ \E k \in Key, dump \in Dump : InvokePends(k, dump)

Spec == Init /\ [][Next]_vars

(* The processes run, the pipe delivers, and endpoint calls settle.        *)
FairSpec ==
  /\ Spec
  /\ WF_vars(Script) /\ WF_vars(Server)
  /\ \A k \in Key : WF_vars(\/ InvokeReturns(k) \/ InvokeThrows(k)
                            \/ \E dump \in Dump : InvokePends(k, dump))

-----------------------------------------------------------------------------
(* An event is stored as pending only with an invocation whose endpoint    *)
(* took the call and answers later, and after npx is gone: whichever of    *)
(* several commands froze it, and whatever became of the others, the row   *)
(* names the answer that is to come or that was refused.                   *)
PendingCalledOut ==
  event.status = "pending" =>
    event.invocations \cap (owed \cup refused) /= {} /\ child.npx = "down"

(* A request is answered with data only if the script of its last run came *)
(* to its end with a result; what a frozen script wrote before is not it   *)
(* ("Only final response or error on subprocess exit is valid").           *)
DataIsOfEndedScript ==
  event.status = "done" => child.result /\ ~server.frozen

(* A run ends, except in two cases: a living script awaits a reply, or npx *)
(* was gone before waitForExit() listened to its 'exit'.                   *)
AwaitsReply == child.npx = "up" /\ Alive /\ child.awaited /= {}
RunsEndUnlessStuck ==
  []<>(event.status /= "running" \/ AwaitsReply \/ server.missed)

(* "send response to subprocess, script goes on" (invoke.service.ts:29): a *)
(* command whose reply was sent to a living script is not awaited for ever.*)
ScriptGoesOn ==
  \A k \in Key : ReplyId(k) \in replies
                   ~> (Alive => RequestId(k) \notin child.awaited)

-----------------------------------------------------------------------------
(* The inductive invariant behind the safety properties. *)

(* The run of a script, by its stage: nothing is handled without one, and  *)
(* npx is gone, and its pid with it, before its exit is heard.             *)
StageOK ==
  /\ event.status # "resumed"
  /\ server.pc = "idle" <=> event.status # "running"
  /\ server.pc \in {"idle", "exited", "saving"} => child.emitted
  /\ child.emitted => child.npx = "down"
  /\ event.status = "new" => ~Alive /\ pipe = <<>> /\ handling = {}
  /\ child.script = "starting" => handling = {} /\ pipe = <<>>

(* The keys of the commands in the pipe rise, and none has been read.      *)
Later(k) == \A n \in DOMAIN pipe : pipe[n].kind = "command" => k < pipe[n].key
PipeOK ==
  /\ Len(pipe) <= child.sent + 1
  /\ child.script \in {"starting", "running"} => Len(pipe) <= child.sent
  /\ \A n \in DOMAIN pipe : pipe[n].kind = "command" => pipe[n].key <= child.sent
  /\ \A m, n \in DOMAIN pipe :
       /\ m < n
       /\ pipe[m].kind = "command" /\ pipe[n].kind = "command"
       => pipe[m].key < pipe[n].key
  /\ \A k \in handling : Later(k) /\ k <= child.sent

(* Only a script that has come to its end has sent a result. *)
ResultOK ==
  /\ child.script \in {"starting", "running"} => ~child.result
  /\ server.final => child.result
  /\ \A n \in DOMAIN pipe : pipe[n].kind = "result" => child.result

(* Once frozen, npx is gone, and a command of the script that nothing      *)
(* settles any more is kept.                                               *)
FrozenOK ==
  server.frozen =>
    /\ child.npx = "down" /\ server.pc # "spawning"
    /\ \E k \in invocations \cap (owed \cup refused) :
         k \notin handling /\ k <= child.sent /\ Later(k)

OutcomeOK ==
  server.pc = "saving" =>
    /\ server.outcome = "pending" => server.frozen
    /\ server.outcome = "done" => child.result /\ ~server.frozen

IInv ==
  /\ TypeOK /\ StageOK /\ PipeOK /\ ResultOK /\ FrozenOK /\ OutcomeOK
  /\ PendingCalledOut /\ DataIsOfEndedScript

============================================================================
