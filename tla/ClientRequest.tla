--------------------------- MODULE ClientRequest ---------------------------
(***************************************************************************)
(* The way of a client request from its entry to an endpoint and back: the *)
(* controllers of the REST and the web page entry, the listeners of a      *)
(* CLIENT_REQUEST event in the order of their priorities, the security     *)
(* checks on the client entry, the endpoint and its entry, the stored      *)
(* mapping of requests to arguments, the call of the endpoint (by HTTP or  *)
(* by mail), and the mail relay that brings a reply back.                  *)
(*                                                                         *)
(* A request has one run in one transaction (races of runs for one event   *)
(* are those of EventDispatch), the response cache is that of SepInvoke,   *)
(* and a generated script is taken as a whole (see TaskPipe).              *)
(***************************************************************************)
EXTENDS Naturals, Sequences

CONSTANTS Requests,    \* HTTP requests of clients
          Kinds,       \* what clients ask for, and how
          Realms,      \* callgent realms
          Validated,   \* the ones whose scheme has a validationUrl
          Setups,      \* the callgents considered
          Statuses,    \* HTTP statuses of errors of called services
          MaxReplies,  \* bound: replies to the mail of one request
          None         \* null

(* attach: the token goes with the request, rather than being validated. *)
Security == [realm : Realms, attach : BOOLEAN]

(* request() takes a requirement, invoke() names an endpoint or a page. *)
Kind == {k \in [entry : {"rest", "page"}, via : {"request", "invoke"},
                timeout : BOOLEAN, callback : BOOLEAN] :
           k.via = "request" => ~k.timeout /\ ~k.callback}

ASSUME ClientRequestAssumption ==
  /\ Setups \subseteq [cep : Seq(Security), endpoint : Seq(Security),
                       sep : Seq(Security), mail : BOOLEAN, params : BOOLEAN]
  /\ \A s \in Setups : \A n \in DOMAIN s.cep : ~s.cep[n].attach
  /\ Kinds \subseteq Kind
  /\ Validated \subseteq Realms
  /\ Statuses \subseteq 300..599
  /\ MaxReplies \in Nat
  /\ None \notin Requests

VARIABLES setup,    \* securities of entries and endpoint, how it is called
          enabled,  \* realm rows that are enabled
          kind,     \* what each client asked for, or None
          run,      \* locals of the emission of each request
          http,     \* status code each client was answered with, or None
          row,      \* committed EventStore rows
          mapping,  \* committed Req2ArgsRepo row of this entry and endpoint
          draft,    \* the row as written by an uncommitted run
          holder,   \* the run that has written it, or None
          mailed,   \* requests whose mail has gone out
          replies,  \* number of replies the relay has delivered
          handler,  \* handling of a delivered reply, in memory
          missed    \* history: why the last reply came to nothing, or "none"

vars == <<setup, enabled, kind, run, http, row, mapping, draft, holder, mailed,
          replies, handler, missed>>

(* The statuses of refusals: those of called services, and the ones of the *)
(* code's own exceptions, Unauthorized and NotFound.                       *)
Codes == Statuses \cup {401, 404}

(* refused: an error with an HTTP status, the code, failed: another (-1).  *)
(* resp: a ServiceResponse, what a script returned, or nothing.            *)
Outcome == [status : {"done", "pending", "refused", "failed"},
            at : {"none", "auth", "call"}, resp : {"none", "service", "script"},
            code : Codes \cup {None}]
Result(s, at, resp) == [status |-> s, at |-> at, resp |-> resp, code |-> None]
Pending(at) == Result("pending", at, "none")
Refused(c) == [status |-> "refused", at |-> "none", resp |-> "none", code |-> c]
Failed == Result("failed", "none", "none")

(* What a service, a model or a payment check may throw. *)
Thrown == {Failed} \cup {Refused(c) : c \in Statuses}

Auth == {"cepAuth", "endpointAuth", "sepAuth"}
InTx == Auth \cup {"preprocess", "loadEndpoints", "genWebpages",
                   "map2Endpoints", "storeMapping", "script", "call", "commit"}
Run == [pc : InTx \cup {"idle", "load", "reply", "over"},
        left : Seq(Security), out : Outcome \cup {None}]

At(p) == [pc |-> p, left |-> <<>>, out |-> None]

(* null is none of the values it stands beside. *)
ASSUME NoneAssumption == None \notin Outcome /\ None \notin Kind /\ None \notin Nat

(* req2Args generated for a request, and the requests it can map. *)
Mapping == {m \in [by : Requests, maps : SUBSET Requests] : m.by \in m.maps}

(* The realms that some check reads; the others are left alone. *)
Guarding == {r \in Realms : \E s \in {setup.cep, setup.endpoint, setup.sep} :
                              \E n \in DOMAIN s : s[n].realm = r}

Init ==
  /\ setup \in Setups
  /\ enabled \in SUBSET Guarding
  /\ kind = [q \in Requests |-> None]
  /\ run = [q \in Requests |-> At("idle")]
  /\ http = [q \in Requests |-> None]
  /\ row = [q \in Requests |-> None]
  /\ mapping = None /\ draft = None /\ holder = None
  /\ mailed = {}
  /\ replies = [q \in Requests |-> 0]
  /\ handler = [q \in Requests |-> "none"]
  /\ missed = [q \in Requests |-> "none"]

Mails == <<mailed, replies, handler, missed>>
Stores == <<row, mapping, draft, holder>>

----------------------------------------------------------------------------
(* Entry controllers *)

(* What a client is told once emit() has resolved.  With a callback a done *)
(* event resolves to undefined, and the result of a script has no status:  *)
(* the controller fails on both.                                           *)
AnswerOf(k, o) ==
  CASE o.status = "refused" -> o.code
    [] o.status = "failed" -> 418
    [] o.status = "pending" -> IF k.entry = "rest" THEN 202 ELSE 200
    [] o.status = "done" ->
         IF k.callback \/ (k.entry = "rest" /\ o.resp = "script") THEN 500 ELSE 200

(* A timed out emit() resolves to a copy of the event without its context, *)
(* which the REST controller reads.                                        *)
TimeoutAnswer(k) == IF k.entry = "rest" THEN 500 ELSE 200

Goes(q, p) == run' = [run EXCEPT ![q] = At(p)]
Ends(q, o) == run' = [run EXCEPT ![q] = [At("commit") EXCEPT !.out = o]]
Quiet == UNCHANGED <<setup, enabled, kind, http>> /\ UNCHANGED Stores

Send(q, k) ==
  /\ kind[q] = None
  /\ kind' = [kind EXCEPT ![q] = k]
  /\ Goes(q, "load")
  /\ UNCHANGED <<setup, enabled, http>> /\ UNCHANGED Stores /\ UNCHANGED Mails

(* _load() *)
Load(q) ==
  /\ run[q].pc = "load"
  /\ Goes(q, "preprocess")
  /\ Quiet /\ UNCHANGED Mails

LoadFails(q) ==
  /\ run[q].pc = "load"
  /\ Goes(q, "over")
  /\ http' = [http EXCEPT ![q] = 404]
  /\ UNCHANGED <<setup, enabled, kind>> /\ UNCHANGED Stores /\ UNCHANGED Mails

SyncTimeout(q) ==
  /\ run[q].pc \in InTx
  /\ kind[q].timeout
  /\ http[q] = None
  /\ http' = [http EXCEPT ![q] = TimeoutAnswer(kind[q])]
  /\ UNCHANGED <<setup, enabled, kind, run>> /\ UNCHANGED Stores
  /\ UNCHANGED Mails

Reply(q) ==
  /\ run[q].pc = "reply"
  /\ Goes(q, "over")
  /\ http' = [http EXCEPT ![q] = IF @ = None THEN AnswerOf(kind[q], run[q].out)
                                 ELSE @]
  /\ UNCHANGED <<setup, enabled, kind>> /\ UNCHANGED Stores /\ UNCHANGED Mails

----------------------------------------------------------------------------
(* Listeners *)

(* Arriving at a security check starts with its first alternative. *)
Guard(p) == CASE p = "cepAuth" -> setup.cep
              [] p = "endpointAuth" -> setup.endpoint
              [] p = "sepAuth" -> setup.sep
              [] OTHER -> <<>>
Enters(q, p) ==
  run' = [run EXCEPT ![q] = [At(p) EXCEPT !.left = Guard(p)]]

PreprocessClientRequest(q) ==
  /\ run[q].pc = "preprocess"
  /\ Enters(q, "cepAuth")
  /\ Quiet /\ UNCHANGED Mails

(* The check on the endpoint's entry is for endpoints without their own. *)
Passed(p) == IF p = "cepAuth" THEN "loadEndpoints" ELSE "call"
Unguarded(q) ==
  /\ run[q].pc \in Auth
  /\ Guard(run[q].pc) = <<>>
  /\ IF run[q].pc = "endpointAuth" THEN Enters(q, "sepAuth")
     ELSE Goes(q, Passed(run[q].pc))
  /\ Quiet /\ UNCHANGED Mails

(* The next alternative, of which only the first item counts.  Only a      *)
(* disabled realm leads on to the one after it: a token is attached, its   *)
(* validation suspends the request, and without a URL the check throws.    *)
CheckSecurity(q) ==
  /\ run[q].pc \in Auth
  /\ run[q].left # <<>>
  /\ LET item == Head(run[q].left)
         on == item.realm \in enabled
     IN  \/ ~on /\ run' = [run EXCEPT ![q].left = Tail(@)]
         \/ on /\ item.attach /\ Goes(q, Passed(run[q].pc))
         \/ /\ on /\ ~item.attach
            /\ Ends(q, IF item.realm \in Validated THEN Pending("auth")
                       ELSE Refused(401))
  /\ Quiet /\ UNCHANGED Mails

CheckFails(q) ==
  /\ run[q].pc \in Auth
  /\ Guard(run[q].pc) # <<>>
  /\ run[q].left = <<>>
  /\ Ends(q, Refused(401))
  /\ Quiet /\ UNCHANGED Mails

LoadEndpoints(q) ==
  /\ run[q].pc = "loadEndpoints"
  /\ \/ Goes(q, IF kind[q].entry = "page" THEN "genWebpages"
                ELSE "map2Endpoints")
     \/ Ends(q, Refused(404))
  /\ Quiet /\ UNCHANGED Mails

(* Stops the event; a page asked for by its name has no context.callgent. *)
GenWebpages(q) ==
  /\ run[q].pc = "genWebpages"
  /\ \/ kind[q].via = "request" /\ Ends(q, Result("done", "none", "service"))
     \/ \E o \in Thrown : Ends(q, o)
  /\ Quiet /\ UNCHANGED Mails

(* The stored mapping as the transaction of q sees it. *)
View(q) == IF holder = q THEN draft ELSE mapping

(* A request with a requirement is mapped by ScriptAgent to a script. *)
Map2Endpoints(q) ==
  /\ run[q].pc = "map2Endpoints"
  /\ kind[q].via = "request"
  /\ Goes(q, "script") \/ \E o \in Thrown : Ends(q, o)
  /\ Quiet /\ UNCHANGED Mails

MapsArgs(q) == View(q) # None /\ q \in View(q).maps

(* A stored req2Args that throws on this request is generated anew. *)
Map2Endpoint(q) ==
  /\ run[q].pc = "map2Endpoints"
  /\ kind[q].via = "invoke"
  /\ IF setup.params /\ ~MapsArgs(q)
     THEN Goes(q, "storeMapping") \/ \E o \in Thrown : Ends(q, o)
     ELSE Enters(q, "endpointAuth")
  /\ Quiet /\ UNCHANGED Mails

(* Faulty: the generated function is not tried on the request. *)
GeneratedUntried(q) == [by : {q}, maps : SUBSET Requests]
Generated(q) == {m \in Mapping : m.by = q}

(* The upsert waits while another run has written the row. *)
StoreMapping(q) ==
  /\ run[q].pc = "storeMapping"
  /\ holder \in {None, q}
  /\ holder' = q
  /\ \E m \in Generated(q) : draft' = m
  /\ Enters(q, "endpointAuth")
  /\ UNCHANGED <<setup, enabled, kind, http, row, mapping>> /\ UNCHANGED Mails

----------------------------------------------------------------------------
(* Calls of the endpoint, and the end of a run *)

(* invokeSEPs() of a named endpoint.  The mail is out before the row of    *)
(* the event is committed.                                                 *)
CallByMail(q) ==
  /\ run[q].pc = "call"
  /\ setup.mail
  /\ Ends(q, Pending("call"))
  /\ mailed' = mailed \cup {q}
  /\ Quiet /\ UNCHANGED <<replies, handler, missed>>

CallFails(q) ==
  /\ run[q].pc = "call"
  /\ \E o \in Thrown : Ends(q, o)
  /\ Quiet /\ UNCHANGED Mails

CallByHttp(q) ==
  /\ run[q].pc = "call"
  /\ ~setup.mail
  /\ Ends(q, Result("done", "none", "service"))
  /\ Quiet /\ UNCHANGED Mails

(* A script ends with a result, or nothing, or an error, or it is frozen   *)
(* in a call.                                                              *)
ScriptEnds(q) ==
  /\ run[q].pc = "script"
  /\ \E o \in {Result("done", "none", "script"), Result("done", "none", "none"),
               Failed, Pending("auth")} : Ends(q, o)
  /\ Quiet /\ UNCHANGED Mails

ScriptMails(q) ==
  /\ run[q].pc = "script"
  /\ setup.mail
  /\ Ends(q, Pending("call"))
  /\ mailed' = mailed \cup {q}
  /\ Quiet /\ UNCHANGED <<replies, handler, missed>>

(* Faulty: a run that failed leaves no row. *)
StoredUnlessFailed(old, o) ==
  IF o.status \in {"refused", "failed"} THEN old ELSE o
Stored(old, o) == o

Release(S) ==
  IF holder \in S
  THEN holder' = None /\ draft' = None
  ELSE UNCHANGED <<holder, draft>>

Commit(q) ==
  /\ run[q].pc = "commit"
  /\ run' = [run EXCEPT ![q].pc = "reply"]
  /\ row' = [row EXCEPT ![q] = Stored(@, run[q].out)]
  /\ mapping' = IF holder = q THEN draft ELSE mapping
  /\ Release({q})
  /\ UNCHANGED <<setup, enabled, kind, http>> /\ UNCHANGED Mails

(* The transaction fails: emit() rejects, unless it has been answered. *)
Abort(q) ==
  /\ run[q].pc \in InTx
  /\ Goes(q, "over")
  /\ http' = [http EXCEPT ![q] = IF @ = None THEN 500 ELSE @]
  /\ Release({q})
  /\ UNCHANGED <<setup, enabled, kind, row, mapping>> /\ UNCHANGED Mails

----------------------------------------------------------------------------
(* Mail relay *)

HandlerIs(q, s) == handler' = [handler EXCEPT ![q] = s]
QuietRelay == UNCHANGED <<setup, enabled, kind, run, http, mapping, draft, holder>>

(* The webhook is answered, and the reply handed on without being awaited  *)
(* or stored.                                                              *)
HandleRelayEmail(q) ==
  /\ q \in mailed
  /\ replies[q] < MaxReplies
  /\ handler[q] = "none"
  /\ replies' = [replies EXCEPT ![q] = @ + 1]
  /\ HandlerIs(q, "arrived")
  /\ QuietRelay /\ UNCHANGED <<row, mailed, missed>>

(* resume() *)
(* A mail is answered under `invokeId-eventId`, which resume() cuts at the *)
(* first dash.  A direct call has no id; the commands of a script have the *)
(* negative ones -1, -2 and so on, and another dash in front.              *)
Found(q) == kind[q].via = "invoke"

(* Faulty: only an event that has failed is refused. *)
AwaitsUnlessFailed(q) == row[q] # None /\ row[q].status # "failed"
Awaits(q) == row[q] = Pending("call")

Resume(q) ==
  /\ handler[q] = "arrived"
  /\ Found(q) /\ Awaits(q)
  /\ HandlerIs(q, "working")
  /\ QuietRelay /\ UNCHANGED <<row, mailed, replies, missed>>

Misses(q, why) ==
  /\ HandlerIs(q, "none")
  /\ missed' = [missed EXCEPT ![q] = why]
  /\ QuietRelay /\ UNCHANGED <<row, mailed, replies>>

ResumeThrows(q) ==
  /\ handler[q] = "arrived"
  /\ ~(Found(q) /\ Awaits(q))
  /\ Misses(q, IF Found(q) THEN "unready" ELSE "unfound")

HandlerAborts(q) == handler[q] = "working" /\ Misses(q, "aborted")

(* Faulty: a reply that cannot be converted leaves the event as it was. *)
ResumedOrKept == {Result("failed", "none", "service"), Pending("call")}
(* The response is stored, and the listener fails on it (SepInvoke), or    *)
(* the reply is none, or cannot be converted.                              *)
Resumed == {Result("failed", "none", "service")} \cup Thrown

RunAndFixCallback(q) ==
  /\ handler[q] = "working"
  /\ HandlerIs(q, "none")
  /\ \E o \in Resumed : row' = [row EXCEPT ![q] = o]
  /\ QuietRelay /\ UNCHANGED <<mailed, replies, missed>>

----------------------------------------------------------------------------
(* An administrator changes a realm, or its secret. *)
ToggleRealm(r) ==
  /\ r \in Guarding
  /\ enabled' = IF r \in enabled THEN enabled \ {r} ELSE enabled \cup {r}
  /\ UNCHANGED <<setup, kind, run, http>> /\ UNCHANGED Stores /\ UNCHANGED Mails

(* The end of the process takes connections, runs and handlers with it. *)
Restart ==
  /\ \/ \E q \in Requests : run[q].pc \notin {"idle", "over"}
     \/ \E q \in Requests : handler[q] # "none"
  /\ run' = [q \in Requests |-> IF run[q].pc = "idle" THEN run[q]
                                ELSE At("over")]
  /\ Release(Requests)
  /\ missed' = [q \in Requests |-> IF handler[q] = "none" THEN missed[q]
                                   ELSE "crashed"]
  /\ handler' = [q \in Requests |-> "none"]
  /\ UNCHANGED <<setup, enabled, kind, http, row, mapping, mailed, replies>>

RunStep(q) ==
  \/ Load(q) \/ LoadFails(q) \/ PreprocessClientRequest(q)
  \/ Unguarded(q) \/ CheckSecurity(q) \/ CheckFails(q)
  \/ LoadEndpoints(q) \/ GenWebpages(q) \/ Map2Endpoints(q) \/ Map2Endpoint(q)
  \/ StoreMapping(q)
  \/ CallByMail(q) \/ CallFails(q) \/ CallByHttp(q)
  \/ ScriptEnds(q) \/ ScriptMails(q)
  \/ Commit(q) \/ Reply(q)

Relay(q) ==
  \/ HandleRelayEmail(q) \/ Resume(q) \/ ResumeThrows(q) \/ HandlerAborts(q)
  \/ RunAndFixCallback(q)

Next ==
  \/ \E q \in Requests :
       \/ \E k \in Kinds : Send(q, k)
       \/ RunStep(q)
       \/ SyncTimeout(q) \/ Abort(q)
       \/ Relay(q)
  \/ \E r \in Realms : ToggleRealm(r)
  \/ Restart

Spec == Init /\ [][Next]_vars

----------------------------------------------------------------------------
(* Properties *)

Answers == {200, 202, 418, 500} \cup Codes
Reasons == {"none", "unfound", "unready", "aborted", "crashed"}

TypeOK ==
  /\ setup \in Setups
  /\ enabled \subseteq Realms
  /\ kind \in [Requests -> Kinds \cup {None}]
  /\ run \in [Requests -> Run]
  /\ http \in [Requests -> Answers \cup {None}]
  /\ row \in [Requests -> Outcome \cup {None}]
  /\ mapping \in Mapping \cup {None} /\ draft \in Mapping \cup {None}
  /\ holder \in Requests \cup {None}
  /\ mailed \subseteq Requests
  /\ replies \in [Requests -> 0..MaxReplies]
  /\ handler \in [Requests -> {"none", "arrived", "working"}]
  /\ missed \in [Requests -> Reasons]

(* Errors of the entry itself: a run rolled back, a done event it cannot   *)
(* answer from, and a timeout of the REST entry.                           *)
Breaks(q) ==
  \/ row[q] = None
  \/ /\ row[q] # None /\ row[q].status = "done"
     /\ kind[q].callback \/ row[q].resp = "script"
  \/ kind[q].timeout /\ kind[q].entry = "rest"

(* What a client is told agrees with the stored event, whatever timed out, *)
(* was rolled back or came in by mail since: "accepted" is an event that   *)
(* can be asked about, a response of the REST entry one that is done, and  *)
(* an error is the very error the event is settled with, unless the client *)
(* was refused at the door (404, no event) or the entry breaks (500).      *)
AnswerAgrees(q) ==
  LET told == http[q]
      failed == row[q] # None /\ row[q].status = "failed"
  IN  \/ told = None
      \/ told = 200 /\ kind[q].entry = "rest"
           /\ row[q] # None /\ row[q].status = "done"
      \/ told = 200 /\ kind[q].entry = "page"
           /\ (row[q] # None \/ kind[q].timeout)
      \/ told = 202 /\ row[q] # None
      \/ told = 418 /\ failed
      \/ told = 404 /\ row[q] = None
      \/ told = 500 /\ Breaks(q)
      \/ told \in Codes /\ row[q] = Refused(told)
AnswerTellsRow == \A q \in Requests : AnswerAgrees(q)

(* An event stored as waiting for a mail has sent it, and is still owed    *)
(* the reply, or a reply is at work, or the last one came to nothing: for  *)
(* a direct call, since it came too early, or its transaction failed, or   *)
(* the process ended.  A reply to a script always comes to nothing: the    *)
(* event of its key is never found.                                        *)
Excuses(q) == IF Found(q) THEN {"unready", "aborted", "crashed"}
              ELSE {"unfound", "crashed"}
Owed(q) ==
  Awaits(q) =>
    /\ q \in mailed
    /\ replies[q] = 0 \/ handler[q] # "none" \/ missed[q] \in Excuses(q)
PendingIsOwed == \A q \in Requests : Owed(q)

(* Each request is an event of the bus, which its emission claims until it *)
(* commits, and a reply while it is at work.                               *)
OutcomeOf(q) == IF row[q] = None THEN "absent"
                ELSE IF row[q].status \in {"refused", "failed"} THEN "error"
                ELSE row[q].status
Emission == {"load"} \cup InTx
Claims(q, by) == \/ by = "emit" /\ run[q].pc \in Emission
                 \/ by = "relay" /\ handler[q] = "working"

Contract == INSTANCE EventContract WITH
  Events <- Requests,
  Runs <- Requests \X {"emit", "relay"},
  outcome <- [q \in Requests |-> OutcomeOf(q)],
  claim <- [c \in Requests \X {"emit", "relay"} |->
              IF Claims(c[1], c[2]) THEN c[1] ELSE None],
  accepted <- {q \in Requests : run[q].pc # "idle"}

(* What the bus promises of its events holds of client requests: no reply, *)
(* however early, late or repeated, changes the event of a run that has    *)
(* not committed, or that is settled, and none changes it without having   *)
(* found it pending.                                                       *)
ImplementsContract == Contract!Spec

----------------------------------------------------------------------------
(* The inductive invariant behind the safety properties. *)

(* How a run of an emission may end. *)
Outs == {Result("done", "none", r) : r \in {"none", "service", "script"}}
          \cup {Refused(c) : c \in Codes}
          \cup {Failed, Pending("auth"), Pending("call")}

(* A run writes its row when it commits; only a pending row is written     *)
(* again, so that what is final is what the run will answer.               *)
RunOK(q) ==
  LET r == run[q] IN
  /\ r.pc = "idle" <=> kind[q] = None
  /\ r.pc = "idle" => http[q] = None /\ q \notin mailed
  /\ r.out \in IF r.pc \in {"commit", "reply"} THEN Outs ELSE {None}
  /\ r.out = Pending("call") => q \in mailed
  /\ r.pc \notin {"reply", "over"} => row[q] = None
  /\ r.pc = "reply" => /\ row[q] # None
                       /\ r.out.status # "pending" => row[q] = r.out
  /\ r.pc # "over" /\ http[q] # None =>
       kind[q].timeout /\ http[q] = TimeoutAnswer(kind[q])

(* A reply at work has a row to resume, and one that is not at work any    *)
(* more has come to nothing or to a row that is not to be resumed again.   *)
RelayOK(q) ==
  /\ q \notin mailed => replies[q] = 0
  /\ handler[q] = "working" => Found(q) /\ Awaits(q)
  /\ \/ replies[q] = 0 \/ handler[q] # "none" \/ missed[q] \in Excuses(q)
     \/ row[q] # None /\ ~Awaits(q)

RequestOK(q) == RunOK(q) /\ RelayOK(q) /\ AnswerAgrees(q) /\ Owed(q)

IInv == TypeOK /\ \A q \in Requests : RequestOK(q)

============================================================================
