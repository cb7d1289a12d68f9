------------------------ MODULE ClientRequestProofs ------------------------
(***************************************************************************)
(* Proofs about ClientRequest, for any requests, realms, callgents and     *)
(* number of replies: IInv is inductive, what a client is told agrees with *)
(* the stored event, no pending event is forgotten, and the events change  *)
(* only as EventContract allows.                                           *)
(***************************************************************************)
EXTENDS ClientRequest, TLAPS

USE DEF Outcome, Result, Refused, Failed, Thrown, Pending, Auth, InTx, Run, Outs, Kind

(* The statuses of errors are none of those of answers. *)
LEMMA CodeFacts ==
  /\ 401 \in Codes /\ 404 \in Codes /\ Statuses \subseteq Codes
  /\ None \notin Codes /\ 200 \notin Codes /\ 202 \notin Codes
  /\ Codes \subseteq Answers
  /\ {200, 202, 418, 500} \subseteq Answers
  /\ None \notin Answers
<1>1. Statuses \subseteq 300..599 /\ None \notin Nat
  BY ClientRequestAssumption, NoneAssumption
<1>2. Codes \subseteq 300..599
  BY <1>1 DEF Codes
<1>3. 200 \notin Codes /\ 202 \notin Codes
  BY <1>2
<1>4. Answers \subseteq Nat
  BY <1>2 DEF Answers
<1>5. None \notin Answers /\ None \notin Codes
  BY <1>1, <1>4 DEF Answers
<1> QED BY <1>3, <1>5 DEF Codes, Answers

(* What a run may end with, and how the ends differ. *)
LEMMA OutFacts ==
  /\ Outs \subseteq Outcome
  /\ \A o \in Outs :
       /\ o # None
       /\ o.status \in {"done", "pending", "refused", "failed"}
       /\ o.status = "refused" => o.code \in Codes /\ o = Refused(o.code)
       /\ o = Pending("call") => o.status = "pending"
       /\ o.resp = "service" => o.status = "done"
BY NoneAssumption, CodeFacts

(* Errors do not leave a mail behind. *)
LEMMA ThrownFacts ==
  /\ \A c \in Codes : Refused(c) \in Outs \ {Pending("call")}
  /\ Thrown \subseteq Outs \ {Pending("call")}
  /\ {Failed, Pending("auth")} \subseteq Outs \ {Pending("call")}
<1>1. ASSUME NEW c \in Codes PROVE Refused(c) \in Outs \ {Pending("call")}
  <2>1. Refused(c) \in Outs
    OBVIOUS
  <2>2. Refused(c).status # Pending("call").status
    OBVIOUS
  <2> QED BY <2>1, <2>2
<1>2. {Failed, Pending("auth")} \subseteq Outs \ {Pending("call")}
  OBVIOUS
<1>3. Statuses \subseteq Codes
  BY CodeFacts
<1> HIDE DEF Outs, Refused, Failed, Pending
<1> QED BY <1>1, <1>2, <1>3

(* A request that a step leaves alone stays as it should be. *)
LEMMA Frame ==
  ASSUME NEW q \in Requests, RequestOK(q),
         run'[q] = run[q], http'[q] = http[q], kind'[q] = kind[q],
         row'[q] = row[q], handler'[q] = handler[q], replies'[q] = replies[q],
         q \in mailed' <=> q \in mailed, missed'[q] = missed[q]
  PROVE  RequestOK(q)'
BY DEF RequestOK, RunOK, RelayOK, AnswerAgrees, Breaks, Owed, Awaits, Excuses, Found

LEMMA InvInit == Init => IInv
<1> SUFFICES ASSUME Init PROVE IInv
  OBVIOUS
<1>1. TypeOK
  BY ClientRequestAssumption DEF Init, TypeOK, At, Guarding, Reasons
<1>2. ASSUME NEW q \in Requests PROVE RequestOK(q)
  <2>1. /\ run[q] = At("idle") /\ kind[q] = None /\ http[q] = None
        /\ row[q] = None /\ replies[q] = 0 /\ handler[q] = "none"
        /\ q \notin mailed
    BY DEF Init
  <2>2. RunOK(q)
    BY <2>1, NoneAssumption DEF RunOK, At
  <2>3. RelayOK(q)
    BY <2>1 DEF RelayOK
  <2>4. AnswerAgrees(q)
    BY <2>1, NoneAssumption DEF AnswerAgrees, Breaks
  <2>5. Owed(q)
    BY <2>1, NoneAssumption DEF Owed, Awaits, Excuses, Found
  <2> QED BY <2>2, <2>3, <2>4, <2>5 DEF RequestOK
<1> QED BY <1>1, <1>2 DEF IInv

----------------------------------------------------------------------------
(* Steps of a run before its end. *)

(* The run of q goes on, or ends without a mail. *)
LEMMA RunGoesOn ==
  ASSUME IInv, NEW q \in Requests, NEW r \in Run,
         run[q].pc \notin {"idle", "reply", "over"},
         run' = [run EXCEPT ![q] = r],
         r.pc \in InTx,
         r.out \in IF r.pc = "commit" THEN Outs \ {Pending("call")} ELSE {None},
         UNCHANGED <<setup, enabled, kind, http, row, mapping>>,
         draft' \in Mapping \cup {None}, holder' \in Requests \cup {None},
         UNCHANGED Mails
  PROVE  IInv'
<1>1. TypeOK'
  BY DEF IInv, TypeOK, Mails
<1>2. /\ run'[q] = r
      /\ \A o \in Requests : o # q => run'[o] = run[o]
  BY DEF IInv, TypeOK
<1>3. ASSUME NEW o \in Requests PROVE RequestOK(o)'
  <2>1. CASE o # q
    BY <1>2, <2>1, Frame DEF IInv, Mails
  <2>2. CASE o = q
    <3>1. RequestOK(q)
      BY DEF IInv
    <3>2. RunOK(q)'
      BY <1>2, <3>1, NoneAssumption DEF RequestOK, RunOK, IInv, TypeOK
    <3>3. RelayOK(q)' /\ AnswerAgrees(q)' /\ Owed(q)'
      BY <3>1 DEF RequestOK, RelayOK, AnswerAgrees, Breaks, Owed, Awaits, Excuses, Found, Mails
    <3> QED BY <2>2, <3>2, <3>3 DEF RequestOK
  <2> QED BY <2>1, <2>2
<1> QED BY <1>1, <1>3 DEF IInv

(* The listeners and checks that write nothing: each is a step of the kind *)
(* RunGoesOn speaks of.                                                    *)
LEMMA GuardTyped ==
  ASSUME TypeOK, NEW p
  PROVE  Guard(p) \in Seq(Security)
BY ClientRequestAssumption DEF TypeOK, Guard

LEMMA QuietKeepsStores ==
  ASSUME TypeOK, Quiet
  PROVE  /\ UNCHANGED <<setup, enabled, kind, http, row, mapping>>
         /\ draft' \in Mapping \cup {None} /\ holder' \in Requests \cup {None}
BY DEF TypeOK, Quiet, Stores

(* The three ways the code goes on. *)
LEMMA GoesKeeps ==
  ASSUME IInv, NEW q \in Requests, NEW p \in InTx \ {"commit"},
         run[q].pc \notin {"idle", "reply", "over"},
         Goes(q, p), Quiet, UNCHANGED Mails
  PROVE  IInv'
<1>1. At(p) \in Run /\ At(p).pc = p /\ At(p).out = None
  BY DEF At
<1>2. TypeOK
  BY DEF IInv
<1> QED BY <1>1, <1>2, RunGoesOn, QuietKeepsStores DEF Goes

LEMMA EntersKeeps ==
  ASSUME IInv, NEW q \in Requests, NEW p \in Auth,
         run[q].pc \notin {"idle", "reply", "over"},
         Enters(q, p), UNCHANGED <<setup, enabled, kind, http, row, mapping>>,
         draft' \in Mapping \cup {None}, holder' \in Requests \cup {None},
         UNCHANGED Mails
  PROVE  IInv'
<1> DEFINE r == [At(p) EXCEPT !.left = Guard(p)]
<1>1. r \in Run /\ r.pc = p /\ r.out = None
  BY GuardTyped DEF At, IInv
<1>2. run' = [run EXCEPT ![q] = r]
  BY DEF Enters
<1> HIDE DEF r
<1> QED BY <1>1, <1>2, RunGoesOn

LEMMA EndsKeeps ==
  ASSUME IInv, NEW q \in Requests, NEW o \in Outs \ {Pending("call")},
         run[q].pc \notin {"idle", "reply", "over"},
         Ends(q, o), Quiet, UNCHANGED Mails
  PROVE  IInv'
<1> DEFINE r == [At("commit") EXCEPT !.out = o]
<1>0. o \in Outcome
  BY OutFacts
<1>1. r = [pc |-> "commit", left |-> <<>>, out |-> o]
  BY DEF At
<1>2. run' = [run EXCEPT ![q] = r]
  BY DEF Ends
<1>3. TypeOK
  BY DEF IInv
<1> HIDE DEF r
<1>4. /\ r \in Run /\ r.pc \in InTx
      /\ r.out \in IF r.pc = "commit" THEN Outs \ {Pending("call")} ELSE {None}
  BY <1>0, <1>1
<1> QED BY <1>1, <1>2, <1>3, <1>4, RunGoesOn, QuietKeepsStores

LEMMA EntriesKeep ==
  ASSUME IInv, NEW q \in Requests, Load(q) \/ PreprocessClientRequest(q)
  PROVE  IInv'
<1>1. CASE Load(q)
  BY <1>1, GoesKeeps DEF Load
<1>2. CASE PreprocessClientRequest(q)
  <2>1. TypeOK
    BY DEF IInv
  <2> QED BY <1>2, <2>1, EntersKeeps, QuietKeepsStores DEF PreprocessClientRequest
<1> QED BY <1>1, <1>2

LEMMA ChecksKeep ==
  ASSUME IInv, NEW q \in Requests,
         Unguarded(q) \/ CheckSecurity(q) \/ CheckFails(q)
  PROVE  IInv'
<1> HIDE DEF Outs, Refused, Failed, Thrown, Pending
<1>0. TypeOK
  BY DEF IInv
<1>1. \A p \in Auth : Passed(p) \in InTx \ {"commit"}
  BY DEF Passed
<1>2. CASE Unguarded(q)
  <2>1. CASE run[q].pc = "endpointAuth"
    BY <1>0, <1>2, <2>1, EntersKeeps, QuietKeepsStores DEF Unguarded
  <2>2. CASE run[q].pc # "endpointAuth"
    BY <1>1, <1>2, <2>2, GoesKeeps DEF Unguarded
  <2> QED BY <2>1, <2>2
<1>3. CASE CheckSecurity(q)
  <2> DEFINE item == Head(run[q].left)
             r == [run[q] EXCEPT !.left = Tail(@)]
  <2>1. /\ run[q].pc \in Auth /\ Quiet /\ UNCHANGED Mails
        /\ run[q].left # <<>>
    BY <1>3 DEF CheckSecurity
  <2>2. CASE run' = [run EXCEPT ![q].left = Tail(@)]
    <3>1. run[q] \in Run /\ RunOK(q)
      BY DEF IInv, TypeOK, RequestOK
    <3>2. r \in Run /\ r.pc = run[q].pc /\ r.out = run[q].out
      <4>1. run[q] \in Run
        BY <3>1
      <4>2. run[q].left \in Seq(Security) /\ run[q].left # <<>>
        BY <2>1, <4>1
      <4>3. Tail(run[q].left) \in Seq(Security)
        BY <4>2
      <4> QED BY <4>1, <4>3
    <3>3. run' = [run EXCEPT ![q] = r]
      BY <2>2
    <3>4. r.pc # "commit" /\ r.out = None
      BY <2>1, <3>1, <3>2 DEF RunOK
    <3>5. run[q].pc \notin {"idle", "reply", "over"} /\ r.pc \in InTx
      BY <2>1, <3>2
    <3> HIDE DEF r
    <3> QED BY <1>0, <2>1, <3>2, <3>3, <3>4, <3>5, RunGoesOn, QuietKeepsStores
  <2>3. CASE Goes(q, Passed(run[q].pc))
    BY <1>1, <2>1, <2>3, GoesKeeps
  <2>4. CASE Ends(q, IF item.realm \in Validated THEN Pending("auth")
                     ELSE Refused(401))
    <3>1. Pending("auth") \in Outs \ {Pending("call")}
          /\ Refused(401) \in Outs \ {Pending("call")}
      BY ThrownFacts, CodeFacts
    <3> QED BY <2>1, <2>4, <3>1, EndsKeeps
  <2> QED BY <1>3, <2>2, <2>3, <2>4 DEF CheckSecurity
<1>4. CASE CheckFails(q)
  <2>1. Refused(401) \in Outs \ {Pending("call")}
    BY ThrownFacts, CodeFacts
  <2> QED BY <1>4, <2>1, EndsKeeps DEF CheckFails
<1> QED BY <1>2, <1>3, <1>4

LEMMA MappingsKeep ==
  ASSUME IInv, NEW q \in Requests,
         LoadEndpoints(q) \/ GenWebpages(q) \/ Map2Endpoints(q) \/ Map2Endpoint(q)
  PROVE  IInv'
<1>1. Result("done", "none", "service") \in Outs \ {Pending("call")}
  OBVIOUS
<1> HIDE DEF Outs, Refused, Failed, Thrown, Pending, Result
<1>0. /\ Refused(404) \in Outs \ {Pending("call")}
      /\ Thrown \subseteq Outs \ {Pending("call")}
  BY ThrownFacts, CodeFacts
<1>2. CASE LoadEndpoints(q)
  BY <1>0, <1>2, GoesKeeps, EndsKeeps DEF LoadEndpoints
<1>3. CASE GenWebpages(q)
  BY <1>0, <1>1, <1>3, EndsKeeps DEF GenWebpages
<1>4. CASE Map2Endpoints(q)
  BY <1>0, <1>4, GoesKeeps, EndsKeeps DEF Map2Endpoints
<1>5. CASE Map2Endpoint(q)
  <2>1. TypeOK
    BY DEF IInv
  <2> QED
    BY <1>0, <1>5, <2>1, GoesKeeps, EndsKeeps, EntersKeeps, QuietKeepsStores
       DEF Map2Endpoint
<1> QED BY <1>2, <1>3, <1>4, <1>5

LEMMA StoreMappingKeeps ==
  ASSUME IInv, NEW q \in Requests, StoreMapping(q)
  PROVE  IInv'
<1>1. draft' \in Mapping \cup {None} /\ holder' \in Requests \cup {None}
  BY DEF StoreMapping, Generated
<1> QED BY <1>1, EntersKeeps DEF StoreMapping

LEMMA CallsKeep ==
  ASSUME IInv, NEW q \in Requests,
         CallFails(q) \/ CallByHttp(q) \/ ScriptEnds(q)
  PROVE  IInv'
<1>1. \A o \in Thrown \cup {Failed, Pending("auth"), Result("done", "none", "service"),
                 Result("done", "none", "script"), Result("done", "none", "none")} :
        o \in Outs \ {Pending("call")}
  BY ThrownFacts
<1>2. CASE CallFails(q)
  BY <1>1, <1>2, EndsKeeps DEF CallFails
<1>3. CASE CallByHttp(q)
  BY <1>1, <1>3, EndsKeeps DEF CallByHttp
<1>4. CASE ScriptEnds(q)
  BY <1>1, <1>4, EndsKeeps DEF ScriptEnds
<1> QED BY <1>2, <1>3, <1>4

(* The mail goes out, and the run ends as pending. *)
LEMMA MailsKeep ==
  ASSUME IInv, NEW q \in Requests, CallByMail(q) \/ ScriptMails(q)
  PROVE  IInv'
<1> DEFINE r == [At("commit") EXCEPT !.out = Pending("call")]
<1>1. r = [pc |-> "commit", left |-> <<>>, out |-> Pending("call")]
  BY DEF At
<1>2. /\ run[q].pc \in {"call", "script"}
      /\ run' = [run EXCEPT ![q] = r]
      /\ mailed' = mailed \cup {q}
      /\ UNCHANGED <<setup, enabled, kind, http, row, mapping, draft, holder,
                     replies, handler, missed>>
  BY DEF CallByMail, ScriptMails, Ends, Quiet, Stores
<1> HIDE DEF r
<1>3. r \in Run
  BY <1>1
<1>4. TypeOK'
  BY <1>2, <1>3 DEF IInv, TypeOK
<1>5. /\ run'[q] = r
      /\ \A o \in Requests : o # q => run'[o] = run[o]
  BY <1>2 DEF IInv, TypeOK
<1>6. ASSUME NEW o \in Requests PROVE RequestOK(o)'
  <2>1. CASE o # q
    BY <1>2, <1>5, <2>1, Frame DEF IInv
  <2>2. CASE o = q
    <3>1. RequestOK(q)
      BY DEF IInv
    <3>2. RunOK(q)'
      BY <1>1, <1>2, <1>5, <3>1 DEF RequestOK, RunOK
    <3>3. RelayOK(q)' /\ AnswerAgrees(q)' /\ Owed(q)'
      BY <1>2, <3>1 DEF RequestOK, RelayOK, AnswerAgrees, Breaks, Owed, Awaits, Excuses, Found
    <3> QED BY <2>2, <3>2, <3>3 DEF RequestOK
  <2> QED BY <2>1, <2>2
<1> QED BY <1>4, <1>6 DEF IInv

----------------------------------------------------------------------------
(* Beginning, answering and ending. *)

(* A request that is over keeps no outcome. *)
LEMMA OverTyped ==
  /\ At("over") \in Run
  /\ At("over").pc = "over" /\ At("over").out = None
BY DEF At

LEMMA SendKeeps ==
  ASSUME IInv, NEW q \in Requests, NEW k \in Kinds, Send(q, k)
  PROVE  IInv'
<1>1. /\ kind[q] = None /\ kind' = [kind EXCEPT ![q] = k]
      /\ run' = [run EXCEPT ![q] = At("load")]
      /\ UNCHANGED <<setup, enabled, http, row, mapping, draft, holder,
                     mailed, replies, handler, missed>>
  BY DEF Send, Goes, Stores, Mails
<1>2. At("load") = [pc |-> "load", left |-> <<>>, out |-> None]
  BY DEF At
<1>3. TypeOK'
  <2>1. At("load") \in Run
    BY DEF At
  <2>2. run' \in [Requests -> Run]
    BY <1>1, <2>1 DEF IInv, TypeOK
  <2>3. kind' \in [Requests -> Kinds \cup {None}]
    BY <1>1 DEF IInv, TypeOK
  <2> QED BY <1>1, <2>2, <2>3 DEF IInv, TypeOK
<1>4. /\ run'[q] = At("load") /\ kind'[q] = k
      /\ \A o \in Requests : o # q => run'[o] = run[o] /\ kind'[o] = kind[o]
  BY <1>1 DEF IInv, TypeOK
<1>6. k # None
  BY ClientRequestAssumption, NoneAssumption
<1>5. ASSUME NEW o \in Requests PROVE RequestOK(o)'
  <2>1. CASE o # q
    BY <1>1, <1>4, <2>1, Frame DEF IInv
  <2>2. CASE o = q
    <3>1. /\ RequestOK(q) /\ run[q].pc = "idle" /\ row[q] = None
          /\ q \notin mailed /\ replies[q] = 0 /\ handler[q] # "working"
      BY <1>1, NoneAssumption DEF IInv, RequestOK, RunOK, RelayOK, Awaits
    <3>2. RunOK(q)'
      BY <1>1, <1>2, <1>4, <1>6, <3>1, NoneAssumption DEF RequestOK, RunOK
    <3>3. RelayOK(q)' /\ Owed(q)'
      BY <1>1, <3>1 DEF RequestOK, RelayOK, Owed, Awaits, Excuses, Found
    <3>4. AnswerAgrees(q)'
      BY <1>1, <3>1, NoneAssumption DEF RequestOK, RunOK, AnswerAgrees, Breaks
    <3> QED BY <2>2, <3>2, <3>3, <3>4 DEF RequestOK
  <2> QED BY <2>1, <2>2
<1> QED BY <1>3, <1>5 DEF IInv

LEMMA LoadFailsKeeps ==
  ASSUME IInv, NEW q \in Requests, LoadFails(q)
  PROVE  IInv'
<1>1. /\ run[q].pc = "load"
      /\ run' = [run EXCEPT ![q] = At("over")]
      /\ http' = [http EXCEPT ![q] = 404]
      /\ UNCHANGED <<setup, enabled, kind, row, mapping, draft, holder,
                     mailed, replies, handler, missed>>
  BY DEF LoadFails, Goes, Stores, Mails
<1>2. /\ run' \in [Requests -> Run] /\ run'[q] = At("over") /\ http'[q] = 404
      /\ http' \in [Requests -> Answers \cup {None}]
      /\ \A o \in Requests : o # q => run'[o] = run[o] /\ http'[o] = http[o]
  BY <1>1, OverTyped, CodeFacts DEF IInv, TypeOK
<1>3. TypeOK'
  BY <1>1, <1>2 DEF IInv, TypeOK
<1>4. ASSUME NEW o \in Requests PROVE RequestOK(o)'
  <2>1. CASE o # q
    BY <1>1, <1>2, <2>1, Frame DEF IInv
  <2>2. CASE o = q
    <3>1. RequestOK(q) /\ row[q] = None /\ kind[q] # None
      <4>1. RequestOK(q) /\ run[q].pc = "load"
        BY <1>1 DEF IInv
      <4>2. RunOK(q)
        BY <4>1 DEF RequestOK
      <4> QED BY <4>1, <4>2 DEF RunOK
    <3>2. RunOK(q)'
      BY <1>1, <1>2, <3>1, OverTyped, NoneAssumption DEF RunOK
    <3>3. RelayOK(q)' /\ Owed(q)' /\ AnswerAgrees(q)'
      BY <1>1, <1>2, <3>1 DEF RequestOK, RelayOK, Owed, Awaits, Excuses, Found, AnswerAgrees, Breaks
    <3> QED BY <2>2, <3>2, <3>3 DEF RequestOK
  <2> QED BY <2>1, <2>2
<1> QED BY <1>3, <1>4 DEF IInv

(* A timeout answers a request without a row. *)
LEMMA SyncTimeoutKeeps ==
  ASSUME IInv, NEW q \in Requests, SyncTimeout(q)
  PROVE  IInv'
<1> DEFINE a == TimeoutAnswer(kind[q])
<1>1. /\ run[q].pc \in InTx /\ http[q] = None /\ kind[q].timeout
      /\ http' = [http EXCEPT ![q] = a]
      /\ UNCHANGED <<setup, enabled, kind, run, row, mapping, draft, holder,
                     mailed, replies, handler, missed>>
  BY DEF SyncTimeout, Stores, Mails
<1>2. /\ a = TimeoutAnswer(kind[q])
      /\ \/ a = 500 /\ kind[q].entry = "rest"
         \/ a = 200 /\ kind[q].entry = "page"
  <2>1. RunOK(q)
    BY DEF IInv, RequestOK
  <2>2. kind[q] \in Kind
    BY <1>1, <2>1, ClientRequestAssumption DEF IInv, TypeOK, RunOK
  <2>3. kind[q].entry \in {"rest", "page"}
    BY <2>2
  <2> QED BY <2>3 DEF TimeoutAnswer
<1> HIDE DEF a
<1>3. /\ http'[q] = a
      /\ http' \in [Requests -> Answers \cup {None}]
      /\ \A o \in Requests : o # q => http'[o] = http[o]
  BY <1>1, <1>2, CodeFacts DEF IInv, TypeOK
<1>4. TypeOK'
  BY <1>1, <1>3 DEF IInv, TypeOK
<1>5. ASSUME NEW o \in Requests PROVE RequestOK(o)'
  <2>1. CASE o # q
    BY <1>1, <1>3, <2>1, Frame DEF IInv
  <2>2. CASE o = q
    <3>1. RequestOK(q)
      BY DEF IInv
    <3>2. RunOK(q)'
      BY <1>1, <1>2, <1>3, <3>1 DEF RequestOK, RunOK
    <3>3. RelayOK(q)' /\ Owed(q)'
      BY <1>1, <3>1 DEF RequestOK, RelayOK, Owed, Awaits, Excuses, Found
    <3>4. AnswerAgrees(q)'
      <4>1. http'[q] = a /\ kind'[q] = kind[q] /\ kind[q].timeout
        BY <1>1, <1>3
      <4> QED BY <1>2, <4>1 DEF AnswerAgrees, Breaks
    <3> QED BY <2>2, <3>2, <3>3, <3>4 DEF RequestOK
  <2> QED BY <2>1, <2>2
<1> QED BY <1>4, <1>5 DEF IInv

(* What the controller makes of the end of a run: for each answer, the     *)
(* end it tells of.                                                        *)
Tells(k, o, a) ==
  \/ a = 200 /\ (k.entry = "rest" => o.status = "done")
  \/ a = 202
  \/ a = 418 /\ o.status = "failed"
  \/ a = 500 /\ o.status = "done" /\ (k.callback \/ o.resp = "script")
  \/ a \in Codes /\ o.status = "refused" /\ o = Refused(a)

LEMMA AnswerOfAgrees ==
  ASSUME NEW k \in Kind, NEW o \in Outs
  PROVE  AnswerOf(k, o) \in Answers /\ Tells(k, o, AnswerOf(k, o))
<1>1. /\ o.status \in {"done", "pending", "refused", "failed"}
      /\ o.status = "refused" => o.code \in Codes /\ o = Refused(o.code)
  BY OutFacts
<1>2. k.entry \in {"rest", "page"}
  OBVIOUS
<1> HIDE DEF Outs, Kind, Refused
<1> QED BY <1>1, <1>2, CodeFacts DEF AnswerOf, Tells

LEMMA ReplyKeeps ==
  ASSUME IInv, NEW q \in Requests, Reply(q)
  PROVE  IInv'
<1> DEFINE a == AnswerOf(kind[q], run[q].out)
<1>1. /\ run[q].pc = "reply"
      /\ run' = [run EXCEPT ![q] = At("over")]
      /\ http' = [http EXCEPT ![q] = IF @ = None THEN a ELSE @]
      /\ UNCHANGED <<setup, enabled, kind, row, mapping, draft, holder,
                     mailed, replies, handler, missed>>
  BY DEF Reply, Goes, Stores, Mails
<1>2. /\ RequestOK(q) /\ run[q].out \in Outs
      /\ kind[q] # None /\ row[q] # None
      /\ run[q].out.status # "pending" => row[q] = run[q].out
      /\ kind[q].entry \in {"rest", "page"}
  <2>1. RequestOK(q) /\ run[q].pc = "reply"
    BY <1>1 DEF IInv
  <2>2. RunOK(q)
    BY <2>1 DEF RequestOK
  <2>3. /\ run[q].out \in Outs /\ kind[q] # None /\ row[q] # None
        /\ run[q].out.status # "pending" => row[q] = run[q].out
    BY <2>1, <2>2 DEF RunOK
  <2>4. kind[q] \in Kind
    BY <2>3, ClientRequestAssumption DEF IInv, TypeOK
  <2>5. kind[q].entry \in {"rest", "page"}
    BY <2>4
  <2> QED BY <2>1, <2>3, <2>5
<1>3. kind[q] \in Kind
  <2>1. kind[q] \in Kinds
    BY <1>2 DEF IInv, TypeOK
  <2> QED BY <2>1, ClientRequestAssumption
<1>4. a \in Answers /\ Tells(kind[q], run[q].out, a)
  BY <1>2, <1>3, AnswerOfAgrees
<1> HIDE DEF a
<1>5. /\ run' \in [Requests -> Run] /\ run'[q] = At("over")
      /\ http'[q] = IF http[q] = None THEN a ELSE http[q]
      /\ http' \in [Requests -> Answers \cup {None}]
      /\ \A o \in Requests : o # q => run'[o] = run[o] /\ http'[o] = http[o]
  BY <1>1, <1>4, OverTyped DEF IInv, TypeOK
<1>6. TypeOK'
  BY <1>1, <1>5 DEF IInv, TypeOK
<1>7. ASSUME NEW o \in Requests PROVE RequestOK(o)'
  <2>1. CASE o # q
    BY <1>1, <1>5, <2>1, Frame DEF IInv
  <2>2. CASE o = q
    <3>1. RunOK(q)'
      BY <1>1, <1>2, <1>5, OverTyped, NoneAssumption DEF RequestOK, RunOK
    <3>2. RelayOK(q)' /\ Owed(q)'
      BY <1>1, <1>2 DEF RequestOK, RelayOK, Owed, Awaits, Excuses, Found
    <3>3. AnswerAgrees(q)'
      <4>1. CASE http[q] # None
        BY <1>1, <1>2, <1>5, <4>1 DEF RequestOK, AnswerAgrees, Breaks
      <4>2. CASE http[q] = None
        <5>1. http'[q] = a /\ row'[q] = row[q] /\ kind'[q] = kind[q]
          BY <1>1, <1>5, <4>2
        <5> QED BY <1>2, <1>4, <5>1 DEF AnswerAgrees, Breaks, Tells
      <4> QED BY <4>1, <4>2
    <3> QED BY <2>2, <3>1, <3>2, <3>3 DEF RequestOK
  <2> QED BY <2>1, <2>2
<1> QED BY <1>6, <1>7 DEF IInv

LEMMA ReleaseTyped ==
  ASSUME TypeOK, NEW S, Release(S)
  PROVE  draft' \in Mapping \cup {None} /\ holder' \in Requests \cup {None}
BY DEF TypeOK, Release

LEMMA AbortKeeps ==
  ASSUME IInv, NEW q \in Requests, Abort(q)
  PROVE  IInv'
<1>1. /\ run[q].pc \in InTx
      /\ run' = [run EXCEPT ![q] = At("over")]
      /\ http' = [http EXCEPT ![q] = IF @ = None THEN 500 ELSE @]
      /\ UNCHANGED <<setup, enabled, kind, row, mapping, mailed, replies,
                     handler, missed>>
  BY DEF Abort, Goes, Mails
<1>2. /\ run' \in [Requests -> Run] /\ run'[q] = At("over")
      /\ http'[q] = IF http[q] = None THEN 500 ELSE http[q]
      /\ http' \in [Requests -> Answers \cup {None}]
      /\ \A o \in Requests : o # q => run'[o] = run[o] /\ http'[o] = http[o]
  BY <1>1, OverTyped, CodeFacts DEF IInv, TypeOK
<1>3. TypeOK'
  BY <1>1, <1>2, ReleaseTyped DEF IInv, TypeOK, Abort
<1>4. ASSUME NEW o \in Requests PROVE RequestOK(o)'
  <2>1. CASE o # q
    BY <1>1, <1>2, <2>1, Frame DEF IInv
  <2>2. CASE o = q
    <3>1. RequestOK(q) /\ kind[q] # None /\ row[q] = None
      BY <1>1 DEF IInv, RequestOK, RunOK
    <3>2. RunOK(q)'
      BY <1>1, <1>2, <3>1, OverTyped, NoneAssumption DEF RequestOK, RunOK
    <3>3. RelayOK(q)' /\ Owed(q)'
      BY <1>1, <3>1 DEF RequestOK, RelayOK, Owed, Awaits, Excuses, Found
    <3>4. AnswerAgrees(q)'
      BY <1>1, <1>2, <3>1 DEF RequestOK, AnswerAgrees, Breaks
    <3> QED BY <2>2, <3>2, <3>3, <3>4 DEF RequestOK
  <2> QED BY <2>1, <2>2
<1> QED BY <1>3, <1>4 DEF IInv

(* The row appears: nobody can have been told of it, and a pending one is  *)
(* owed its reply unless that came too early.                              *)
LEMMA CommitKeeps ==
  ASSUME IInv, NEW q \in Requests, Commit(q)
  PROVE  IInv'
<1> DEFINE out == run[q].out
<1>1. /\ run[q].pc = "commit"
      /\ run' = [run EXCEPT ![q].pc = "reply"]
      /\ row' = [row EXCEPT ![q] = out]
      /\ mapping' = IF holder = q THEN draft ELSE mapping
      /\ UNCHANGED <<setup, enabled, kind, http, mailed, replies, handler,
                     missed>>
  BY DEF Commit, Stored, Mails
<1>2. /\ RequestOK(q) /\ out \in Outs /\ row[q] = None /\ kind[q] # None
      /\ http[q] # None => kind[q].timeout /\ http[q] = TimeoutAnswer(kind[q])
      /\ out = Pending("call") => q \in mailed
      /\ kind[q].entry \in {"rest", "page"}
  <2>1. RequestOK(q) /\ run[q].pc = "commit"
    BY <1>1 DEF IInv
  <2>2. RunOK(q)
    BY <2>1 DEF RequestOK
  <2>3. /\ out \in Outs /\ row[q] = None /\ kind[q] # None
        /\ http[q] # None => kind[q].timeout /\ http[q] = TimeoutAnswer(kind[q])
        /\ out = Pending("call") => q \in mailed
    BY <2>1, <2>2 DEF RunOK
  <2>4. kind[q] \in Kind
    BY <2>3, ClientRequestAssumption DEF IInv, TypeOK
  <2>5. kind[q].entry \in {"rest", "page"}
    BY <2>4
  <2> QED BY <2>1, <2>3, <2>5
<1>3. out \in Outcome /\ out # None
  BY <1>2, OutFacts
<1>4. run[q] \in Run
  BY DEF IInv, TypeOK
<1>5. /\ run' \in [Requests -> Run]
      /\ run'[q].pc = "reply" /\ run'[q].out = out
      /\ \A o \in Requests : o # q => run'[o] = run[o]
  <2>1. run \in [Requests -> Run]
    BY DEF IInv, TypeOK
  <2>2. [run[q] EXCEPT !.pc = "reply"] \in Run
    BY <1>4
  <2> QED BY <1>1, <1>4, <2>1, <2>2
<1>6. /\ row' \in [Requests -> Outcome \cup {None}] /\ row'[q] = out
      /\ \A o \in Requests : o # q => row'[o] = row[o]
  BY <1>1, <1>3 DEF IInv, TypeOK
<1>7. TypeOK'
  <2>1. draft' \in Mapping \cup {None} /\ holder' \in Requests \cup {None}
    BY ReleaseTyped DEF IInv, Commit
  <2>2. mapping' \in Mapping \cup {None}
    BY <1>1 DEF IInv, TypeOK
  <2> QED BY <1>1, <1>5, <1>6, <2>1, <2>2 DEF IInv, TypeOK
<1> HIDE DEF out
<1>8. ASSUME NEW o \in Requests PROVE RequestOK(o)'
  <2>1. CASE o # q
    BY <1>1, <1>5, <1>6, <2>1, Frame DEF IInv
  <2>2. CASE o = q
    <3>1. RunOK(q)'
      BY <1>1, <1>2, <1>3, <1>5, <1>6 DEF RequestOK, RunOK
    <3>2. handler[q] # "working"
      BY <1>2, NoneAssumption DEF RequestOK, RelayOK, Awaits
    <3>3. /\ replies[q] = 0 \/ handler[q] # "none" \/ missed[q] \in Excuses(q)
          /\ q \notin mailed => replies[q] = 0
      BY <1>2 DEF RequestOK, RelayOK
    <3>4. RelayOK(q)' /\ Owed(q)'
      BY <1>1, <1>2, <1>3, <1>6, <3>2, <3>3 DEF RelayOK, Owed, Awaits, Excuses, Found
    <3>5. AnswerAgrees(q)'
      <4>1. /\ http'[q] = http[q] /\ kind'[q] = kind[q]
            /\ row'[q] # None
        BY <1>1, <1>3, <1>6
      <4>2. \/ http[q] = None
            \/ kind[q].timeout /\ kind[q].entry = "rest" /\ http[q] = 500
            \/ kind[q].timeout /\ kind[q].entry = "page" /\ http[q] = 200
        BY <1>2 DEF TimeoutAnswer
      <4> QED BY <4>1, <4>2 DEF AnswerAgrees, Breaks
    <3> QED BY <2>2, <3>1, <3>4, <3>5 DEF RequestOK
  <2> QED BY <2>1, <2>2
<1> QED BY <1>7, <1>8 DEF IInv

----------------------------------------------------------------------------
(* The mail relay, which leaves the runs alone. *)

LEMMA RelayFrame ==
  ASSUME IInv, NEW q \in Requests, QuietRelay,
         row' \in [Requests -> Outcome \cup {None}],
         mailed' = mailed,
         replies' \in [Requests -> 0..MaxReplies],
         handler' \in [Requests -> {"none", "arrived", "working"}],
         missed' \in [Requests -> Reasons],
         \A o \in Requests \ {q} : /\ row'[o] = row[o]
                                   /\ missed'[o] = missed[o]
                                   /\ replies'[o] = replies[o]
                                   /\ handler'[o] = handler[o],
         RequestOK(q)'
  PROVE  IInv'
<1>1. TypeOK'
  BY DEF IInv, TypeOK, QuietRelay
<1>2. ASSUME NEW o \in Requests PROVE RequestOK(o)'
  BY Frame DEF IInv, QuietRelay
<1> QED BY <1>1, <1>2 DEF IInv

LEMMA ArrivalKeeps ==
  ASSUME IInv, NEW q \in Requests, HandleRelayEmail(q)
  PROVE  IInv'
<1>1. /\ QuietRelay /\ UNCHANGED <<row, mailed, missed>>
      /\ q \in mailed /\ replies[q] < MaxReplies
      /\ replies' = [replies EXCEPT ![q] = @ + 1]
      /\ handler' = [handler EXCEPT ![q] = "arrived"]
  BY DEF HandleRelayEmail, HandlerIs
<1>2. replies[q] + 1 \in 0..MaxReplies
  BY <1>1, ClientRequestAssumption DEF IInv, TypeOK
<1>3. replies' \in [Requests -> 0..MaxReplies]
  BY <1>1, <1>2 DEF IInv, TypeOK
<1>4. /\ handler' \in [Requests -> {"none", "arrived", "working"}]
      /\ handler'[q] = "arrived"
      /\ \A o \in Requests \ {q} : /\ replies'[o] = replies[o]
                                    /\ handler'[o] = handler[o]
  BY <1>1 DEF IInv, TypeOK
<1>5. RequestOK(q)
  BY DEF IInv
<1>6. RunOK(q)' /\ AnswerAgrees(q)'
  BY <1>1, <1>5 DEF RequestOK, RunOK, AnswerAgrees, Breaks, QuietRelay
<1>7. RelayOK(q)' /\ Owed(q)'
  BY <1>1, <1>4, <1>5 DEF RequestOK, RelayOK, Owed, Awaits
<1>8. RequestOK(q)'
  BY <1>6, <1>7 DEF RequestOK
<1>9. row' \in [Requests -> Outcome \cup {None}] /\ missed' \in [Requests -> Reasons]
  BY <1>1 DEF IInv, TypeOK
<1> QED BY <1>1, <1>3, <1>4, <1>8, <1>9, RelayFrame

LEMMA ResumeKeeps ==
  ASSUME IInv, NEW q \in Requests, Resume(q)
  PROVE  IInv'
<1>1. /\ QuietRelay /\ UNCHANGED <<row, mailed, replies, missed>>
      /\ Found(q) /\ Awaits(q)
      /\ handler' = [handler EXCEPT ![q] = "working"]
  BY DEF Resume, HandlerIs
<1>2. /\ handler' \in [Requests -> {"none", "arrived", "working"}]
      /\ handler'[q] = "working"
      /\ \A o \in Requests \ {q} : handler'[o] = handler[o]
  BY <1>1 DEF IInv, TypeOK
<1>3. RequestOK(q)
  BY DEF IInv
<1>4. RunOK(q)' /\ AnswerAgrees(q)'
  BY <1>1, <1>3 DEF RequestOK, RunOK, AnswerAgrees, Breaks, QuietRelay
<1>5. RelayOK(q)' /\ Owed(q)'
  BY <1>1, <1>2, <1>3
     DEF RequestOK, RelayOK, Owed, Awaits, Excuses, Found, QuietRelay
<1>6. RequestOK(q)'
  BY <1>4, <1>5 DEF RequestOK
<1>7. /\ row' \in [Requests -> Outcome \cup {None}]
      /\ replies' \in [Requests -> 0..MaxReplies]
      /\ missed' \in [Requests -> Reasons]
  BY <1>1 DEF IInv, TypeOK
<1> QED BY <1>1, <1>2, <1>6, <1>7, RelayFrame

(* A reply that comes to nothing has a reason that fits the kind of its    *)
(* request, or the event is settled.                                       *)
LEMMA MissesKeeps ==
  ASSUME IInv, NEW q \in Requests, ResumeThrows(q) \/ HandlerAborts(q)
  PROVE  IInv'
<1>1. PICK why \in {"unfound", "unready", "aborted"} :
        /\ Misses(q, why)
        /\ why \in Excuses(q) \/ (why = "aborted" /\ handler[q] = "working")
  BY DEF ResumeThrows, HandlerAborts, Excuses
<1>2. /\ QuietRelay /\ UNCHANGED <<row, mailed, replies>>
      /\ missed' = [missed EXCEPT ![q] = why]
      /\ handler' = [handler EXCEPT ![q] = "none"]
  BY <1>1 DEF Misses, HandlerIs
<1>3. /\ handler' \in [Requests -> {"none", "arrived", "working"}]
      /\ handler'[q] = "none"
      /\ \A o \in Requests \ {q} : handler'[o] = handler[o]
  BY <1>2 DEF IInv, TypeOK
<1>4. /\ missed' \in [Requests -> Reasons] /\ missed'[q] = why
      /\ \A o \in Requests \ {q} : missed'[o] = missed[o]
  BY <1>1, <1>2 DEF IInv, TypeOK, Reasons
<1>5. RequestOK(q)
  BY DEF IInv
<1>6. RunOK(q)' /\ AnswerAgrees(q)'
  BY <1>2, <1>5 DEF RequestOK, RunOK, AnswerAgrees, Breaks, QuietRelay
<1>7. why \in Excuses(q)
  BY <1>1, <1>5 DEF RequestOK, RelayOK, Excuses
<1>8. Excuses(q)' = Excuses(q)
  BY <1>2 DEF Excuses, Found, QuietRelay
<1>9. RelayOK(q)' /\ Owed(q)'
  BY <1>2, <1>3, <1>4, <1>5, <1>7, <1>8 DEF RequestOK, RelayOK, Owed, Awaits
<1>10. RequestOK(q)'
  BY <1>6, <1>9 DEF RequestOK
<1>11. /\ row' \in [Requests -> Outcome \cup {None}]
       /\ replies' \in [Requests -> 0..MaxReplies]
  BY <1>2 DEF IInv, TypeOK
<1> QED BY <1>2, <1>3, <1>4, <1>10, <1>11, RelayFrame

(* A resumed run ends for good. *)
LEMMA ResumedFacts ==
  ASSUME NEW o \in Resumed
  PROVE  o \in Outcome /\ o # Pending("call") /\ o # None
<1>1. o \in Outcome /\ o # Pending("call")
  BY CodeFacts DEF Resumed
<1> QED BY <1>1, NoneAssumption

(* The row of a pending event is written again.  Of a pending event a      *)
(* client has been told no more than that it is there.                     *)
LEMMA ResumedRunKeeps ==
  ASSUME IInv, NEW q \in Requests, RunAndFixCallback(q)
  PROVE  IInv'
<1>1. PICK o \in Resumed : row' = [row EXCEPT ![q] = o]
  BY DEF RunAndFixCallback
<1>2. /\ QuietRelay /\ UNCHANGED <<mailed, replies, missed>>
      /\ handler[q] = "working"
      /\ handler' = [handler EXCEPT ![q] = "none"]
  BY DEF RunAndFixCallback, HandlerIs
<1>3. o \in Outcome /\ o # Pending("call") /\ o # None
  BY ResumedFacts
<1>4. /\ row' \in [Requests -> Outcome \cup {None}] /\ row'[q] = o
      /\ handler' \in [Requests -> {"none", "arrived", "working"}]
      /\ handler'[q] = "none"
      /\ \A p \in Requests \ {q} : row'[p] = row[p] /\ handler'[p] = handler[p]
  BY <1>1, <1>2, <1>3 DEF IInv, TypeOK
<1>5. RequestOK(q) /\ row[q] = Pending("call")
  BY <1>2 DEF IInv, RequestOK, RelayOK, Awaits
<1>6. /\ row[q] # None /\ row[q].status = "pending"
      /\ \A c : row[q] # Refused(c)
  BY <1>5, NoneAssumption
<1>7. RunOK(q)'
  <2>1. /\ run'[q] = run[q] /\ kind'[q] = kind[q] /\ http'[q] = http[q]
        /\ mailed' = mailed
    BY <1>2 DEF QuietRelay
  <2>2. run[q].pc \in {"reply", "over"}
    BY <1>5, <1>6 DEF RequestOK, RunOK
  <2>3. run[q].pc = "reply" => run[q].out.status = "pending"
    BY <1>5, <1>6 DEF RequestOK, RunOK
  <2> QED BY <1>3, <1>4, <1>5, <2>1, <2>2, <2>3 DEF RequestOK, RunOK
<1>8. RelayOK(q)' /\ Owed(q)'
  <2>1. replies' = replies /\ mailed' = mailed /\ (q \notin mailed => replies[q] = 0)
    BY <1>2, <1>5 DEF RequestOK, RelayOK
  <2> QED BY <1>3, <1>4, <2>1 DEF RelayOK, Owed, Awaits
<1>9. AnswerAgrees(q)'
  <2>1. AnswerAgrees(q)
    BY <1>5 DEF RequestOK
  <2>2. \/ http[q] \in {None, 202}
        \/ http[q] = 200 /\ kind[q].entry = "page"
        \/ http[q] = 500 /\ kind[q].timeout /\ kind[q].entry = "rest"
    BY <1>6, <2>1 DEF AnswerAgrees, Breaks
  <2>3. http'[q] = http[q] /\ kind'[q] = kind[q]
    BY <1>2 DEF QuietRelay
  <2> QED BY <1>3, <1>4, <2>2, <2>3 DEF AnswerAgrees, Breaks
<1>10. RequestOK(q)'
  BY <1>7, <1>8, <1>9 DEF RequestOK
<1>11. replies' \in [Requests -> 0..MaxReplies] /\ missed' \in [Requests -> Reasons]
  BY <1>2 DEF IInv, TypeOK
<1> QED BY <1>2, <1>4, <1>10, <1>11, RelayFrame

----------------------------------------------------------------------------
(* The environment. *)

LEMMA ToggleKeeps ==
  ASSUME IInv, NEW r \in Realms, ToggleRealm(r)
  PROVE  IInv'
<1>1. /\ enabled' \subseteq Realms
      /\ UNCHANGED <<setup, kind, run, http, row, mapping, draft, holder,
                     mailed, replies, handler, missed>>
  BY DEF ToggleRealm, Stores, Mails, IInv, TypeOK
<1>2. TypeOK'
  BY <1>1 DEF IInv, TypeOK
<1>3. \A q \in Requests : RequestOK(q)'
  BY <1>1, Frame DEF IInv
<1> QED BY <1>2, <1>3 DEF IInv

LEMMA RestartKeeps ==
  ASSUME IInv, Restart
  PROVE  IInv'
<1>1. /\ run' = [q \in Requests |-> IF run[q].pc = "idle" THEN run[q]
                                     ELSE At("over")]
      /\ missed' = [q \in Requests |-> IF handler[q] = "none" THEN missed[q]
                                      ELSE "crashed"]
      /\ handler' = [q \in Requests |-> "none"]
      /\ UNCHANGED <<setup, enabled, kind, http, row, mapping, mailed, replies>>
      /\ Release(Requests)
  BY DEF Restart
<1>2. TypeOK'
  <2>1. draft' \in Mapping \cup {None} /\ holder' \in Requests \cup {None}
    BY <1>1, ReleaseTyped DEF IInv
  <2>2. run' \in [Requests -> Run]
    BY <1>1, OverTyped DEF IInv, TypeOK
  <2>3. /\ handler' \in [Requests -> {"none", "arrived", "working"}]
        /\ missed' \in [Requests -> Reasons]
    BY <1>1 DEF IInv, TypeOK, Reasons
  <2> QED BY <1>1, <2>1, <2>2, <2>3 DEF IInv, TypeOK
<1>3. ASSUME NEW q \in Requests PROVE RequestOK(q)'
  <2>1. RequestOK(q)
    BY DEF IInv
  <2>2. /\ handler'[q] = "none"
        /\ handler[q] # "none" => missed'[q] \in Excuses(q)
        /\ handler[q] = "none" => missed'[q] = missed[q]
    BY <1>1 DEF Excuses
  <2>3. RelayOK(q)' /\ Owed(q)'
    BY <1>1, <2>1, <2>2 DEF RequestOK, RelayOK, Owed, Awaits, Excuses, Found
  <2>4. AnswerAgrees(q)'
    BY <1>1, <2>1 DEF RequestOK, AnswerAgrees, Breaks
  <2>5. RunOK(q)'
    <3>1. CASE run[q].pc = "idle"
      BY <1>1, <2>1, <3>1 DEF RequestOK, RunOK
    <3>2. CASE run[q].pc # "idle"
      <4>1. run'[q] = At("over") /\ kind[q] # None
        BY <1>1, <2>1, <3>2 DEF RequestOK, RunOK
      <4> QED BY <1>1, <4>1, OverTyped, NoneAssumption DEF RunOK
    <3> QED BY <3>1, <3>2
  <2> QED BY <2>3, <2>4, <2>5 DEF RequestOK
<1> QED BY <1>2, <1>3 DEF IInv

----------------------------------------------------------------------------
LEMMA NextKeeps ==
  ASSUME IInv, [Next]_vars
  PROVE  IInv'
<1>1. ASSUME NEW q \in Requests, NEW k \in Kinds, Send(q, k) PROVE IInv'
  BY <1>1, SendKeeps
<1>2. ASSUME NEW q \in Requests, RunStep(q) PROVE IInv'
  BY <1>2, EntriesKeep, LoadFailsKeeps, ChecksKeep, MappingsKeep,
     StoreMappingKeeps, CallsKeep, MailsKeep, CommitKeeps, ReplyKeeps
     DEF RunStep
<1>3. ASSUME NEW q \in Requests, SyncTimeout(q) \/ Abort(q) PROVE IInv'
  BY <1>3, SyncTimeoutKeeps, AbortKeeps
<1>4. ASSUME NEW q \in Requests, Relay(q) PROVE IInv'
  BY <1>4, ArrivalKeeps, ResumeKeeps, MissesKeeps, ResumedRunKeeps DEF Relay
<1>5. ASSUME NEW r \in Realms, ToggleRealm(r) PROVE IInv'
  BY <1>5, ToggleKeeps
<1>6. CASE UNCHANGED vars
  <2>1. TypeOK'
    BY <1>6 DEF IInv, TypeOK, vars
  <2>2. \A q \in Requests : RequestOK(q)'
    BY <1>6, Frame DEF IInv, vars
  <2> QED BY <2>1, <2>2 DEF IInv
<1> QED BY <1>1, <1>2, <1>3, <1>4, <1>5, <1>6, RestartKeeps DEF Next

(* Whatever the requests do, times out, is rolled back, comes in by mail   *)
(* or is lost with the process, IInv holds: emit(), its listeners, the     *)
(* controllers and the relay.                                              *)
THEOREM Invariance == Spec => []IInv
<1> QED BY InvInit, NextKeeps, PTL DEF Spec

(* Every variable keeps its type. *)
THEOREM TypeCorrect == Spec => []TypeOK
<1>1. IInv => TypeOK
  BY DEF IInv
<1> QED BY <1>1, Invariance, PTL

(* What the entry controllers tell a client agrees with the stored event,  *)
(* for any number of clients, replies and realms.                          *)
THEOREM AnswerTellsRowHolds == Spec => []AnswerTellsRow
<1>1. IInv => AnswerTellsRow
  BY DEF IInv, RequestOK, AnswerTellsRow
<1> QED BY <1>1, Invariance, PTL

(* An event stored as waiting for a mail has sent it, and is owed the      *)
(* reply unless the relay lost one.                                        *)
THEOREM PendingIsOwedHolds == Spec => []PendingIsOwed
<1>1. IInv => PendingIsOwed
  BY DEF IInv, RequestOK, PendingIsOwed
<1> QED BY <1>1, Invariance, PTL

----------------------------------------------------------------------------
(* ClientRequest implements EventContract. *)

(* The refinement mapping, under names of its own. *)
Claimants == Requests \X {"emit", "relay"}
Outcomes == [q \in Requests |-> OutcomeOf(q)]
ClaimOf == [c \in Claimants |-> IF Claims(c[1], c[2]) THEN c[1] ELSE None]
Emitted == {q \in Requests : run[q].pc # "idle"}

LEMMA ContractInit == Init => Contract!Init
BY NoneAssumption DEF Init, Contract!Init, OutcomeOf, Claims, Emission, At

LEMMA ContractStutters ==
  ASSUME UNCHANGED row, UNCHANGED <<ClaimOf, Emitted>>
  PROVE  UNCHANGED Contract!vars
BY DEF Outcomes, ClaimOf, Claimants, Emitted, OutcomeOf, Contract!vars

(* A step that takes or gives back at most one claim.                      *)
LEMMA ClaimChange ==
  ASSUME NEW q \in Requests, NEW by \in {"emit", "relay"},
         \A o \in Requests, b \in {"emit", "relay"} :
           o # q \/ b # by => (Claims(o, b)' <=> Claims(o, b))
  PROVE  /\ Claims(q, by)' => ClaimOf' = [ClaimOf EXCEPT ![<<q, by>>] = q]
         /\ ~Claims(q, by)' => ClaimOf' = [ClaimOf EXCEPT ![<<q, by>>] = None]
         /\ (Claims(q, by)' <=> Claims(q, by)) => ClaimOf' = ClaimOf
         /\ Claims(q, by) => ClaimOf[<<q, by>>] = q
         /\ ~Claims(q, by) => ClaimOf[<<q, by>>] = None
         /\ <<q, by>> \in Claimants
<1>1. <<q, by>> \in Claimants /\ <<q, by>>[1] = q /\ <<q, by>>[2] = by
  BY DEF Claimants
<1>2. ASSUME NEW c \in Claimants, c # <<q, by>>
      PROVE  Claims(c[1], c[2])' <=> Claims(c[1], c[2])
  <2>1. /\ c[1] \in Requests /\ c[2] \in {"emit", "relay"}
        /\ c[1] # q \/ c[2] # by
    BY <1>2 DEF Claimants
  <2> QED BY <2>1
<1> QED BY <1>1, <1>2 DEF ClaimOf

(* What a step of the emission of q does to the claims and the emitted.    *)
LEMMA EmissionChange ==
  ASSUME TypeOK, NEW q \in Requests, NEW r \in Run,
         run' = [run EXCEPT ![q] = r], handler' = handler
  PROVE  /\ \A o \in Requests, b \in {"emit", "relay"} :
              o # q \/ b # "emit" => (Claims(o, b)' <=> Claims(o, b))
         /\ Claims(q, "emit")' <=> r.pc \in Emission
         /\ Claims(q, "emit") <=> run[q].pc \in Emission
         /\ r.pc # "idle" => Emitted' = Emitted \cup {q}
<1>1. run'[q] = r /\ \A o \in Requests : o # q => run'[o] = run[o]
  BY DEF TypeOK
<1> QED BY <1>1 DEF Claims, Emitted

(* A step of the relay of q, which leaves the emissions alone.             *)
LEMMA RelayChange ==
  ASSUME TypeOK, NEW q \in Requests, NEW s, HandlerIs(q, s), run' = run
  PROVE  /\ \A o \in Requests, b \in {"emit", "relay"} :
              o # q \/ b # "relay" => (Claims(o, b)' <=> Claims(o, b))
         /\ Claims(q, "relay")' <=> s = "working"
         /\ Claims(q, "relay") <=> handler[q] = "working"
         /\ Emitted' = Emitted
<1>1. handler'[q] = s /\ \A o \in Requests : o # q => handler'[o] = handler[o]
  BY DEF TypeOK, HandlerIs
<1> QED BY <1>1 DEF Claims, Emitted

(* Listeners, checks and calls go on with the emission they are part of.   *)
LEMMA EmissionGoesOn ==
  ASSUME TypeOK, NEW q \in Requests, RunStep(q),
         ~LoadFails(q), ~Commit(q), ~Reply(q)
  PROVE  /\ UNCHANGED <<row, handler>> /\ run[q].pc \in Emission
         /\ \E r \in Run : r.pc \in Emission /\ run' = [run EXCEPT ![q] = r]
<1> DEFINE Ok(r) == r \in Run /\ r.pc \in Emission
<1>1. \A p \in InTx : Ok(At(p))
  BY DEF At, Emission
<1>2. \A p \in InTx : Ok([At(p) EXCEPT !.left = Guard(p)])
  BY GuardTyped DEF At, Emission
<1>3. \A o \in Outs : Ok([At("commit") EXCEPT !.out = o])
  <2> TAKE o \in Outs
  <2> DEFINE r == [At("commit") EXCEPT !.out = o]
  <2>1. r = [pc |-> "commit", left |-> <<>>, out |-> o]
    BY DEF At
  <2>2. o \in Outcome
    BY OutFacts
  <2> HIDE DEF r
  <2>3. Ok(r)
    BY <2>1, <2>2 DEF Emission
  <2> QED BY <2>3 DEF r
<1> DEFINE Moves == \E r : Ok(r) /\ run' = [run EXCEPT ![q] = r]
<1>4. \A p \in InTx : Goes(q, p) => Moves
  BY <1>1 DEF Goes
<1>5. \A p \in InTx : Enters(q, p) => Moves
  BY <1>2 DEF Enters
<1>6. \A o \in Outs : Ends(q, o) => Moves
  BY <1>3 DEF Ends
<1>14. /\ Result("done", "none", "service") \in Outs
       /\ Result("done", "none", "script") \in Outs
       /\ Result("done", "none", "none") \in Outs
       /\ Pending("call") \in Outs
  OBVIOUS
<1>15. /\ Refused(401) \in Outs /\ Refused(404) \in Outs
       /\ Thrown \subseteq Outs /\ Failed \in Outs /\ Pending("auth") \in Outs
  BY ThrownFacts, CodeFacts
<1> HIDE DEF Moves, Outs, Result, Refused, Failed, Thrown, Pending
<1>7. CASE Load(q) \/ PreprocessClientRequest(q)
  BY <1>4, <1>5, <1>7
     DEF Load, PreprocessClientRequest, Quiet, Mails, Stores, Emission, Moves
<1>8. CASE Unguarded(q) \/ CheckFails(q)
  BY <1>4, <1>5, <1>6, <1>14, <1>15, <1>8
     DEF Unguarded, CheckFails, Passed, Quiet, Mails, Stores, Emission, Moves
<1>9. CASE CheckSecurity(q)
  <2>1. ASSUME run[q].pc \in Auth, run[q].left # <<>>
        PROVE  Ok([run[q] EXCEPT !.left = Tail(@)])
    <3>1. run[q] \in Run /\ Tail(run[q].left) \in Seq(Security)
      BY <2>1 DEF TypeOK
    <3> QED BY <2>1, <3>1 DEF Emission
  <2>2. run' = [run EXCEPT ![q].left = Tail(@)]
          => run' = [run EXCEPT ![q] = [run[q] EXCEPT !.left = Tail(@)]]
    OBVIOUS
  <2>3. run[q].pc \in Auth /\ run[q].left # <<>>
    BY <1>9 DEF CheckSecurity
  <2>4. Passed(run[q].pc) \in InTx
    BY DEF Passed
  <2>5. Moves
    BY <1>4, <1>6, <1>14, <1>15, <1>9, <2>1, <2>2, <2>3, <2>4 DEF CheckSecurity, Moves
  <2> QED BY <1>9, <2>3, <2>5 DEF CheckSecurity, Quiet, Mails, Stores, Emission, Moves
<1>10. CASE LoadEndpoints(q) \/ GenWebpages(q) \/ Map2Endpoints(q) \/ Map2Endpoint(q)
  BY <1>4, <1>5, <1>6, <1>14, <1>15, <1>10
     DEF LoadEndpoints, GenWebpages, Map2Endpoints, Map2Endpoint, Quiet, Mails, Stores,
         Emission, Moves
<1>11. CASE StoreMapping(q)
  BY <1>5, <1>11 DEF StoreMapping, Mails, Emission, Moves
<1>12. CASE CallByMail(q) \/ CallFails(q) \/ CallByHttp(q)
  BY <1>6, <1>14, <1>15, <1>12
     DEF CallByMail, CallFails, CallByHttp, Quiet, Mails, Stores, Emission, Moves
<1>13. CASE ScriptEnds(q) \/ ScriptMails(q)
  BY <1>6, <1>14, <1>15, <1>13 DEF ScriptEnds, ScriptMails, Quiet, Mails, Stores, Emission, Moves
<1> QED BY <1>7, <1>8, <1>9, <1>10, <1>11, <1>12, <1>13 DEF RunStep

(* A claim dropped alone. *)
LEMMA OneDropped ==
  ASSUME NEW c \in Claimants, ClaimOf' = [ClaimOf EXCEPT ![c] = None],
         row' = row, Emitted' = Emitted
  PROVE  Contract!Next
<1>1. ClaimOf' = [d \in Claimants |-> IF d \in {c} THEN None ELSE ClaimOf[d]]
  BY DEF ClaimOf
<1>2. Outcomes' = Outcomes
  BY DEF Outcomes, OutcomeOf
<1>3. Contract!Drop({c})
  BY <1>1, <1>2 DEF Contract!Drop, ClaimOf, Claimants, Emitted, Outcomes
<1>4. {c} \in SUBSET Claimants
  OBVIOUS
<1> QED BY <1>3, <1>4 DEF Contract!Next, Claimants

(* A claim settled with the row that is written. *)
LEMMA OneSettled ==
  ASSUME TypeOK, NEW q \in Requests, NEW by \in {"emit", "relay"},
         <<q, by>> \in Claimants, ClaimOf[<<q, by>>] = q,
         ClaimOf' = [ClaimOf EXCEPT ![<<q, by>>] = None],
         NEW o \in Outcome, row' = [row EXCEPT ![q] = o], Emitted' = Emitted
  PROVE  Contract!Next
<1> DEFINE s == IF o.status \in {"refused", "failed"} THEN "error" ELSE o.status
<1>1. s \in Contract!Outcome \ {"absent"}
  BY DEF Contract!Outcome
<1>2. o # None /\ q # None
  BY NoneAssumption, ClientRequestAssumption
<1>3. Outcomes' = [Outcomes EXCEPT ![q] = s]
  <2>1. \A p \in Requests : OutcomeOf(p)' = IF p = q THEN s ELSE OutcomeOf(p)
    BY <1>2 DEF OutcomeOf, TypeOK
  <2> QED BY <2>1 DEF Outcomes
<1> HIDE DEF s
<1>4. Contract!Settle(<<q, by>>, s)
  BY <1>2, <1>3 DEF Contract!Settle, ClaimOf, Claimants, Emitted, Outcomes
<1> QED BY <1>1, <1>4 DEF Contract!Next, Claimants

LEMMA SendAccepts ==
  ASSUME IInv, NEW q \in Requests, NEW k \in Kinds, Send(q, k)
  PROVE  Contract!Next
<1>1. At("load") \in Run /\ At("load").pc = "load"
  BY DEF At
<1>2. run' = [run EXCEPT ![q] = At("load")] /\ UNCHANGED <<row, handler>>
  BY DEF Send, Goes, Stores, Mails
<1>3. run[q].pc = "idle"
  BY DEF Send, IInv, RequestOK, RunOK
<1>4. /\ ClaimOf' = [ClaimOf EXCEPT ![<<q, "emit">>] = q]
      /\ ClaimOf[<<q, "emit">>] = None /\ <<q, "emit">> \in Claimants
      /\ Emitted' = Emitted \cup {q}
  BY <1>1, <1>2, <1>3, EmissionChange, ClaimChange DEF IInv, Emission
<1>5. q \notin Emitted /\ Outcomes' = Outcomes
  BY <1>2, <1>3 DEF Emitted, Outcomes, OutcomeOf
<1>6. Contract!Accept(<<q, "emit">>, q)
  BY <1>4, <1>5 DEF Contract!Accept, ClaimOf, Claimants, Emitted, Outcomes
<1> QED BY <1>4, <1>6 DEF Contract!Next, Claimants

LEMMA RunStepAllowed ==
  ASSUME IInv, NEW q \in Requests, RunStep(q)
  PROVE  Contract!Next \/ UNCHANGED Contract!vars
<1>0. TypeOK /\ RunOK(q)
  BY DEF IInv, RequestOK
<1>1. CASE LoadFails(q)
  <2>1. At("over") \in Run /\ At("over").pc = "over"
    BY DEF At
  <2>2. run' = [run EXCEPT ![q] = At("over")] /\ UNCHANGED <<row, handler>>
    BY <1>1 DEF LoadFails, Goes, Stores, Mails
  <2>3. /\ ClaimOf' = [ClaimOf EXCEPT ![<<q, "emit">>] = None]
        /\ <<q, "emit">> \in Claimants /\ Emitted' = Emitted \cup {q}
    BY <1>0, <2>1, <2>2, EmissionChange, ClaimChange DEF Emission
  <2>4. q \in Emitted
    BY <1>1 DEF LoadFails, Emitted
  <2>5. Emitted' = Emitted
    BY <2>3, <2>4
  <2> QED BY <2>2, <2>3, <2>5, OneDropped
<1>2. CASE Commit(q)
  <2> DEFINE r == [run[q] EXCEPT !.pc = "reply"]
             o == run[q].out
  <2>0. run[q] \in Run
    BY <1>0 DEF TypeOK
  <2>1. r \in Run /\ r.pc = "reply"
    BY <2>0
  <2>2. /\ run' = [run EXCEPT ![q] = r] /\ handler' = handler
        /\ run[q].pc = "commit" /\ row' = [row EXCEPT ![q] = o]
    BY <1>2 DEF Commit, Stored, Mails
  <2>3. o \in Outcome
    BY <1>0, <2>2, OutFacts DEF RunOK
  <2> HIDE DEF r, o
  <2>4. /\ ClaimOf' = [ClaimOf EXCEPT ![<<q, "emit">>] = None]
        /\ ClaimOf[<<q, "emit">>] = q
        /\ <<q, "emit">> \in Claimants /\ Emitted' = Emitted \cup {q}
    BY <1>0, <2>1, <2>2, EmissionChange, ClaimChange DEF Emission
  <2>5. q \in Emitted
    BY <2>2 DEF Emitted
  <2>6. Emitted' = Emitted
    BY <2>4, <2>5
  <2> QED BY <1>0, <2>2, <2>3, <2>4, <2>6, OneSettled
<1>3. CASE Reply(q)
  <2>1. At("over") \in Run /\ At("over").pc = "over"
    BY DEF At
  <2>2. /\ run' = [run EXCEPT ![q] = At("over")] /\ UNCHANGED <<row, handler>>
        /\ run[q].pc = "reply"
    BY <1>3 DEF Reply, Goes, Stores, Mails
  <2>3. ClaimOf' = ClaimOf /\ Emitted' = Emitted \cup {q}
    <3>1. ~Claims(q, "emit")' /\ ~Claims(q, "emit")
      <4>1. "over" \notin Emission /\ "reply" \notin Emission
        BY DEF Emission
      <4> QED BY <1>0, <2>1, <2>2, <4>1, EmissionChange
    <3>2. /\ Emitted' = Emitted \cup {q}
          /\ \A o \in Requests, b \in {"emit", "relay"} :
               o # q \/ b # "emit" => (Claims(o, b)' <=> Claims(o, b))
      BY <1>0, <2>1, <2>2, EmissionChange
    <3> QED BY <3>1, <3>2, ClaimChange
  <2>4. q \in Emitted
    BY <2>2 DEF Emitted
  <2>5. Emitted' = Emitted
    BY <2>3, <2>4
  <2> QED BY <2>2, <2>3, <2>5, ContractStutters
<1>4. CASE ~LoadFails(q) /\ ~Commit(q) /\ ~Reply(q)
  <2>1. UNCHANGED <<row, handler>> /\ run[q].pc \in Emission
    BY <1>0, <1>4, EmissionGoesOn
  <2>2. PICK r \in Run : r.pc \in Emission /\ run' = [run EXCEPT ![q] = r]
    BY <1>0, <1>4, EmissionGoesOn
  <2>3. ClaimOf' = ClaimOf /\ Emitted' = Emitted \cup {q}
    <3>1. /\ Claims(q, "emit")' <=> Claims(q, "emit")
          /\ Emitted' = Emitted \cup {q}
          /\ \A o \in Requests, b \in {"emit", "relay"} :
               o # q \/ b # "emit" => (Claims(o, b)' <=> Claims(o, b))
      <4>1. r.pc # "idle"
        BY <2>2 DEF Emission
      <4> QED BY <1>0, <2>1, <2>2, <4>1, EmissionChange
    <3> QED BY <3>1, ClaimChange
  <2>4. q \in Emitted
    BY <2>1 DEF Emitted, Emission
  <2>5. Emitted' = Emitted
    BY <2>3, <2>4
  <2> QED BY <2>1, <2>3, <2>5, ContractStutters
<1> QED BY <1>1, <1>2, <1>3, <1>4

LEMMA AbortDrops ==
  ASSUME TypeOK, NEW q \in Requests, Abort(q)
  PROVE  Contract!Next
<1>1. At("over") \in Run /\ At("over").pc = "over"
  BY DEF At
<1>2. run' = [run EXCEPT ![q] = At("over")] /\ UNCHANGED <<row, handler>>
  BY DEF Abort, Goes, Mails
<1>3. /\ ClaimOf' = [ClaimOf EXCEPT ![<<q, "emit">>] = None]
      /\ <<q, "emit">> \in Claimants /\ Emitted' = Emitted \cup {q}
  BY <1>1, <1>2, EmissionChange, ClaimChange DEF Emission
<1>4. q \in Emitted
  BY DEF Abort, Emitted
<1>5. Emitted' = Emitted
  BY <1>3, <1>4
<1> QED BY <1>2, <1>3, <1>5, OneDropped

LEMMA RelayAllowed ==
  ASSUME IInv, NEW q \in Requests, Relay(q)
  PROVE  Contract!Next \/ UNCHANGED Contract!vars
<1>0. TypeOK /\ RelayOK(q)
  BY DEF IInv, RequestOK
<1>1. CASE HandleRelayEmail(q) \/ ResumeThrows(q)
  <2>1. PICK s : HandlerIs(q, s) /\ s # "working" /\ handler[q] # "working"
    BY <1>1 DEF HandleRelayEmail, ResumeThrows, Misses
  <2>2. UNCHANGED <<run, row>>
    BY <1>1 DEF HandleRelayEmail, ResumeThrows, Misses, QuietRelay
  <2>3. ClaimOf' = ClaimOf /\ Emitted' = Emitted
    <3>1. /\ Claims(q, "relay")' <=> Claims(q, "relay")
          /\ Emitted' = Emitted
          /\ \A o \in Requests, b \in {"emit", "relay"} :
               o # q \/ b # "relay" => (Claims(o, b)' <=> Claims(o, b))
      BY <1>0, <2>1, <2>2, RelayChange
    <3> QED BY <3>1, ClaimChange
  <2> QED BY <2>2, <2>3, ContractStutters
<1>2. CASE HandlerAborts(q)
  <2>1. HandlerIs(q, "none") /\ UNCHANGED <<run, row>>
    BY <1>2 DEF HandlerAborts, Misses, QuietRelay
  <2>2. /\ ClaimOf' = [ClaimOf EXCEPT ![<<q, "relay">>] = None]
        /\ <<q, "relay">> \in Claimants /\ Emitted' = Emitted
    <3>1. /\ ~Claims(q, "relay")' /\ Emitted' = Emitted
          /\ \A o \in Requests, b \in {"emit", "relay"} :
               o # q \/ b # "relay" => (Claims(o, b)' <=> Claims(o, b))
      BY <1>0, <2>1, RelayChange
    <3> QED BY <3>1, ClaimChange
  <2> QED BY <2>1, <2>2, OneDropped
<1>3. CASE Resume(q)
  <2>1. /\ HandlerIs(q, "working") /\ UNCHANGED <<run, row>>
        /\ handler[q] = "arrived" /\ Awaits(q)
    BY <1>3 DEF Resume, QuietRelay
  <2>2. /\ ClaimOf' = [ClaimOf EXCEPT ![<<q, "relay">>] = q]
        /\ ClaimOf[<<q, "relay">>] = None
        /\ <<q, "relay">> \in Claimants /\ Emitted' = Emitted
    <3>1. /\ ~Claims(q, "relay") /\ Claims(q, "relay")' /\ Emitted' = Emitted
          /\ \A o \in Requests, b \in {"emit", "relay"} :
               o # q \/ b # "relay" => (Claims(o, b)' <=> Claims(o, b))
      BY <1>0, <2>1, RelayChange
    <3> QED BY <3>1, ClaimChange
  <2>3. Outcomes[q] = "pending" /\ Outcomes' = Outcomes
    BY <2>1, NoneAssumption DEF Awaits, Outcomes, OutcomeOf
  <2>4. Contract!Reclaim(<<q, "relay">>, q)
    BY <2>2, <2>3 DEF Contract!Reclaim, ClaimOf, Claimants, Emitted, Outcomes
  <2> QED BY <2>2, <2>4 DEF Contract!Next, Claimants
<1>4. CASE RunAndFixCallback(q)
  <2>1. PICK w \in Resumed : row' = [row EXCEPT ![q] = w]
    BY <1>4 DEF RunAndFixCallback
  <2>2. HandlerIs(q, "none") /\ run' = run /\ handler[q] = "working"
    BY <1>4 DEF RunAndFixCallback, QuietRelay
  <2>3. w \in Outcome
    BY ResumedFacts
  <2>4. /\ ClaimOf' = [ClaimOf EXCEPT ![<<q, "relay">>] = None]
        /\ ClaimOf[<<q, "relay">>] = q
        /\ <<q, "relay">> \in Claimants /\ Emitted' = Emitted
    <3>1. /\ Claims(q, "relay") /\ ~Claims(q, "relay")' /\ Emitted' = Emitted
          /\ \A o \in Requests, b \in {"emit", "relay"} :
               o # q \/ b # "relay" => (Claims(o, b)' <=> Claims(o, b))
      BY <1>0, <2>2, RelayChange
    <3> QED BY <3>1, ClaimChange
  <2> QED BY <1>0, <2>1, <2>3, <2>4, OneSettled
<1> QED BY <1>1, <1>2, <1>3, <1>4 DEF Relay

LEMMA RestartDrops ==
  ASSUME TypeOK, Restart
  PROVE  Contract!Next
<1>1. /\ \A q \in Requests : run'[q] = IF run[q].pc = "idle" THEN run[q] ELSE At("over")
      /\ \A q \in Requests : handler'[q] = "none"
      /\ row' = row
  BY DEF Restart
<1>2. At("over").pc = "over"
  BY DEF At
<1>3. \A q \in Requests, by \in {"emit", "relay"} : ~Claims(q, by)'
  BY <1>1, <1>2 DEF Claims, Emission
<1>4. ClaimOf' = [c \in Claimants |-> IF c \in Claimants THEN None ELSE ClaimOf[c]]
  BY <1>3 DEF ClaimOf, Claimants
<1>5. Emitted' = Emitted /\ Outcomes' = Outcomes
  BY <1>1, <1>2 DEF Emitted, Outcomes, OutcomeOf
<1>6. Contract!Drop(Claimants)
  BY <1>4, <1>5 DEF Contract!Drop, ClaimOf, Claimants, Emitted, Outcomes
<1>7. Claimants \in SUBSET Claimants
  OBVIOUS
<1> QED BY <1>6, <1>7 DEF Contract!Next, Claimants

LEMMA ContractStep ==
  ASSUME IInv, [Next]_vars
  PROVE  [Contract!Next]_(Contract!vars)
<1>0. TypeOK
  BY DEF IInv
<1>1. ASSUME UNCHANGED <<run, handler, row>> PROVE UNCHANGED Contract!vars
  BY <1>1, ContractStutters DEF ClaimOf, Claims, Emitted
<1>2. ASSUME NEW q \in Requests, SyncTimeout(q) PROVE UNCHANGED Contract!vars
  BY <1>1, <1>2 DEF SyncTimeout, Stores, Mails
<1>3. ASSUME NEW r \in Realms, ToggleRealm(r) PROVE UNCHANGED Contract!vars
  BY <1>1, <1>3 DEF ToggleRealm, Stores, Mails
<1>4. CASE UNCHANGED vars
  BY <1>1, <1>4 DEF vars
<1> QED BY <1>0, <1>2, <1>3, <1>4, SendAccepts, RunStepAllowed, AbortDrops,
           RelayAllowed, RestartDrops DEF Next

(* Client requests keep the promise of EventContract: the row of an event  *)
(* changes only by the emission that accepted it, or by a reply that found *)
(* it pending, whatever times out, is rolled back, repeated or lost.       *)
THEOREM Refinement == Spec => ImplementsContract
<1>1. IInv /\ [Next]_vars => [Contract!Next]_(Contract!vars)
  BY ContractStep
<1> QED BY <1>1, Invariance, ContractInit, PTL
        DEF Spec, ImplementsContract, Contract!Spec

LEMMA SettledStep ==
  ASSUME IInv, [Next]_vars, NEW e \in Requests, Contract!Settled(e)
  PROVE  Contract!Settled(e)'
<1> USE DEF Outcomes, ClaimOf, Emitted, Claimants
<1>1. [Contract!Next]_(Contract!vars)
  BY ContractStep
<1>2. Outcomes[e] \in {"done", "error"} /\ \A r \in Claimants : ClaimOf[r] # e
  BY DEF Contract!Settled, Contract!Final, Contract!Claimed
<1>3. e \in Emitted /\ e # None
  <2>1. row[e] # None /\ RunOK(e)
    BY <1>2, NoneAssumption DEF OutcomeOf, IInv, RequestOK
  <2>2. run[e].pc # "idle"
    BY <2>1 DEF RunOK
  <2> QED BY <2>2, ClientRequestAssumption
<1>4. SUFFICES Outcomes'[e] = Outcomes[e] /\ \A r \in Claimants : ClaimOf'[r] # e
  BY <1>2 DEF Contract!Settled, Contract!Final, Contract!Claimed
<1> HIDE DEF Outcomes, ClaimOf, Emitted
<1>5. /\ Outcomes = [f \in Requests |-> Outcomes[f]]
      /\ ClaimOf = [r \in Claimants |-> ClaimOf[r]]
  BY DEF Outcomes, ClaimOf
<1>6. ASSUME NEW r \in Claimants, NEW f \in Requests,
             Contract!Accept(r, f) \/ Contract!Reclaim(r, f)
      PROVE  Outcomes'[e] = Outcomes[e] /\ \A s \in Claimants : ClaimOf'[s] # e
  <2>1. Outcomes' = Outcomes /\ ClaimOf' = [ClaimOf EXCEPT ![r] = f] /\ f # e
    BY <1>2, <1>3, <1>6 DEF Contract!Accept, Contract!Reclaim, Outcomes, ClaimOf, Emitted
  <2> QED BY <1>2, <1>5, <2>1
<1>7. ASSUME NEW f \in Requests, Contract!Refuse(f)
      PROVE  Outcomes' = Outcomes /\ ClaimOf' = ClaimOf
  BY <1>7 DEF Contract!Refuse, Outcomes, ClaimOf
<1>8. ASSUME NEW r \in Claimants, NEW o, Contract!Settle(r, o)
      PROVE  Outcomes'[e] = Outcomes[e] /\ \A s \in Claimants : ClaimOf'[s] # e
  <2>1. /\ Outcomes' = [Outcomes EXCEPT ![ClaimOf[r]] = o]
        /\ ClaimOf' = [ClaimOf EXCEPT ![r] = None]
    BY <1>8 DEF Contract!Settle, Outcomes, ClaimOf
  <2> QED BY <1>2, <1>3, <1>5, <2>1
<1>9. ASSUME NEW S \in SUBSET Claimants, Contract!Drop(S)
      PROVE  Outcomes' = Outcomes /\ \A s \in Claimants : ClaimOf'[s] # e
  <2>1. /\ Outcomes' = Outcomes
        /\ ClaimOf' = [s \in Claimants |-> IF s \in S THEN None ELSE ClaimOf[s]]
    BY <1>9 DEF Contract!Drop, Outcomes, ClaimOf
  <2> QED BY <1>2, <1>3, <2>1
<1>10. ASSUME UNCHANGED Contract!vars PROVE Outcomes' = Outcomes /\ ClaimOf' = ClaimOf
  BY <1>10 DEF Contract!vars, Outcomes, ClaimOf
<1> QED
  BY <1>1, <1>2, <1>6, <1>7, <1>8, <1>9, <1>10 DEF Contract!Next

(* A settled request stays settled: no reply that comes late, or twice,    *)
(* changes the event a client has been, or will be, told of.               *)
THEOREM SettledForeverHolds == Spec => Contract!SettledForever
<1>1. IInv /\ [Next]_vars =>
        [\A e \in Requests : Contract!Settled(e) => Contract!Settled(e)']_(Contract!vars)
  BY SettledStep
<1> QED BY <1>1, Invariance, PTL DEF Spec, Contract!SettledForever

============================================================================
