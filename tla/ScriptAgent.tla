---------------------------- MODULE ScriptAgent ----------------------------
(***************************************************************************)
(* ScriptAgentService._map2Endpoints(): the conversation with the language *)
(* model that turns a request without endpoint name into a script.  Each   *)
(* stage is one LLMService.chat(), see LlmQuery for what happens inside:   *)
(* here it returns an answer that passed the stage's validation, which is  *)
(* appended to the messages, or throws, and the request has failed.        *)
(***************************************************************************)
EXTENDS SequencesExt, FiniteSets

CONSTANTS Endpoints,  \* names of the endpoints of the callgent
          Purposes,   \* keys the model may split the request into
          Args,       \* names of arguments
          Hints,      \* what the model may say of the source of an argument
          Histories,  \* outcomes of the earlier events of the task
          NoEp        \* an empty epName

(* flag, needConfirm: extracted-from-user-info-or-files;                   *)
(* fromAPI: retrieved-from-API-calls; the others: mapping.                 *)
Hint == [flag : BOOLEAN, needConfirm : BOOLEAN, fromAPI : BOOLEAN,
         optional : BOOLEAN, mismatch : BOOLEAN, missing : BOOLEAN]

ASSUME AgentAssumption ==
  /\ Hints \subseteq Hint
  /\ Histories \subseteq Seq({"error", "pending", "done"})
  /\ Endpoints \cap {NoEp, "local", "external"} = {}

VARIABLES at,         \* template of the next chat(), or what comes after
          asked,      \* the messages as they were built from the histories
          messages,   \* the messages now
          purposes0,  \* result of _chooseEndpoints()
          purposes1,  \* result of _reChooseEndpoints()
          used,       \* confirmed purposes, each with its epName
          argsHints,  \* the hint for each argument of a purpose
          reConfirms, \* arguments the model is asked about once more
          again       \* arguments whose hint is of the second answer

agentVars == <<at, asked, messages, purposes0, purposes1, used, argsHints,
               reConfirms, again>>

(* An answer of the first two stages, after uniqueBy(): for a purpose, an  *)
(* endpoint, or none and whether an external API is needed for it.         *)
PurposeLists(eps) ==
  UNION {[P -> eps \cup {"local", "external"}] : P \in (SUBSET Purposes) \ {{}}}

ArgKeys == Purposes \X Args

(* Messages of role user: an earlier request, this one, or "refactor".     *)
Message == {"earlier", "request", "refactor", "assistant"}

TalksAbout(status) ==
  CASE status = "error"   -> <<>>
    [] status = "pending" -> <<"earlier">>
    [] status = "done"    -> <<"earlier", "assistant">>

AgentInit ==
  /\ at = "chooseEndpoints"
  /\ \E h \in Histories :
       asked = Append(FlattenSeq([i \in DOMAIN h |-> TalksAbout(h[i])]), "request")
  /\ messages = asked
  /\ purposes0 = <<>> /\ purposes1 = <<>>
  /\ used = {}
  /\ argsHints = <<>> /\ reConfirms = {} /\ again = {}

----------------------------------------------------------------------------
Keep(m) == m   \* faulty: nothing is removed

(* "remove last assistant message" *)
Pop(m) == Front(m)

(* chat() on the messages m: "Current message must be role=user". *)
LastIsUser(m) == m # <<>> /\ Last(m) # "assistant"

Chat(m) ==
  /\ LastIsUser(m)
  /\ messages' = Append(m, "assistant")

ChooseEndpoints ==
  /\ at = "chooseEndpoints"
  /\ Chat(messages)
  /\ purposes0' \in PurposeLists(Endpoints)
  /\ at' = "reChooseEndpoints"
  /\ UNCHANGED <<asked, purposes1, used, argsHints, reConfirms, again>>

Chosen(c) == {c[p] : p \in DOMAIN c} \cap Endpoints

(* Only endpoints that were not chosen are offered the second time. *)
OfferedInvented ==   \* faulty: a name the model made up passes
  (Endpoints \ Chosen(purposes0)) \cup {NoEp}

Offered == Endpoints \ Chosen(purposes0)

ReChooseEndpoints ==
  /\ at = "reChooseEndpoints"
  /\ Chat(Pop(messages))
  /\ purposes1' \in PurposeLists(Offered)
  /\ at' = "confirmEndpoints"
  /\ UNCHANGED <<asked, purposes0, used, argsHints, reConfirms, again>>

(* purposesSet and epsMap: a purpose has a candidate for each round that   *)
(* gave it an endpoint; the second round has the say on needExternalAPI.   *)
AllPurposes == DOMAIN purposes0 \cup DOMAIN purposes1

Candidates(p) ==
  {c[p] : c \in {d \in {purposes0, purposes1} : p \in DOMAIN d}} \cap Endpoints

candidateCount(p) ==
  Cardinality({i \in {0, 1} :
    LET c == IF i = 0 THEN purposes0 ELSE purposes1
    IN  p \in DOMAIN c /\ c[p] \in Endpoints})

grouped(n) == {p \in AllPurposes : candidateCount(p) = n}

needExternalAPI(p) ==
  IF p \in DOMAIN purposes1 THEN purposes1[p] = "external"
                            ELSE purposes0[p] = "external"

unaddressedAPI == {p \in grouped(0) : needExternalAPI(p)}

confirmedEndpoints == {u \in grouped(1) \X Endpoints : u[2] \in Candidates(u[1])}

epsMap == UNION {Candidates(p) : p \in AllPurposes}

(* chooseEndpoints() returns; its locals are not needed any more. *)
Confirmed(u) ==
  /\ used' = u
  /\ purposes0' = <<>> /\ purposes1' = <<>>
  /\ at' = "confirmEndpointsArgs"
  /\ UNCHANGED <<asked, argsHints, reConfirms, again>>

(* One endpoint is to be opted for: the list of the model counts, for the  *)
(* confirmed purposes, too.                                                *)
ConfirmEndpoints ==
  /\ at = "confirmEndpoints"
  /\ unaddressedAPI = {}
  /\ grouped(2) # {}
  /\ Chat(Pop(messages))
  /\ \E u \in (SUBSET (Purposes \X (epsMap \cup {NoEp}))) \ {{}} : Confirmed(u)

NothingToOpt ==
  /\ at = "confirmEndpoints"
  /\ unaddressedAPI = {}
  /\ grouped(2) = {}
  /\ messages' = Pop(messages)
  /\ Confirmed(confirmedEndpoints)

(* "Mission Impossible: current service APIs is not sufficient [...]" *)
MissionImpossible ==
  /\ at = "confirmEndpoints"
  /\ unaddressedAPI # {}
  /\ at' = "failed"
  /\ UNCHANGED <<asked, messages, purposes0, purposes1, used, argsHints,
                 reConfirms, again>>

----------------------------------------------------------------------------
(* confirmEndpointArgs() *)

HasSource(h) == h.flag \/ h.needConfirm \/ h.fromAPI \/ h.optional

(* Validated: the purpose has an endpoint, and the argument a source. *)
ArgsAnswers ==
  LET known == {k \in ArgKeys :
                  \E u \in used : u[1] = k[1] /\ u[2] # NoEp}
  IN  UNION {[K -> {h \in Hints : HasSource(h)}] : K \in SUBSET known}

uncertain(f) ==
  {k \in DOMAIN f : (f[k].flag /\ f[k].needConfirm) \/ f[k].mismatch}

(* The client is to be asked, or a conversion is missing: an exception. *)
needConfirms(f) == {k \in DOMAIN f : f[k].flag /\ f[k].needConfirm}
mismatches(f) == {k \in DOMAIN f : ~f[k].needConfirm /\ f[k].missing}

Settled(f) ==
  /\ argsHints' = f
  /\ at' = IF mismatches(f) = {} /\ needConfirms(f) = {}
           THEN "generateTaskScript" ELSE "failed"

ConfirmEndpointArgs ==
  /\ at = "confirmEndpointsArgs"
  /\ Chat(Pop(messages))
  /\ \E f \in ArgsAnswers :
       /\ reConfirms' = uncertain(f)
       /\ IF uncertain(f) = {}
          THEN Settled(f)
          ELSE argsHints' = f /\ at' = "reConfirmEndpointsArgs"
  /\ UNCHANGED <<asked, purposes0, purposes1, used, again>>

ReConfirmAnswersAny == ArgsAnswers   \* faulty: it may leave out what it was asked

ReConfirmAnswers == {f \in ArgsAnswers : reConfirms \subseteq DOMAIN f}

(* "trust argsHints1", for arguments that were in the first answer. *)
Merged(f) ==
  [k \in DOMAIN argsHints |-> IF k \in DOMAIN f THEN f[k] ELSE argsHints[k]]

ReConfirmEndpointArgs ==
  /\ at = "reConfirmEndpointsArgs"
  /\ Chat(Pop(messages))
  /\ \E f \in ReConfirmAnswers :
       /\ again' = DOMAIN f \cap DOMAIN argsHints
       /\ Settled(Merged(f))
  /\ UNCHANGED <<asked, purposes0, purposes1, used, reConfirms>>

----------------------------------------------------------------------------
(* _generateTaskScript(), installScriptFiles() *)

GenerateTaskScript ==
  /\ at = "generateTaskScript"
  /\ Chat(Pop(messages))
  /\ at' = "refactor"
  /\ UNCHANGED <<asked, purposes0, purposes1, used, argsHints, reConfirms, again>>

Refactor ==
  /\ at = "refactor"
  /\ Chat(Append(messages, "refactor"))
  /\ at' = "install"
  /\ UNCHANGED <<asked, purposes0, purposes1, used, argsHints, reConfirms, again>>

InstallScriptFiles ==
  /\ at = "install"
  /\ at' \in {"done", "failed"}
  /\ UNCHANGED <<asked, messages, purposes0, purposes1, used, argsHints,
                 reConfirms, again>>

AsksModel ==
  \/ at \in {"chooseEndpoints", "reChooseEndpoints", "confirmEndpointsArgs",
             "reConfirmEndpointsArgs", "generateTaskScript", "refactor"}
  \/ /\ at = "confirmEndpoints"
     /\ unaddressedAPI = {} /\ grouped(2) # {}

(* No valid answer in three attempts, no answer, not paid for; or a wrong  *)
(* last message.                                                           *)
ChatThrows ==
  /\ AsksModel
  /\ at' = "failed"
  /\ UNCHANGED <<asked, messages, purposes0, purposes1, used, argsHints,
                 reConfirms, again>>

AgentNext ==
  \/ ChooseEndpoints \/ ReChooseEndpoints
  \/ ConfirmEndpoints \/ NothingToOpt \/ MissionImpossible
  \/ ConfirmEndpointArgs \/ ReConfirmEndpointArgs
  \/ GenerateTaskScript \/ Refactor \/ InstallScriptFiles
  \/ ChatThrows

AgentSpec == AgentInit /\ [][AgentNext]_agentVars

----------------------------------------------------------------------------
(* Properties. *)

AgentTypeOK ==
  /\ at \in {"chooseEndpoints", "reChooseEndpoints", "confirmEndpoints",
             "confirmEndpointsArgs", "reConfirmEndpointsArgs",
             "generateTaskScript", "refactor", "install", "done", "failed"}
  /\ asked \in Seq(Message) /\ messages \in Seq(Message)
  /\ purposes0 \in PurposeLists(Endpoints) \cup {<<>>}
  /\ purposes1 \in PurposeLists(Endpoints) \cup {<<>>}
  /\ used \subseteq Purposes \X (Endpoints \cup {NoEp})
  /\ DOMAIN argsHints \subseteq ArgKeys
  /\ \A k \in DOMAIN argsHints : argsHints[k] \in Hints
  /\ reConfirms \subseteq ArgKeys /\ again \subseteq ArgKeys

(* The messages the next chat() gets. *)
Conversation ==
  CASE at = "chooseEndpoints" -> messages
    [] at = "refactor" -> Append(messages, "refactor")
    [] OTHER -> Pop(messages)

(* What the model is asked next begins as the client said it: answers to   *)
(* earlier stages never stay in the conversation.                          *)
ConversationIsClean ==
  AsksModel /\ at # "refactor" => IsPrefix(Conversation, asked)

(* A script is only written when each argument the first answer was not    *)
(* sure of has been asked about again, and none is left to be clarified.   *)
UncertainAskedAgain ==
  at \in {"generateTaskScript", "refactor", "install", "done"} =>
    /\ reConfirms \subseteq again \cap DOMAIN argsHints
    /\ uncertain(argsHints) \subseteq again
    /\ \A k \in DOMAIN argsHints : ~(argsHints[k].flag /\ argsHints[k].needConfirm)

----------------------------------------------------------------------------
(* The inductive invariant. *)

(* What the conversation is when a stage begins: the messages asked with   *)
(* the answer of the stage before, or, once NothingToOpt has removed what  *)
(* was not an answer, without one, and from then on without the request.   *)
MessagesOK ==
  /\ asked # <<>>
  /\ at = "chooseEndpoints" => messages = asked
  /\ at \in {"reChooseEndpoints", "confirmEndpoints"} =>
       messages = Append(asked, "assistant")
  /\ at = "confirmEndpointsArgs" =>
       messages \in {asked, Append(asked, "assistant")}
  /\ at \in {"reConfirmEndpointsArgs", "generateTaskScript", "refactor"} =>
       messages \in {Append(asked, "assistant"), Append(Pop(asked), "assistant")}

(* What is known of the arguments when a stage begins. *)
ArgsOK ==
  /\ at \in {"chooseEndpoints", "reChooseEndpoints", "confirmEndpoints",
             "confirmEndpointsArgs", "reConfirmEndpointsArgs"} => again = {}
  /\ at = "reConfirmEndpointsArgs" => reConfirms = uncertain(argsHints)

AgentIInv == AgentTypeOK /\ MessagesOK /\ ArgsOK /\ UncertainAskedAgain

============================================================================
