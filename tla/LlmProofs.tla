----------------------------- MODULE LlmProofs -----------------------------
(***************************************************************************)
(* Proofs about the calls of the language model and the agent that makes   *)
(* them.                                                                   *)
(*                                                                         *)
(* LlmQuery, for any number of calls and attempts: each step is one that   *)
(* Billing allows, an answer is parsed from a completion of the call       *)
(* itself, and the cache holds what its writer has validated.              *)
(*                                                                         *)
(* ScriptAgent, for any endpoints, purposes, arguments and histories: no   *)
(* answer stays in the conversation, and no argument is used that the      *)
(* model was not sure of.                                                  *)
(***************************************************************************)
EXTENDS LlmQuery, ScriptAgent, SequenceTheorems, WellFoundedInduction, TLAPS

----------------------------------------------------------------------------
(* The steps of Billing *)

LEMMA AmountTyped == \A t \in B!TxId : B!Amount(t) \in Int
BY QueryAssumption DEF B!TxId, B!Amount

LEMMA FreeTyped == B!Free \in B!Handler /\ B!Free.pc = "idle" /\ B!Free.txId = None
BY DEF B!Free, B!Handler

LEMMA NoneIsNoBill == None \notin B!TxId
BY QueryAssumption DEF B!TxId, Completions

(* What a step does to completions that nobody waits for any more.         *)
Settles == \A c \in Completions : completion'[c] = completion[c] \/ (Got(c) /\ Got(c)')

(* Handlers that end without effect. *)
LEMMA GiveUpKeeps ==
  ASSUME B!TypeOK, BillsAnswers, NEW S \in SUBSET Handlers, B!GiveUp(S),
         UNCHANGED <<balance, ledger>>
  PROVE  B!TypeOK' /\ BillsAnswers' /\ Settles
<1>1. /\ handler \in [Handlers -> B!Handler] /\ session' = session
      /\ handler' = [h \in Handlers |-> IF h \in S THEN B!Free ELSE handler[h]]
      /\ completion' = [c \in Completions |->
                          IF \E h \in S : handler[h].txId = c /\ c \notin ledger
                          THEN "unbooked" ELSE completion[c]]
      /\ \A h \in Handlers : handler[h].pc = "idle" <=> handler[h].txId = None
      /\ completion \in [Completions -> B!CompletionState]
  BY DEF B!TypeOK, B!GiveUp, B!SessionAfterError
<1>2. /\ handler' \in [Handlers -> B!Handler]
      /\ \A h \in Handlers : handler'[h].pc = "idle" <=> handler'[h].txId = None
  BY <1>1, FreeTyped
<1>3. completion' \in [Completions -> B!CompletionState]
  BY <1>1 DEF B!CompletionState
<1>4. Settles
  BY <1>1 DEF Settles, Got, Without, BillsAnswers
<1>5. BillsAnswers'
  BY <1>1, <1>4, FreeTyped, NoneIsNoBill DEF BillsAnswers, Settles, Got, Without, B!TxId
<1> QED BY <1>1, <1>2, <1>3, <1>4, <1>5 DEF B!TypeOK

(* A handler starts, goes on or ends. *)
LEMMA HandlerKeeps ==
  ASSUME B!TypeOK, BillsAnswers, NEW h \in Handlers, NEW r \in B!Handler,
         handler' = [handler EXCEPT ![h] = r],
         r.pc = "idle" <=> r.txId = None,
         completion' \in [Completions -> B!CompletionState], Settles,
         r.txId \in Completions => Got(r.txId)',
         session' \in [Sessions -> {"open", "paid", "acked"}],
         balance' \in Int, ledger' \subseteq B!TxId
  PROVE  B!TypeOK' /\ BillsAnswers' /\ Settles
<1>1. handler' \in [Handlers -> B!Handler] /\ handler'[h] = r
      /\ \A o \in Handlers : o # h => handler'[o] = handler[o]
  BY DEF B!TypeOK
<1>2. B!TypeOK'
  BY <1>1 DEF B!TypeOK
<1>3. BillsAnswers'
  BY <1>1 DEF BillsAnswers, Settles, Got, Without
<1> QED BY <1>2, <1>3

LEMMA WritesKeep ==
  ASSUME B!TypeOK, BillsAnswers, NEW h \in Handlers, B!Writes(h) \/ B!Abort(h)
  PROVE  B!TypeOK' /\ BillsAnswers' /\ Settles
<1> DEFINE t == handler[h].txId
<1>1. /\ handler \in [Handlers -> B!Handler] /\ balance \in Int
      /\ session \in [Sessions -> {"open", "paid", "acked"}]
      /\ completion \in [Completions -> B!CompletionState]
      /\ ledger \subseteq B!TxId
      /\ handler[h] \in B!Handler /\ (handler[h].pc = "idle" <=> t = None)
      /\ t \in Completions => Got(t)
  BY DEF B!TypeOK, BillsAnswers
<1>2. ASSUME NEW p \in {"inserted", "updated"}, handler[h].pc # "idle",
             handler' = [handler EXCEPT ![h].pc = p],
             UNCHANGED <<session, completion, balance, ledger>>
      PROVE  B!TypeOK' /\ BillsAnswers' /\ Settles
  <2> DEFINE r == [handler[h] EXCEPT !.pc = p]
  <2>1. r \in B!Handler /\ r.pc = p /\ r.txId = t
    BY <1>1 DEF B!Handler
  <2>2. handler' = [handler EXCEPT ![h] = r]
    BY <1>2
  <2>3. Settles
    BY <1>2 DEF Settles
  <2>4. t \in Completions => Got(t)'
    BY <1>1, <1>2 DEF Got, Without
  <2> HIDE DEF r, t
  <2> QED BY <1>1, <1>2, <2>1, <2>2, <2>3, <2>4, HandlerKeeps DEF t
<1>3. CASE B!Insert(h)
  <2>1. CASE B!Conflicts(t)
    BY <1>3, <2>1, GiveUpKeeps DEF B!Insert
  <2>2. CASE ~B!Conflicts(t)
    BY <1>2, <1>3, <2>2 DEF B!Insert
  <2> QED BY <2>1, <2>2
<1>4. CASE B!Increment(h)
  BY <1>2, <1>4 DEF B!Increment
<1>5. CASE B!Commit(h)
  <2>1. /\ handler[h].pc = "updated" /\ handler' = [handler EXCEPT ![h] = B!Free]
        /\ ledger' = ledger \cup {t} /\ balance' = balance + B!Amount(t)
        /\ session' = [s \in Sessions |-> IF s = t THEN "acked" ELSE session[s]]
        /\ completion' = [c \in Completions |->
                            IF c = t THEN "booked" ELSE completion[c]]
    BY <1>5 DEF B!Commit
  <2>2. t \in B!TxId
    BY <1>1, <2>1 DEF B!Handler
  <2>3. balance' \in Int
    BY <1>1, <2>1, <2>2, AmountTyped
  <2>4. completion' \in [Completions -> B!CompletionState] /\ Settles
    BY <1>1, <2>1 DEF Settles, Got, Without, B!CompletionState
  <2>5. session' \in [Sessions -> {"open", "paid", "acked"}]
    BY <1>1, <2>1
  <2> HIDE DEF t
  <2> QED BY <1>1, <2>1, <2>2, <2>3, <2>4, <2>5, FreeTyped, NoneIsNoBill,
             HandlerKeeps DEF B!TxId
<1>6. CASE B!Abort(h)
  BY <1>6, GiveUpKeeps DEF B!Abort
<1> QED BY <1>3, <1>4, <1>5, <1>6 DEF B!Writes

(* Recharges, expenses and their handlers touch no completion that a call  *)
(* is still waiting for.                                                   *)
LEMMA BackgroundKeeps ==
  ASSUME B!TypeOK, BillsAnswers, B!BackgroundStep
  PROVE  B!TypeOK' /\ BillsAnswers' /\ Settles
<1>1. CASE \E s \in Sessions : B!Pay(s)
  <2>1. PICK s \in Sessions : B!Pay(s)
    BY <1>1
  <2>2. B!TypeOK'
    BY <2>1 DEF B!TypeOK, B!Pay
  <2> QED BY <2>1, <2>2 DEF B!Pay, BillsAnswers, Settles, Got, Without
<1>2. CASE \E h \in Handlers, s \in Sessions : B!Deliver(h, s)
  <2>1. PICK h \in Handlers, s \in Sessions : B!Deliver(h, s)
    BY <1>2
  <2> DEFINE r == [pc |-> "started", txId |-> s]
  <2>2. /\ handler' = [handler EXCEPT ![h] = r]
        /\ UNCHANGED <<balance, ledger, session, completion>>
    BY <2>1 DEF B!Deliver
  <2>3. r \in B!Handler /\ r.pc # "idle" /\ r.txId # None /\ r.txId \notin Completions
    BY QueryAssumption DEF B!Handler, B!TxId, Completions
  <2>4. Settles
    BY <2>2 DEF Settles
  <2> HIDE DEF r
  <2> QED BY <2>2, <2>3, <2>4, HandlerKeeps DEF B!TypeOK
<1>3. CASE \E c \in Completions : B!RefuseExpense(c)
  <2>1. PICK c \in Completions : B!RefuseExpense(c)
    BY <1>3
  <2>2. B!TypeOK'
    BY <2>1 DEF B!TypeOK, B!RefuseExpense, B!CompletionState
  <2>3. /\ completion[c] = "answered" /\ completion'[c] = "unbooked"
        /\ \A d \in Completions : d # c => completion'[d] = completion[d]
    BY <2>1 DEF B!TypeOK, B!RefuseExpense
  <2>4. Settles
    BY <2>3 DEF Settles, Got, Without
  <2> QED BY <2>1, <2>2, <2>4 DEF B!RefuseExpense, BillsAnswers, Settles, Got, Without
<1>4. CASE \E h \in Handlers, c \in Completions : B!StartExpense(h, c)
  <2>1. PICK h \in Handlers, c \in Completions : B!StartExpense(h, c)
    BY <1>4
  <2> DEFINE r == [pc |-> "started", txId |-> c]
  <2>2. /\ handler' = [handler EXCEPT ![h] = r] /\ completion[c] = "answered"
        /\ completion' = [completion EXCEPT ![c] = "booking"]
        /\ UNCHANGED <<balance, ledger, session>>
    BY <2>1 DEF B!StartExpense
  <2>3. r \in B!Handler /\ r.pc # "idle" /\ r.txId # None /\ r.txId = c
    BY NoneIsNoBill DEF B!Handler, B!TxId
  <2>4. completion' \in [Completions -> B!CompletionState] /\ Settles /\ Got(c)'
    BY <2>2 DEF B!TypeOK, B!CompletionState, Settles, Got, Without
  <2> HIDE DEF r
  <2> QED BY <2>2, <2>3, <2>4, HandlerKeeps DEF B!TypeOK
<1>5. CASE \E h \in Handlers : B!Writes(h) \/ B!Abort(h)
  BY <1>5, WritesKeep
<1> QED BY <1>1, <1>2, <1>3, <1>4, <1>5 DEF B!BackgroundStep

(* A call's own completion is checked, answered or fails. *)
LEMMA CallKeeps ==
  ASSUME B!TypeOK, BillsAnswers, NEW c \in Completions,
         NEW s \in {"asked", "refused", "answered", "failed"},
         completion[c] \in {"idle", "asked"},
         completion' = [completion EXCEPT ![c] = s],
         UNCHANGED <<balance, ledger, session, handler>>
  PROVE  /\ B!TypeOK' /\ BillsAnswers'
         /\ completion'[c] = s
         /\ \A d \in Completions : d # c => completion'[d] = completion[d]
<1>1. B!TypeOK'
  BY DEF B!TypeOK, B!CompletionState
<1>2. /\ completion'[c] = s
      /\ \A d \in Completions : d # c => completion'[d] = completion[d]
  BY DEF B!TypeOK
<1>3. BillsAnswers'
  BY <1>2 DEF BillsAnswers, Got, Without
<1> QED BY <1>1, <1>2, <1>3

LEMMA RestartKeeps ==
  ASSUME B!TypeOK, BillsAnswers, B!Restart
  PROVE  /\ B!TypeOK' /\ BillsAnswers'
         /\ \A c \in Completions : /\ Got(c) => Got(c)'
                                   /\ completion[c] = "idle" => completion'[c] = "idle"
<1>1. /\ handler' = [h \in Handlers |-> B!Free] /\ session' = session
      /\ completion' = [c \in Completions |->
                      CASE completion[c] = "asked" -> "failed"
                        [] completion[c] \in {"answered", "booking"} -> "unbooked"
                        [] OTHER -> completion[c]]
      /\ UNCHANGED <<balance, ledger>>
  BY DEF B!Restart, B!SessionAfterError
<1>2. completion \in [Completions -> B!CompletionState]
  BY DEF B!TypeOK
<1>3. \A c \in Completions : /\ completion'[c] \in B!CompletionState
                             /\ Got(c) => Got(c)'
                             /\ completion[c] = "idle" => completion'[c] = "idle"
  BY <1>1, <1>2 DEF B!CompletionState, Got, Without
<1>4. completion' \in [Completions -> B!CompletionState]
  BY <1>1, <1>3
<1>5. B!TypeOK'
  BY <1>1, <1>4, FreeTyped DEF B!TypeOK
<1>6. BillsAnswers'
  BY <1>1, FreeTyped, NoneIsNoBill DEF BillsAnswers, B!TxId
<1> QED BY <1>3, <1>5, <1>6


----------------------------------------------------------------------------
(* Calls *)

LEMMA Own ==
  ASSUME NEW q \in Queries, NEW i \in 1 .. MaxRetry
  PROVE  /\ <<q, i>> \in Completions
         /\ \A p \in Queries, j \in 1 .. MaxRetry :
              p # q \/ j # i => <<p, j>> # <<q, i>>
BY DEF Completions

(* What IInv says of call q. *)
LEMMA Now ==
  ASSUME IInv, NEW q \in Queries
  PROVE  /\ B!TypeOK /\ BillsAnswers /\ TypeOK /\ QueryOK(q) /\ query[q] \in Query
         /\ query[q].attempt \in 1 .. MaxRetry /\ Completion(q) \in Completions
         /\ query[q].text \in Text /\ query[q].row \in Queries \cup {None}
         /\ query[q].pc # "returned" => query[q].row = None
<1>1. TypeOK /\ B!TypeOK /\ BillsAnswers /\ QueryOK(q) /\ query[q] \in Query
  BY DEF IInv, TypeOK
<1>2. query[q].attempt \in 1 .. MaxRetry /\ query[q].text \in Text
      /\ query[q].row \in Queries \cup {None}
  BY <1>1 DEF Query
<1>3. query[q].pc # "returned" => query[q].row = None
  BY <1>1 DEF QueryOK
<1> QED BY <1>1, <1>2, <1>3, Own DEF Completion

(* A step of call q moves its own completions only, and none backwards.    *)
MovesOwn(q) ==
  \A p \in Queries, i \in 1 .. MaxRetry :
    /\ p # q => completion'[<<p, i>>] = completion[<<p, i>>]
    /\ Got(<<p, i>>) => Got(<<p, i>>)'

LEMMA Frame ==
  ASSUME IInv, NEW q \in Queries, NEW c \in Query, Becomes(q, c),
         B!TypeOK', BillsAnswers', MovesOwn(q), llmCache' = llmCache,
         query[q].pc = "returned" =>
           c.pc = "returned" /\ c.valid = query[q].valid /\ c.text = query[q].text,
         QueryOK(q)'
  PROVE  IInv'
<1>1. TypeOK /\ CachedIsValid /\ \A o \in Queries : QueryOK(o)
  BY DEF IInv
<1>2. /\ query' \in [Queries -> Query] /\ query'[q] = c
      /\ \A o \in Queries : o # q => query'[o] = query[o]
  BY <1>1 DEF Becomes, TypeOK
<1>3. TypeOK'
  BY <1>1, <1>2 DEF TypeOK
<1>4. ASSUME NEW o \in Queries, o # q PROVE QueryOK(o)'
  <2>1. QueryOK(o) /\ query'[o] = query[o] /\ query[o].attempt \in 1 .. MaxRetry
    BY <1>1, <1>2, <1>4, Now
  <2>2. \A i \in 1 .. MaxRetry : /\ completion'[<<o, i>>] = completion[<<o, i>>]
                                 /\ Got(<<o, i>>) => Got(<<o, i>>)'
    BY <1>4 DEF MovesOwn
  <2>3. query[o].text # "empty" => /\ query[o].text \in {o} \X (1 .. MaxRetry)
                                   /\ completion'[query[o].text] \notin Without
    BY <2>1, <2>2 DEF QueryOK, Got
  <2>4. completion'[<<o, query[o].attempt>>] = completion[<<o, query[o].attempt>>]
    BY <2>1, <2>2
  <2> QED BY <2>1, <2>2, <2>3, <2>4 DEF QueryOK, Parses, Completion, Got
<1>5. CachedIsValid'
  <2>1. SUFFICES ASSUME NEW r \in DOMAIN llmCache
                 PROVE  LET w == llmCache[r][1]
                        IN  /\ query'[w].pc = "returned" /\ query'[w].valid
                            /\ query'[w].text = llmCache[r]
    BY DEF CachedIsValid
  <2> DEFINE w == llmCache[r][1]
  <2>2. w \in Queries /\ query[w].pc = "returned" /\ query[w].valid
        /\ query[w].text = llmCache[r]
    BY <1>1 DEF TypeOK, Completions, CachedIsValid
  <2>3. CASE w = q
    BY <1>2, <2>2, <2>3
  <2>4. CASE w # q
    BY <1>2, <2>2, <2>4
  <2> QED BY <2>3, <2>4
<1> QED BY <1>2, <1>3, <1>4, <1>5 DEF IInv

(* A step of the loop without a completion. *)
LEMMA QuietFrame ==
  ASSUME IInv, NEW q \in Queries, NEW c \in Query, Becomes(q, c),
         UNCHANGED <<billingVars, llmCache>>, query[q].pc # "returned",
         QueryOK(q)'
  PROVE  IInv'
<1>1. B!TypeOK' /\ BillsAnswers'
  BY Now DEF B!TypeOK, BillsAnswers, Got, billingVars
<1>2. MovesOwn(q)
  BY DEF MovesOwn, Got, billingVars
<1> QED BY <1>1, <1>2, Frame

LEMMA RetryFacts ==
  ASSUME NEW c \in Query
  PROVE  /\ Retry(c) \in Query
         /\ Retry(c).text = c.text /\ Retry(c).row = c.row
         /\ Retry(c).cache = c.cache /\ Retry(c).valid = c.valid
         /\ \/ /\ Retry(c).attempt = c.attempt + 1
               /\ Retry(c).pc = IF c.cache THEN "parsing" ELSE "asking"
            \/ Retry(c).attempt = c.attempt /\ Retry(c).pc = "thrown"
<1>1. CASE c.attempt < MaxRetry
  <2> DEFINE d == [c EXCEPT !.pc = IF c.cache THEN "parsing" ELSE "asking",
                            !.attempt = @ + 1]
  <2>1. Retry(c) = d
    BY <1>1 DEF Retry
  <2>2. c.attempt + 1 \in 1 .. MaxRetry
    BY <1>1, QueryAssumption DEF Query
  <2>3. d \in Query /\ d.text = c.text /\ d.row = c.row /\ d.cache = c.cache
        /\ d.valid = c.valid /\ d.attempt = c.attempt + 1
        /\ d.pc = IF c.cache THEN "parsing" ELSE "asking"
    BY <2>2 DEF Query
  <2> HIDE DEF d
  <2> QED BY <2>1, <2>3
<1>2. CASE ~(c.attempt < MaxRetry)
  BY <1>2 DEF Retry, Query
<1> QED BY <1>1, <1>2

(* The next attempt is a completion nobody has asked for yet. *)
LEMMA RetryKeeps ==
  ASSUME IInv, NEW q \in Queries, query[q].pc \in {"asking", "waiting", "parsing"},
         Becomes(q, Retry(query[q])), llmCache' = llmCache,
         B!TypeOK', BillsAnswers', MovesOwn(q),
         \A i \in 1 .. MaxRetry :
           i > query[q].attempt => completion'[<<q, i>>] = completion[<<q, i>>]
  PROVE  IInv'
<1>1. QueryOK(q) /\ query[q] \in Query /\ query[q].attempt \in 1 .. MaxRetry
      /\ query[q].row = None /\ TypeOK
  BY Now
<1>2. PICK c \in Query :
        /\ Becomes(q, c) /\ c.text = query[q].text /\ c.row = None
        /\ c.cache = query[q].cache
        /\ \/ /\ c.attempt = query[q].attempt + 1
              /\ c.pc = IF c.cache THEN "parsing" ELSE "asking"
           \/ c.attempt = query[q].attempt /\ c.pc = "thrown"
  BY <1>1, RetryFacts
<1>3. query'[q] = c
  BY <1>1, <1>2 DEF Becomes, TypeOK
<1>4. c.text # "empty" => /\ c.text \in {q} \X (1 .. MaxRetry)
                          /\ completion'[c.text] \notin Without
  BY <1>1, <1>2 DEF QueryOK, MovesOwn, Got
<1>5. \A i \in 1 .. MaxRetry : i > query[q].attempt => completion'[<<q, i>>] = "idle"
  BY <1>1 DEF QueryOK
<1>6. c.attempt \in 1 .. MaxRetry
  BY <1>2 DEF Query
<1>7. \A i \in 1 .. MaxRetry : i > c.attempt => completion'[<<q, i>>] = "idle"
  BY <1>1, <1>2, <1>5, <1>6
<1>8. c.pc = "asking" => completion'[<<q, c.attempt>>] = "idle"
  BY <1>1, <1>2, <1>5, <1>6
<1>9. c.cache => c.text = "empty"
  BY <1>1, <1>2 DEF QueryOK
<1>10. QueryOK(q)'
  BY <1>2, <1>3, <1>4, <1>7, <1>8, <1>9 DEF QueryOK, Completion, Got
<1> QED BY <1>2, <1>10, Frame

LEMMA BeginKeeps ==
  ASSUME IInv, NEW q \in Queries, Begin(q)
  PROVE  IInv'
<1>1. QueryOK(q) /\ query[q] \in Query /\ TypeOK /\ query[q].pc = "idle"
      /\ UNCHANGED <<billingVars, llmCache>> /\ query[q].row = None
  BY Now DEF Begin
<1>2. completion' = completion
  BY <1>1 DEF billingVars
<1>3. PICK c \in Query :
        /\ Becomes(q, c) /\ c.text = "empty" /\ c.attempt = query[q].attempt
        /\ c.row = None
        /\ \/ c.pc = "parsing" /\ c.cache
           \/ c.pc = "asking" /\ ~c.cache
  <2>1. query[q].text = "empty" /\ ~query[q].cache
    BY <1>1 DEF QueryOK
  <2>2. CASE query[q].kind = "query" /\ llmCache # <<>>
    <3> DEFINE d == [query[q] EXCEPT !.pc = "parsing", !.cache = TRUE]
    <3>1. Becomes(q, d)
      BY <2>2 DEF Begin
    <3>2. d \in Query /\ d.pc = "parsing" /\ d.cache /\ d.text = query[q].text
          /\ d.attempt = query[q].attempt /\ d.row = query[q].row
      BY <1>1 DEF Query
    <3> HIDE DEF d
    <3> QED BY <1>1, <2>1, <3>1, <3>2
  <2>3. CASE ~(query[q].kind = "query" /\ llmCache # <<>>)
    <3> DEFINE d == [query[q] EXCEPT !.pc = "asking"]
    <3>1. Becomes(q, d)
      BY <2>3 DEF Begin
    <3>2. d \in Query /\ d.pc = "asking" /\ d.cache = query[q].cache
          /\ d.text = query[q].text /\ d.attempt = query[q].attempt
          /\ d.row = query[q].row
      BY <1>1 DEF Query
    <3> HIDE DEF d
    <3> QED BY <1>1, <2>1, <3>1, <3>2
  <2> QED BY <2>2, <2>3
<1>4. query'[q] = c
  BY <1>1, <1>3 DEF Becomes, TypeOK
<1>5. QueryOK(q)'
  BY <1>1, <1>2, <1>3, <1>4 DEF QueryOK, Completion
<1> QED BY <1>1, <1>3, <1>5, QuietFrame

(* What the completion of the current attempt becomes. *)
LEMMA OwnMove ==
  ASSUME IInv, NEW q \in Queries, query[q].pc \in {"asking", "waiting"},
         NEW s \in {"asked", "refused", "answered", "failed"},
         completion' = [completion EXCEPT ![Completion(q)] = s],
         UNCHANGED <<balance, ledger, session, handler>>
  PROVE  /\ B!TypeOK' /\ BillsAnswers' /\ MovesOwn(q)
         /\ completion'[<<q, query[q].attempt>>] = s
         /\ \A i \in 1 .. MaxRetry :
              i > query[q].attempt => completion'[<<q, i>>] = completion[<<q, i>>]
<1> DEFINE a == query[q].attempt
<1>1. /\ B!TypeOK /\ BillsAnswers /\ a \in 1 .. MaxRetry
      /\ completion[<<q, a>>] \in {"idle", "asked"} /\ <<q, a>> \in Completions
  BY Now, Own DEF QueryOK, Completion
<1>2. completion' = [completion EXCEPT ![<<q, a>>] = s]
  BY DEF Completion
<1> HIDE DEF a
<1>3. /\ B!TypeOK' /\ BillsAnswers' /\ completion'[<<q, a>>] = s
      /\ \A d \in Completions : d # <<q, a>> => completion'[d] = completion[d]
  BY <1>1, <1>2, CallKeeps
<1>4. \A p \in Queries, i \in 1 .. MaxRetry :
        p # q \/ i # a => completion'[<<p, i>>] = completion[<<p, i>>]
  BY <1>1, <1>3, Own
<1>5. ~Got(<<q, a>>)
  BY <1>1 DEF Got, Without
<1>6. MovesOwn(q)
  BY <1>4, <1>5 DEF MovesOwn, Got
<1>7. \A i \in 1 .. MaxRetry : i > a => completion'[<<q, i>>] = completion[<<q, i>>]
  BY <1>1, <1>4
<1> QED BY <1>3, <1>6, <1>7 DEF a

LEMMA PcFacts ==
  ASSUME NEW c \in Query,
         NEW p \in {"asking", "waiting", "parsing", "writing", "returned", "thrown"}
  PROVE  LET d == [c EXCEPT !.pc = p]
         IN  /\ d \in Query /\ d.pc = p /\ d.kind = c.kind /\ d.attempt = c.attempt
             /\ d.cache = c.cache /\ d.valid = c.valid /\ d.text = c.text
             /\ d.row = c.row
BY DEF Query

LEMMA ThrowsKeeps ==
  ASSUME IInv, NEW q \in Queries, query[q].pc # "returned",
         Becomes(q, [query[q] EXCEPT !.pc = "thrown"]), llmCache' = llmCache,
         B!TypeOK', BillsAnswers', MovesOwn(q),
         \A i \in 1 .. MaxRetry :
           i > query[q].attempt => completion'[<<q, i>>] = completion[<<q, i>>]
  PROVE  IInv'
<1>1. QueryOK(q) /\ query[q] \in Query /\ query[q].row = None /\ TypeOK
  BY Now
<1>2. PICK c \in Query :
        /\ Becomes(q, c) /\ c.pc = "thrown" /\ c.attempt = query[q].attempt
        /\ c.cache = query[q].cache /\ c.text = query[q].text /\ c.row = None
  <2> DEFINE d == [query[q] EXCEPT !.pc = "thrown"]
  <2>1. d \in Query /\ d.pc = "thrown" /\ d.attempt = query[q].attempt
        /\ d.cache = query[q].cache /\ d.text = query[q].text /\ d.row = None
    BY <1>1, PcFacts
  <2>2. Becomes(q, d)
    OBVIOUS
  <2> HIDE DEF d
  <2> QED BY <2>1, <2>2
<1>3. query'[q] = c
  BY <1>1, <1>2 DEF Becomes, TypeOK
<1>4. c.text # "empty" => /\ c.text \in {q} \X (1 .. MaxRetry)
                          /\ completion'[c.text] \notin Without
  BY <1>1, <1>2 DEF QueryOK, MovesOwn, Got
<1>5. \A i \in 1 .. MaxRetry : i > c.attempt => completion'[<<q, i>>] = "idle"
  BY <1>1, <1>2 DEF QueryOK
<1>6. c.cache => c.text = "empty"
  BY <1>1, <1>2 DEF QueryOK
<1>7. QueryOK(q)'
  BY <1>2, <1>3, <1>4, <1>5, <1>6 DEF QueryOK, Got
<1> QED BY <1>2, <1>7, Frame

(* transactionsService.check() and the request, or a balance that refuses. *)
LEMMA AskKeeps ==
  ASSUME IInv, NEW q \in Queries, Ask(q)
  PROVE  IInv'
<1>1. /\ query[q].pc = "asking" /\ llmCache' = llmCache
      /\ completion' = [completion EXCEPT ![Completion(q)] =
                          IF balance > 0 THEN "asked" ELSE "refused"]
      /\ UNCHANGED <<balance, ledger, session, handler>>
  BY DEF Ask, B!Check
<1>2. CASE ~(balance > 0)
  <2>1. Becomes(q, [query[q] EXCEPT !.pc = "thrown"])
    BY <1>2 DEF Ask
  <2> QED BY <1>1, <1>2, <2>1, OwnMove, ThrowsKeeps
<1>3. CASE balance > 0
  <2>1. /\ B!TypeOK' /\ BillsAnswers' /\ MovesOwn(q)
        /\ completion'[<<q, query[q].attempt>>] = "asked"
        /\ \A i \in 1 .. MaxRetry :
             i > query[q].attempt => completion'[<<q, i>>] = completion[<<q, i>>]
    BY <1>1, <1>3, OwnMove
  <2>2. QueryOK(q) /\ query[q] \in Query /\ query[q].row = None /\ TypeOK
    BY <1>1, Now
  <2>3. PICK c \in Query :
          /\ Becomes(q, c) /\ c.pc = "waiting" /\ c.attempt = query[q].attempt
          /\ c.cache = query[q].cache /\ c.text = query[q].text /\ c.row = None
    <3> DEFINE d == [query[q] EXCEPT !.pc = "waiting"]
    <3>1. d \in Query /\ d.pc = "waiting" /\ d.attempt = query[q].attempt
          /\ d.cache = query[q].cache /\ d.text = query[q].text /\ d.row = None
      BY <2>2, PcFacts
    <3>2. Becomes(q, d)
      BY <1>3 DEF Ask
    <3> HIDE DEF d
    <3> QED BY <3>1, <3>2
  <2>4. query'[q] = c
    BY <2>2, <2>3 DEF Becomes, TypeOK
  <2>5. c.text # "empty" => /\ c.text \in {q} \X (1 .. MaxRetry)
                            /\ completion'[c.text] \notin Without
    BY <2>1, <2>2, <2>3 DEF QueryOK, MovesOwn, Got
  <2>6. \A i \in 1 .. MaxRetry : i > c.attempt => completion'[<<q, i>>] = "idle"
    BY <2>1, <2>2, <2>3 DEF QueryOK
  <2>7. ~c.cache
    BY <1>1, <2>2, <2>3 DEF QueryOK
  <2>8. completion'[<<q, c.attempt>>] = "asked"
    BY <2>1, <2>3
  <2>9. QueryOK(q)'
    BY <2>3, <2>4, <2>5, <2>6, <2>7, <2>8 DEF QueryOK, Completion, Got
  <2> QED BY <1>1, <2>1, <2>3, <2>9, Frame
<1> QED BY <1>2, <1>3

(* The tenant cannot be read, or the text does not parse. *)
LEMMA QuietRetryKeeps ==
  ASSUME IInv, NEW q \in Queries, CheckFails(q) \/ DoesNotParse(q)
  PROVE  IInv'
<1>1. /\ query[q].pc \in {"asking", "parsing"} /\ Becomes(q, Retry(query[q]))
      /\ UNCHANGED <<billingVars, llmCache>>
  BY DEF CheckFails, DoesNotParse
<1>2. B!TypeOK' /\ BillsAnswers' /\ MovesOwn(q) /\ completion' = completion
  BY <1>1, Now DEF B!TypeOK, BillsAnswers, Got, billingVars, MovesOwn
<1> QED BY <1>1, <1>2, RetryKeeps

LEMMA UnansweredKeeps ==
  ASSUME IInv, NEW q \in Queries, Unanswered(q)
  PROVE  IInv'
<1>1. /\ query[q].pc = "waiting" /\ llmCache' = llmCache
      /\ completion' = [completion EXCEPT ![Completion(q)] = "failed"]
      /\ UNCHANGED <<balance, ledger, session, handler>>
      /\ Becomes(q, Retry(query[q]))
  BY DEF Unanswered, B!AnswerFails
<1> QED BY <1>1, OwnMove, RetryKeeps

(* The text parsed next is that of the completion just answered. *)
LEMMA AnsweredKeeps ==
  ASSUME IInv, NEW q \in Queries, Answered(q)
  PROVE  IInv'
<1>1. /\ query[q].pc = "waiting" /\ llmCache' = llmCache
      /\ completion' = [completion EXCEPT ![Completion(q)] = "answered"]
      /\ UNCHANGED <<balance, ledger, session, handler>>
  BY DEF Answered, B!Answer
<1>2. /\ B!TypeOK' /\ BillsAnswers' /\ MovesOwn(q)
      /\ completion'[<<q, query[q].attempt>>] = "answered"
      /\ \A i \in 1 .. MaxRetry :
           i > query[q].attempt => completion'[<<q, i>>] = completion[<<q, i>>]
  BY <1>1, OwnMove
<1>3. /\ QueryOK(q) /\ query[q] \in Query /\ query[q].row = None /\ TypeOK
      /\ query[q].attempt \in 1 .. MaxRetry
  BY <1>1, Now
<1>4. CASE Becomes(q, [query[q] EXCEPT !.pc = "thrown"])
  BY <1>1, <1>2, <1>4, ThrowsKeeps
<1>5. CASE Becomes(q, [query[q] EXCEPT !.pc = "parsing", !.text = Completion(q)])
  <2>1. PICK c \in Query :
          /\ Becomes(q, c) /\ c.pc = "parsing" /\ c.attempt = query[q].attempt
          /\ c.cache = query[q].cache /\ c.text = <<q, query[q].attempt>>
          /\ c.row = None
    <3> DEFINE d == [query[q] EXCEPT !.pc = "parsing", !.text = Completion(q)]
    <3>1. Completion(q) \in Text /\ Completion(q) = <<q, query[q].attempt>>
      BY Now DEF Text, Completion
    <3>2. d \in Query /\ d.pc = "parsing" /\ d.attempt = query[q].attempt
          /\ d.cache = query[q].cache /\ d.text = Completion(q) /\ d.row = None
      BY <1>3, <3>1 DEF Query
    <3>3. Becomes(q, d)
      BY <1>5
    <3> HIDE DEF d
    <3> QED BY <3>1, <3>2, <3>3
  <2>2. query'[q] = c
    BY <1>3, <2>1 DEF Becomes, TypeOK
  <2>3. c.text \in {q} \X (1 .. MaxRetry) /\ completion'[c.text] \notin Without
    BY <1>2, <1>3, <2>1 DEF Without
  <2>4. \A i \in 1 .. MaxRetry : i > c.attempt => completion'[<<q, i>>] = "idle"
    BY <1>2, <1>3, <2>1 DEF QueryOK
  <2>5. ~c.cache /\ c.text # "empty"
    BY <1>1, <1>3, <2>1, <2>3, QueryAssumption DEF QueryOK
  <2>6. QueryOK(q)'
    BY <2>1, <2>2, <2>3, <2>4, <2>5 DEF QueryOK, Got
  <2> QED BY <1>1, <1>2, <2>1, <2>6, Frame
<1> QED BY <1>4, <1>5 DEF Answered

LEMMA RefusedKeeps ==
  ASSUME IInv, NEW q \in Queries, Refused(q)
  PROVE  IInv'
<1>1. /\ query[q].pc = "parsing" /\ Becomes(q, [query[q] EXCEPT !.pc = "thrown"])
      /\ UNCHANGED <<billingVars, llmCache>>
  BY DEF Refused
<1>2. B!TypeOK' /\ BillsAnswers' /\ MovesOwn(q) /\ completion' = completion
  BY <1>1, Now DEF B!TypeOK, BillsAnswers, Got, billingVars, MovesOwn
<1> QED BY <1>1, <1>2, ThrowsKeeps

(* Only a text that parses gets here, and only that of a miss is stored.   *)
LEMMA ValidKeeps ==
  ASSUME IInv, NEW q \in Queries, Valid(q)
  PROVE  IInv'
<1>1. /\ query[q].pc = "parsing" /\ Parses(q) /\ Becomes(q, AfterValid(q))
      /\ UNCHANGED <<billingVars, llmCache>>
  BY DEF Valid
<1>2. QueryOK(q) /\ query[q] \in Query /\ query[q].row = None /\ TypeOK
  BY <1>1, Now
<1>3. PICK c \in Query :
        /\ Becomes(q, c) /\ c.attempt = query[q].attempt /\ c.valid
        /\ c.cache = query[q].cache /\ c.text = query[q].text /\ c.row = None
        /\ c.pc = "returned" \/ (c.pc = "writing" /\ ~c.cache)
  <2>1. AfterValid(q) \in Query
    BY <1>2 DEF AfterValid, Query
  <2>2. /\ AfterValid(q).attempt = query[q].attempt /\ AfterValid(q).valid
        /\ AfterValid(q).cache = query[q].cache /\ AfterValid(q).text = query[q].text
        /\ AfterValid(q).row = None
        /\ \/ AfterValid(q).pc = "returned"
           \/ AfterValid(q).pc = "writing" /\ ~query[q].cache
    BY <1>2 DEF AfterValid, Query
  <2> QED BY <1>1, <2>1, <2>2
<1>4. query'[q] = c /\ completion' = completion
  BY <1>1, <1>2, <1>3 DEF Becomes, TypeOK, billingVars
<1>5. c.text # "empty" \/ q \notin Schemas
  BY <1>1, <1>3 DEF Parses
<1>6. /\ c.text # "empty" => /\ c.text \in {q} \X (1 .. MaxRetry)
                             /\ completion'[c.text] \notin Without
      /\ \A i \in 1 .. MaxRetry : i > c.attempt => completion'[<<q, i>>] = "idle"
      /\ c.cache => c.text = "empty"
      /\ ~c.cache => c.text # "empty"
  BY <1>1, <1>2, <1>3, <1>4 DEF QueryOK, Got
<1>7. QueryOK(q)'
  BY <1>3, <1>4, <1>5, <1>6 DEF QueryOK, Got, Parses
<1> QED BY <1>1, <1>3, <1>7, QuietFrame

(* The row is written, updating one committed since or creating one.       *)
LEMMA WriteKeeps ==
  ASSUME IInv, NEW q \in Queries, Write(q)
  PROVE  IInv'
<1>1. /\ query[q].pc = "writing" /\ query[q].text \in Completions
      /\ UNCHANGED <<billingVars, llmCache>>
  BY DEF Write, MayWrite
<1>2. PICK r \in Row(q) :
        Becomes(q, [query[q] EXCEPT !.pc = "returned", !.row = r])
  BY DEF Write
<1>3. QueryOK(q) /\ query[q] \in Query /\ TypeOK
  BY Now
<1>4. r \in Queries
  BY <1>3 DEF Row, TypeOK
<1>5. PICK c \in Query :
        /\ Becomes(q, c) /\ c.attempt = query[q].attempt /\ c.valid = query[q].valid
        /\ c.cache = query[q].cache /\ c.text = query[q].text
        /\ c.pc = "returned" /\ c.row = r
  <2> DEFINE d == [query[q] EXCEPT !.pc = "returned", !.row = r]
  <2>1. /\ d \in Query /\ d.attempt = query[q].attempt /\ d.valid = query[q].valid
        /\ d.cache = query[q].cache /\ d.text = query[q].text
        /\ d.pc = "returned" /\ d.row = r
    BY <1>3, <1>4 DEF Query
  <2>2. Becomes(q, d)
    BY <1>2
  <2> HIDE DEF d
  <2> QED BY <2>1, <2>2
<1>6. query'[q] = c /\ completion' = completion
  BY <1>1, <1>3, <1>5 DEF Becomes, TypeOK, billingVars
<1>7. /\ c.text # "empty" /\ c.text \in {q} \X (1 .. MaxRetry)
      /\ completion'[c.text] \notin Without
      /\ \A i \in 1 .. MaxRetry : i > c.attempt => completion'[<<q, i>>] = "idle"
      /\ ~c.cache /\ c.valid
  BY <1>1, <1>3, <1>5, <1>6 DEF QueryOK, Got
<1>8. QueryOK(q)'
  BY <1>5, <1>6, <1>7 DEF QueryOK, Got, Parses
<1> QED BY <1>1, <1>5, <1>8, QuietFrame

(* The end of the caller's transaction. *)
LEMMA CallerFacts ==
  ASSUME IInv, NEW q \in Queries, query[q].pc = "returned",
         Becomes(q, [query[q] EXCEPT !.row = None]), billingVars' = billingVars
  PROVE  \E c \in Query :
           /\ Becomes(q, c) /\ query'[q] = c /\ QueryOK(q)'
           /\ c.pc = "returned" /\ c.valid = query[q].valid /\ c.text = query[q].text
<1>1. QueryOK(q) /\ query[q] \in Query /\ TypeOK
  BY Now
<1> DEFINE d == [query[q] EXCEPT !.row = None]
<1>2. /\ d \in Query /\ d.attempt = query[q].attempt /\ d.valid = query[q].valid
      /\ d.cache = query[q].cache /\ d.text = query[q].text
      /\ d.pc = "returned" /\ d.row = None
  BY <1>1 DEF Query
<1>3. Becomes(q, d)
  OBVIOUS
<1> HIDE DEF d
<1>4. PICK c \in Query : c = d
  BY <1>2
<1>5. query'[q] = c /\ completion' = completion
  BY <1>1, <1>3, <1>4 DEF Becomes, TypeOK, billingVars
<1>6. QueryOK(q)'
  BY <1>1, <1>2, <1>4, <1>5 DEF QueryOK, Got, Parses
<1> QED BY <1>2, <1>3, <1>4, <1>5, <1>6

LEMMA RollsBackKeeps ==
  ASSUME IInv, NEW q \in Queries, CallerRollsBack(q)
  PROVE  IInv'
<1>1. /\ query[q].pc = "returned" /\ Becomes(q, [query[q] EXCEPT !.row = None])
      /\ billingVars' = billingVars /\ llmCache' = llmCache
  BY DEF CallerRollsBack
<1>2. B!TypeOK' /\ BillsAnswers' /\ MovesOwn(q)
  BY <1>1, Now DEF B!TypeOK, BillsAnswers, Got, billingVars, MovesOwn
<1> QED BY <1>1, <1>2, CallerFacts, Frame

LEMMA CommitsKeeps ==
  ASSUME IInv, NEW q \in Queries, CallerCommits(q)
  PROVE  IInv'
<1>1. /\ query[q].pc = "returned" /\ query[q].row # None
      /\ Becomes(q, [query[q] EXCEPT !.row = None]) /\ billingVars' = billingVars
      /\ llmCache' = [r \in DOMAIN llmCache \cup {query[q].row} |->
                        IF r = query[q].row THEN query[q].text ELSE llmCache[r]]
  BY DEF CallerCommits
<1>2. /\ TypeOK /\ CachedIsValid /\ QueryOK(q) /\ query[q].row \in Queries
      /\ B!TypeOK /\ BillsAnswers /\ \A o \in Queries : QueryOK(o)
  BY <1>1, Now DEF IInv
<1>3. PICK c \in Query :
        /\ Becomes(q, c) /\ query'[q] = c /\ QueryOK(q)'
        /\ c.pc = "returned" /\ c.valid = query[q].valid /\ c.text = query[q].text
  BY <1>1, CallerFacts
<1>4. /\ query' \in [Queries -> Query]
      /\ \A o \in Queries : o # q => query'[o] = query[o]
  BY <1>2, <1>3 DEF Becomes, TypeOK
<1>5. B!TypeOK' /\ BillsAnswers' /\ completion' = completion
  BY <1>1, <1>2 DEF B!TypeOK, BillsAnswers, Got, billingVars
<1>6. ASSUME NEW o \in Queries, o # q PROVE QueryOK(o)'
  BY <1>2, <1>4, <1>5, <1>6 DEF QueryOK, Got, Parses, Completion
<1>7. query[q].text \in {q} \X (1 .. MaxRetry) /\ query[q].valid
  BY <1>1, <1>2 DEF QueryOK
<1>8. \A r \in DOMAIN llmCache' :
        \/ llmCache'[r] = query[q].text
        \/ r \in DOMAIN llmCache /\ llmCache'[r] = llmCache[r]
  <2> DEFINE D == DOMAIN llmCache \cup {query[q].row}
  <2>1. DOMAIN llmCache' = D
    BY <1>1
  <2>2. ASSUME NEW r \in D
        PROVE  llmCache'[r] = IF r = query[q].row THEN query[q].text ELSE llmCache[r]
    BY <1>1, <2>2
  <2> TAKE r \in DOMAIN llmCache'
  <2>3. r \in D /\ (r # query[q].row => r \in DOMAIN llmCache)
    BY <2>1
  <2>4. CASE r = query[q].row
    BY <2>2, <2>3, <2>4
  <2>5. CASE r # query[q].row
    BY <2>2, <2>3, <2>5
  <2> QED BY <2>4, <2>5
<1>9. TypeOK'
  <2>1. DOMAIN llmCache' \subseteq Queries
    BY <1>1, <1>2 DEF TypeOK
  <2>2. \A r \in DOMAIN llmCache' : llmCache'[r] \in Completions
    BY <1>2, <1>7, <1>8 DEF TypeOK, Completions
  <2> QED BY <1>4, <1>5, <2>1, <2>2 DEF TypeOK
<1>10. CachedIsValid'
  <2>1. SUFFICES ASSUME NEW r \in DOMAIN llmCache',
                        NEW t, t = llmCache'[r], NEW w, w = t[1]
                 PROVE  query'[w].pc = "returned" /\ query'[w].valid /\ query'[w].text = t
    BY DEF CachedIsValid
  <2>2. CASE t = query[q].text
    <3>1. w = q
      BY <1>7, <2>1, <2>2
    <3> QED BY <1>1, <1>3, <1>7, <2>2, <3>1
  <2>3. CASE r \in DOMAIN llmCache /\ t = llmCache[r]
    <3>1. /\ w \in Queries /\ query[w].pc = "returned" /\ query[w].valid
          /\ query[w].text = t
      BY <1>2, <2>1, <2>3 DEF CachedIsValid, TypeOK, Completions
    <3> QED BY <1>3, <1>4, <3>1
  <2> QED BY <1>8, <2>1, <2>2, <2>3
<1> QED BY <1>2, <1>3, <1>5, <1>6, <1>9, <1>10 DEF IInv

LEMMA RestartsKeep ==
  ASSUME IInv, Restart
  PROVE  IInv'
<1>1. /\ TypeOK /\ CachedIsValid /\ B!TypeOK /\ BillsAnswers
      /\ \A o \in Queries : QueryOK(o)
  BY DEF IInv, TypeOK
<1>2. /\ B!TypeOK' /\ BillsAnswers' /\ llmCache' = llmCache
      /\ \A c \in Completions : /\ Got(c) => Got(c)'
                                /\ completion[c] = "idle" => completion'[c] = "idle"
  BY <1>1, RestartKeeps DEF Restart
<1>3. \A o \in Queries :
        /\ query'[o] \in Query /\ query'[o].row = None
        /\ query'[o].pc = IF query[o].pc \in {"idle", "returned"} THEN query[o].pc
                          ELSE "thrown"
        /\ query'[o].attempt = query[o].attempt /\ query'[o].cache = query[o].cache
        /\ query'[o].valid = query[o].valid /\ query'[o].text = query[o].text
  <2>1. ASSUME NEW o \in Queries
        PROVE  query'[o] = [query[o] EXCEPT
                              !.pc = IF @ \in {"idle", "returned"} THEN @ ELSE "thrown",
                              !.row = None]
    BY DEF Restart
  <2>2. \A o \in Queries : query[o] \in Query
    BY <1>1 DEF TypeOK
  <2>3. ASSUME NEW c \in Query, NEW p \in {"idle", "returned", "thrown"}
        PROVE  LET d == [c EXCEPT !.pc = p, !.row = None]
               IN  /\ d \in Query /\ d.row = None /\ d.pc = p
                   /\ d.attempt = c.attempt /\ d.cache = c.cache
                   /\ d.valid = c.valid /\ d.text = c.text
    BY DEF Query
  <2> TAKE o \in Queries
  <2>4. PICK p \in {"idle", "returned", "thrown"} :
          /\ p = IF query[o].pc \in {"idle", "returned"} THEN query[o].pc ELSE "thrown"
          /\ query'[o] = [query[o] EXCEPT !.pc = p, !.row = None]
    BY <2>1
  <2>5. PICK c \in Query : c = query[o]
    BY <2>2
  <2>6. LET d == [c EXCEPT !.pc = p, !.row = None]
        IN  /\ d \in Query /\ d.row = None /\ d.pc = p
            /\ d.attempt = c.attempt /\ d.cache = c.cache
            /\ d.valid = c.valid /\ d.text = c.text
    BY <2>3
  <2> QED BY <2>4, <2>5, <2>6
<1>4. query' \in [Queries -> Query]
  <2>1. query' = [o \in Queries |-> query'[o]]
    BY DEF Restart
  <2> QED BY <1>3, <2>1
<1>5. ASSUME NEW o \in Queries PROVE QueryOK(o)'
  <2>1. QueryOK(o) /\ query[o].attempt \in 1 .. MaxRetry
    BY Now
  <2>2. query[o].text # "empty" => /\ query[o].text \in {o} \X (1 .. MaxRetry)
                                   /\ completion'[query[o].text] \notin Without
    BY <1>2, <2>1 DEF QueryOK, Got, Completions
  <2>3. /\ \A i \in 1 .. MaxRetry : completion[<<o, i>>] = "idle"
                                      => completion'[<<o, i>>] = "idle"
    BY <1>2, Own
  <2>4. /\ \A i \in 1 .. MaxRetry : i > query[o].attempt => completion'[<<o, i>>] = "idle"
        /\ query[o].pc = "idle" => completion'[<<o, query[o].attempt>>] = "idle"
    BY <2>1, <2>3 DEF QueryOK, Completion
  <2>5. /\ query[o].cache \/ query[o].pc = "idle" => query[o].text = "empty"
        /\ query[o].pc = "idle" => ~query[o].cache
        /\ query[o].pc = "returned" =>
             query[o].valid /\ (query[o].text # "empty" \/ o \notin Schemas)
    BY <2>1 DEF QueryOK, Parses
  <2> QED BY <1>3, <2>2, <2>4, <2>5 DEF QueryOK, Got, Parses, Completion
<1>6. CachedIsValid'
  <2>1. \A r \in DOMAIN llmCache : llmCache[r][1] \in Queries
    BY <1>1 DEF TypeOK, Completions
  <2> QED BY <1>1, <1>2, <1>3, <2>1 DEF CachedIsValid
<1>7. TypeOK'
  BY <1>1, <1>2, <1>4 DEF TypeOK
<1> QED BY <1>2, <1>5, <1>6, <1>7 DEF IInv

(* Steps of Billing alone, or none. *)
LEMMA OthersKeep ==
  ASSUME IInv, UNCHANGED <<query, llmCache>>,
         B!BackgroundStep \/ UNCHANGED billingVars
  PROVE  IInv'
<1>1. /\ TypeOK /\ CachedIsValid /\ B!TypeOK /\ BillsAnswers
      /\ \A o \in Queries : QueryOK(o)
  BY DEF IInv, TypeOK
<1>2. B!TypeOK' /\ BillsAnswers' /\ Settles
  <2>1. CASE B!BackgroundStep
    BY <1>1, <2>1, BackgroundKeeps
  <2>2. CASE UNCHANGED billingVars
    BY <1>1, <2>2 DEF B!TypeOK, BillsAnswers, Got, Settles, billingVars
  <2> QED BY <2>1, <2>2
<1>3. \A c \in Completions :
        /\ Got(c) => completion'[c] \notin Without
        /\ completion[c] \in {"idle", "asked"} => completion'[c] = completion[c]
  BY <1>2 DEF Settles, Got, Without
<1>4. ASSUME NEW o \in Queries PROVE QueryOK(o)'
  <2>1. QueryOK(o) /\ query[o].attempt \in 1 .. MaxRetry
    BY Now
  <2>2. query[o].text # "empty" => /\ query[o].text \in {o} \X (1 .. MaxRetry)
                                   /\ completion'[query[o].text] \notin Without
    BY <1>3, <2>1 DEF QueryOK, Completions
  <2>3. \A i \in 1 .. MaxRetry : completion[<<o, i>>] \in {"idle", "asked"}
                                   => completion'[<<o, i>>] = completion[<<o, i>>]
    BY <1>3, Own
  <2> QED BY <2>1, <2>2, <2>3 DEF QueryOK, Got, Parses, Completion
<1>5. TypeOK' /\ CachedIsValid'
  BY <1>1, <1>2 DEF TypeOK, CachedIsValid
<1> QED BY <1>2, <1>4, <1>5 DEF IInv

----------------------------------------------------------------------------
(* The theorems *)

LEMMA InvInit == Init => IInv
<1> SUFFICES ASSUME Init PROVE IInv
  OBVIOUS
<1>1. /\ handler = [h \in Handlers |-> B!Free]
      /\ completion = [c \in Completions |-> "idle"]
      /\ balance = Initial /\ ledger = {}
      /\ session = [s \in Sessions |-> "open"] /\ llmCache = <<>>
  BY DEF Init, B!BillingInit
<1>2. \A q \in Queries :
        /\ query[q] \in Query /\ query[q].pc = "idle" /\ query[q].text = "empty"
        /\ query[q].row = None /\ ~query[q].cache /\ query[q].attempt \in 1 .. MaxRetry
  BY QueryAssumption DEF Init, Query, Text
<1>3. query \in [Queries -> Query]
  <2>1. PICK kind \in [Queries -> {"query", "chat"}] :
          query = [q \in Queries |->
                     [kind |-> kind[q], pc |-> "idle", attempt |-> 1, cache |-> FALSE,
                      valid |-> FALSE, text |-> "empty", row |-> None]]
    BY DEF Init
  <2> QED BY <1>2, <2>1
<1>4. B!TypeOK
  BY <1>1, FreeTyped, QueryAssumption DEF B!TypeOK, B!CompletionState
<1>5. BillsAnswers
  BY <1>1, FreeTyped, NoneIsNoBill DEF BillsAnswers, B!TxId
<1>6. \A q \in Queries : QueryOK(q)
  BY <1>1, <1>2, Own DEF QueryOK, Completion
<1>7. DOMAIN llmCache = {}
  BY <1>1
<1> QED BY <1>3, <1>4, <1>5, <1>6, <1>7 DEF IInv, TypeOK, CachedIsValid

LEMMA InvStep == IInv /\ [Next]_vars => IInv'
<1> SUFFICES ASSUME IInv, [Next]_vars PROVE IInv'
  OBVIOUS
<1>1. ASSUME NEW q \in Queries, QueryStep(q) PROVE IInv'
  <2>1. CASE Begin(q) \/ Ask(q) \/ CheckFails(q) \/ DoesNotParse(q)
    BY <2>1, BeginKeeps, AskKeeps, QuietRetryKeeps
  <2>2. CASE Answered(q) \/ Unanswered(q) \/ Valid(q) \/ Refused(q) \/ Write(q)
    BY <2>2, AnsweredKeeps, UnansweredKeeps, ValidKeeps, RefusedKeeps, WriteKeeps
  <2> QED BY <1>1, <2>1, <2>2 DEF QueryStep
<1>2. ASSUME NEW q \in Queries, CallerCommits(q) \/ CallerRollsBack(q) PROVE IInv'
  BY <1>2, CommitsKeeps, RollsBackKeeps
<1>3. CASE B!BackgroundStep /\ UNCHANGED <<query, llmCache>>
  BY <1>3, OthersKeep
<1>4. CASE Restart
  BY <1>4, RestartsKeep
<1>5. CASE UNCHANGED vars
  BY <1>5, OthersKeep DEF vars
<1> QED BY <1>1, <1>2, <1>3, <1>4, <1>5 DEF Next

(* The invariant of query() and chat(): what a call holds at each stage,   *)
(* whatever the other calls, the bills and the restarts do meanwhile.      *)
THEOREM Invariance == Spec => []IInv
BY InvInit, InvStep, PTL DEF Spec

(* Calls, cache rows and the state of Billing keep their types; so attempt *)
(* never passes the third completion that maxRetry allows.                 *)
THEOREM TypeCorrect == Spec => []TypeOK
<1>1. IInv => TypeOK
  BY DEF IInv
<1> QED BY Invariance, <1>1, PTL

(* _parseResultSchema() never gives a caller a structured answer from any  *)
(* text but that of a completion requested and answered for this call.     *)
THEOREM ReturnsOwnAnswerHolds == Spec => []ReturnsOwnAnswer
<1>1. IInv => ReturnsOwnAnswer
  BY QueryAssumption DEF IInv, QueryOK, ReturnsOwnAnswer, Parses, Got, Without
<1> QED BY Invariance, <1>1, PTL

(* _llmCache() is reached with a text that was parsed and validated, and   *)
(* rollbacks of the callers leave rows of such texts only.                 *)
THEOREM CachedIsValidHolds == Spec => []CachedIsValid
<1>1. IInv => CachedIsValid
  BY DEF IInv
<1> QED BY Invariance, <1>1, PTL

(* A step of a call is one of Billing, on a completion of its own, or none. *)
LEMMA BilledStep == IInv /\ [Next]_vars => [B!BillingNext]_(B!billingVars)
<1> SUFFICES ASSUME IInv, [Next]_vars PROVE [B!BillingNext]_(B!billingVars)
  OBVIOUS
<1> DEFINE Same == UNCHANGED billingVars
<1>1. ASSUME Same PROVE UNCHANGED B!billingVars
  BY <1>1 DEF billingVars, B!billingVars
<1>2. ASSUME NEW q \in Queries,
             QueryStep(q) \/ CallerCommits(q) \/ CallerRollsBack(q)
      PROVE  Same \/ B!BillingNext
  <2>1. Completion(q) \in Completions
    BY Now
  <2>2. CASE Ask(q)
    BY <2>1, <2>2 DEF Ask, B!BillingNext
  <2>3. CASE Answered(q)
    BY <2>1, <2>3 DEF Answered, B!BillingNext
  <2>4. CASE Unanswered(q)
    BY <2>1, <2>4 DEF Unanswered, B!BillingNext
  <2>5. CASE \/ Begin(q) \/ CheckFails(q) \/ Valid(q) \/ Refused(q)
             \/ DoesNotParse(q) \/ Write(q) \/ CallerCommits(q) \/ CallerRollsBack(q)
    BY <2>5 DEF Begin, CheckFails, Valid, Refused, DoesNotParse, Write,
                CallerCommits, CallerRollsBack
  <2> QED BY <1>2, <2>2, <2>3, <2>4, <2>5 DEF QueryStep
<1>3. CASE B!BackgroundStep \/ Restart
  BY <1>3 DEF Restart, B!BillingNext
<1>4. ASSUME UNCHANGED vars PROVE Same
  BY <1>4 DEF vars
<1> QED BY <1>1, <1>2, <1>3, <1>4 DEF Next

(* Refinement: the completions of the calls of query() and chat(), their   *)
(* retries included, are checked, answered and billed as Billing has it.   *)
THEOREM BilledHolds == Spec => Billed
<1>1. Init => B!BillingInit
  BY DEF Init
<1>2. IInv /\ [Next]_vars => [B!BillingNext]_(B!billingVars)
  BY BilledStep
<1> QED BY <1>1, <1>2, Invariance, PTL DEF Spec, Billed, B!Spec

----------------------------------------------------------------------------
(* Sequences of messages.  FlattenSeq is a recursive function; that its    *)
(* value is a sequence is shown for the first index where it would not be. *)

LEMMA Least ==
  ASSUME NEW T, T \subseteq Nat, T # {}
  PROVE  \E m \in T : \A n \in T : ~ n < m
<1> DEFINE R == {ss \in Nat \X Nat : ss[1] < ss[2]}
<1>1. IsWellFoundedOn(R, Nat)
  BY NatLessThanWellFounded DEF OpToRel
<1>2. \A m, n \in Nat : n < m => <<n, m>> \in R
  OBVIOUS
<1> HIDE DEF R
<1>3. \E m \in T : \A n \in T : <<n, m>> \notin R
  BY <1>1, WFMin
<1> QED BY <1>2, <1>3

(* f[i] is the concatenation of the first i sequences of ss. *)
Flattens(f, ss, n) ==
  f = [i \in 1 .. n |-> IF i = 1 THEN ss[i] ELSE f[i - 1] \o ss[i]]

LEMMA FlattenUnfolds ==
  \A ss : Len(ss) # 0 =>
    FlattenSeq(ss) = (CHOOSE f : Flattens(f, ss, Len(ss)))[Len(ss)]
BY DEF FlattenSeq, Flattens

LEMMA FlattensExists ==
  ASSUME NEW ss, NEW n \in Nat
  PROVE  \E f : Flattens(f, ss, n)
<1> DEFINE Bad == {m \in Nat : ~ \E f : Flattens(f, ss, m)}
<1>1. ASSUME Bad # {} PROVE FALSE
  <2>1. PICK m \in Bad : \A k \in Bad : ~ k < m
    <3>1. Bad \subseteq Nat
      OBVIOUS
    <3> HIDE DEF Bad
    <3> QED BY <1>1, <3>1, Least
  <2>2. m # 0
    <3>1. Flattens(<<>>, ss, 0)
      BY DEF Flattens
    <3> QED BY <3>1
  <2>3. m \in Nat /\ m - 1 \in Nat /\ m - 1 < m
    BY <2>2
  <2>4. PICK f : Flattens(f, ss, m - 1)
    BY <2>1, <2>3
  <2> DEFINE g == [i \in 1 .. m |-> IF i = m
                                    THEN IF i = 1 THEN ss[i] ELSE f[i - 1] \o ss[i]
                                    ELSE f[i]]
  <2>5. ASSUME NEW i \in 1 .. m
        PROVE  g[i] = IF i = 1 THEN ss[i] ELSE g[i - 1] \o ss[i]
    <3>1. CASE i = m
      <4>1. i # 1 => g[i - 1] = f[i - 1]
        BY <3>1, <2>3
      <4> QED BY <3>1, <4>1
    <3>2. CASE i # m
      <4>1. i \in 1 .. m - 1 /\ g[i] = f[i]
        BY <2>3, <3>2
      <4>2. f[i] = IF i = 1 THEN ss[i] ELSE f[i - 1] \o ss[i]
        BY <2>4, <4>1 DEF Flattens
      <4>3. i # 1 => i - 1 \in 1 .. m /\ i - 1 # m
        BY <2>3, <3>2
      <4> QED BY <4>1, <4>2, <4>3
    <3> QED BY <3>1, <3>2
  <2>6. g = [i \in 1 .. m |-> g[i]]
    OBVIOUS
  <2> HIDE DEF g
  <2>7. Flattens(g, ss, m)
    BY <2>5, <2>6 DEF Flattens
  <2> QED BY <2>7
<1> QED BY <1>1

LEMMA FlattenTyped ==
  ASSUME NEW S, NEW ss \in Seq(Seq(S))
  PROVE  FlattenSeq(ss) \in Seq(S)
<1>1. CASE Len(ss) = 0
  BY <1>1, EmptySeq DEF FlattenSeq
<1>2. CASE Len(ss) # 0
  <2> DEFINE n == Len(ss)
             f == CHOOSE g : Flattens(g, ss, n)
  <2>1. n \in Nat \ {0} /\ \A i \in 1 .. n : ss[i] \in Seq(S)
    BY <1>2
  <2>2. Flattens(f, ss, n)
    BY <2>1, FlattensExists
  <2>3. FlattenSeq(ss) = f[n]
    BY <1>2, FlattenUnfolds
  <2> HIDE DEF n, f
  <2> DEFINE Bad == {i \in 1 .. n : f[i] \notin Seq(S)}
  <2>4. ASSUME Bad # {} PROVE FALSE
    <3>1. PICK m \in Bad : \A k \in Bad : ~ k < m
      <4>1. Bad \subseteq Nat
        BY <2>1
      <4> HIDE DEF Bad
      <4> QED BY <2>4, <4>1, Least
    <3>2. f[m] = IF m = 1 THEN ss[m] ELSE f[m - 1] \o ss[m]
      BY <2>2 DEF Flattens
    <3>3. m # 1
      BY <2>1, <3>2
    <3>4. m - 1 \in 1 .. n /\ m - 1 < m
      BY <2>1, <3>3
    <3>5. f[m - 1] \in Seq(S)
      BY <3>1, <3>4
    <3>6. ss[m] \in Seq(S)
      BY <2>1
    <3>7. f[m - 1] \o ss[m] \in Seq(S)
      BY <3>5, <3>6
    <3> QED BY <3>2, <3>3, <3>7
  <2> QED BY <2>1, <2>3, <2>4
<1> QED BY <1>1, <1>2

(* Pop() takes back what chat() has appended. *)
LEMMA PopAppend ==
  ASSUME NEW S, NEW m \in Seq(S), NEW a \in S
  PROVE  /\ Append(m, a) \in Seq(S) /\ Append(m, a) # <<>>
         /\ Pop(Append(m, a)) = m
<1>1. Append(m, a) \in Seq(S) /\ Append(m, a) # <<>>
  BY AppendProperties
<1>2. Len(Append(m, a)) = Len(m) + 1 /\ Len(m) \in Nat
  BY AppendProperties
<1>3. Pop(Append(m, a)) = SubSeq(Append(m, a), 1, Len(m))
  BY <1>2 DEF Pop, Front
<1>4. SubSeq(Append(m, a), 1, Len(m)) = m
  BY <1>1, <1>2
<1> QED BY <1>1, <1>3, <1>4

LEMMA BeginningIsPrefix ==
  ASSUME NEW S, NEW m \in Seq(S), NEW k \in Nat, k <= Len(m)
  PROVE  SubSeq(m, 1, k) \in Seq(S) /\ IsPrefix(SubSeq(m, 1, k), m)
<1>1. Len(m) \in Nat /\ \A i \in 1 .. k : m[i] \in S
  OBVIOUS
<1>2. SubSeq(m, 1, k) \in Seq(S)
  BY <1>1, SubSeqProperties
<1>3. Len(SubSeq(m, 1, k)) = k
  <2>1. Len(SubSeq(m, 1, k)) = IF 1 <= k THEN k - 1 + 1 ELSE 0
    BY <1>1, SubSeqProperties
  <2> QED BY <2>1
<1> DEFINE p == SubSeq(m, 1, k)
<1>4. SubSeq(p, 1, Len(p)) = p
  BY <1>2, SubSeqFull
<1> QED BY <1>1, <1>2, <1>3, <1>4 DEF IsPrefix

LEMMA PopFacts ==
  ASSUME NEW S, NEW m \in Seq(S), m # <<>>
  PROVE  Pop(m) \in Seq(S) /\ IsPrefix(Pop(m), m)
<1>1. Len(m) \in Nat \ {0}
  BY EmptySeq
<1> DEFINE k == Len(m) - 1
<1>2. k \in Nat /\ k <= Len(m)
  BY <1>1
<1>3. Pop(m) = SubSeq(m, 1, k)
  BY DEF Pop, Front
<1> HIDE DEF k
<1> QED BY <1>2, <1>3, BeginningIsPrefix

----------------------------------------------------------------------------
(* The invariant of the conversation. *)

USE DEF Message

LEMMA ChatTyped ==
  ASSUME NEW m \in Seq(Message), Chat(m)
  PROVE  messages' = Append(m, "assistant") /\ messages' \in Seq(Message)
BY AppendProperties DEF Chat

LEMMA AgentInvInit == AgentInit => AgentIInv
<1> SUFFICES ASSUME AgentInit PROVE AgentIInv
  OBVIOUS
<1>1. PICK h \in Histories :
        asked = Append(FlattenSeq([i \in DOMAIN h |-> TalksAbout(h[i])]), "request")
  BY DEF AgentInit
<1> DEFINE talk == [i \in DOMAIN h |-> TalksAbout(h[i])]
<1>2. talk \in Seq(Seq(Message))
  <2>1. h \in Seq({"error", "pending", "done"})
    BY AgentAssumption
  <2>2. \A x \in {"error", "pending", "done"} : TalksAbout(x) \in Seq(Message)
    <3>1. /\ <<>> \in Seq(Message) /\ <<"earlier">> \in Seq(Message)
          /\ <<"earlier", "assistant">> \in Seq(Message)
      OBVIOUS
    <3> QED BY <3>1 DEF TalksAbout
  <2>3. Len(h) \in Nat /\ DOMAIN h = 1 .. Len(h)
        /\ \A i \in 1 .. Len(h) : h[i] \in {"error", "pending", "done"}
    BY <2>1
  <2>4. \A i \in 1 .. Len(h) : TalksAbout(h[i]) \in Seq(Message)
    BY <2>2, <2>3
  <2>5. talk = [i \in 1 .. Len(h) |-> TalksAbout(h[i])]
    BY <2>3
  <2> QED BY <2>3, <2>4, <2>5
<1> HIDE DEF talk
<1>3. FlattenSeq(talk) \in Seq(Message)
  BY <1>2, FlattenTyped
<1>4. asked \in Seq(Message) /\ asked # <<>>
  BY <1>1, <1>3, AppendProperties DEF talk
<1>5. DOMAIN <<>> = {}
  OBVIOUS
<1> QED BY <1>4, <1>5 DEF AgentInit, AgentIInv, AgentTypeOK, MessagesOK, ArgsOK, UncertainAskedAgain

LEMMA ListsTyped ==
  /\ DOMAIN <<>> = {}
  /\ \A f \in PurposeLists(Endpoints) : DOMAIN f \subseteq Purposes
  /\ PurposeLists(Offered) \subseteq PurposeLists(Endpoints)
<1>1. DOMAIN <<>> = {}
  OBVIOUS
<1>2. \A f \in PurposeLists(Endpoints) : DOMAIN f \subseteq Purposes
  BY DEF PurposeLists
<1>3. Offered \cup {"local", "external"} \subseteq Endpoints \cup {"local", "external"}
  BY DEF Offered
<1>4. \A P : [P -> Offered \cup {"local", "external"}]
               \subseteq [P -> Endpoints \cup {"local", "external"}]
  BY <1>3
<1> QED BY <1>1, <1>2, <1>4 DEF PurposeLists

LEMMA PurposesTyped ==
  ASSUME AgentTypeOK
  PROVE  AllPurposes \subseteq Purposes /\ epsMap \subseteq Endpoints
<1>1. DOMAIN purposes0 \subseteq Purposes /\ DOMAIN purposes1 \subseteq Purposes
  BY ListsTyped DEF AgentTypeOK
<1> QED BY <1>1 DEF AllPurposes, epsMap, Candidates

(* The stages about endpoints. *)
LEMMA ChoosingKeeps ==
  ASSUME AgentIInv, ChooseEndpoints \/ ReChooseEndpoints
  PROVE  AgentIInv'
<1>0. AgentTypeOK /\ MessagesOK /\ ArgsOK
  BY DEF AgentIInv
<1>1. CASE ChooseEndpoints
  <2>1. /\ at = "chooseEndpoints" /\ at' = "reChooseEndpoints"
        /\ messages' = Append(messages, "assistant") /\ messages' \in Seq(Message)
        /\ messages = asked /\ again = {}
        /\ UNCHANGED <<asked, purposes1, used, argsHints, reConfirms, again>>
        /\ purposes0' \in PurposeLists(Endpoints)
    BY <1>0, <1>1, ChatTyped DEF ChooseEndpoints, MessagesOK, ArgsOK, AgentTypeOK
  <2> QED BY <1>0, <2>1 DEF AgentIInv, AgentTypeOK, MessagesOK, ArgsOK, UncertainAskedAgain
<1>2. CASE ReChooseEndpoints
  <2>1. /\ at = "reChooseEndpoints" /\ at' = "confirmEndpoints"
        /\ messages = Append(asked, "assistant") /\ again = {}
        /\ UNCHANGED <<asked, purposes0, used, argsHints, reConfirms, again>>
        /\ purposes1' \in PurposeLists(Endpoints)
        /\ Chat(Pop(messages)) /\ asked \in Seq(Message)
    BY <1>0, <1>2, ListsTyped DEF ReChooseEndpoints, MessagesOK, ArgsOK, AgentTypeOK
  <2>2. Pop(messages) = asked
    BY <2>1, PopAppend
  <2>3. messages' = Append(asked, "assistant") /\ messages' \in Seq(Message)
    BY <2>1, <2>2, ChatTyped
  <2> QED BY <1>0, <2>1, <2>3
          DEF AgentIInv, AgentTypeOK, MessagesOK, ArgsOK, UncertainAskedAgain
<1> QED BY <1>1, <1>2

LEMMA ConfirmingKeeps ==
  ASSUME AgentIInv, ConfirmEndpoints \/ NothingToOpt
  PROVE  AgentIInv'
<1>0. AgentTypeOK /\ MessagesOK /\ ArgsOK
  BY DEF AgentIInv
<1>1. /\ at = "confirmEndpoints" /\ messages = Append(asked, "assistant")
      /\ again = {} /\ asked \in Seq(Message) /\ asked # <<>>
      /\ messages \in Seq(Message)
  BY <1>0 DEF ConfirmEndpoints, NothingToOpt, MessagesOK, ArgsOK, AgentTypeOK
<1>2. Pop(messages) = asked
  BY <1>1, PopAppend
<1>3. PICK u : Confirmed(u) /\ u \subseteq Purposes \X (Endpoints \cup {NoEp})
  <2>1. CASE ConfirmEndpoints
    <3>1. PICK u \in (SUBSET (Purposes \X (epsMap \cup {NoEp}))) \ {{}} : Confirmed(u)
      BY <2>1 DEF ConfirmEndpoints
    <3>2. u \subseteq Purposes \X (Endpoints \cup {NoEp})
      BY <1>0, <3>1, PurposesTyped
    <3> QED BY <3>1, <3>2
  <2>2. CASE NothingToOpt
    <3>1. grouped(1) \subseteq Purposes
      BY <1>0, PurposesTyped DEF grouped
    <3>2. confirmedEndpoints \subseteq Purposes \X (Endpoints \cup {NoEp})
      BY <3>1 DEF confirmedEndpoints
    <3> QED BY <2>2, <3>2 DEF NothingToOpt
  <2> QED BY <2>1, <2>2
<1>4. messages' \in {asked, Append(asked, "assistant")} /\ messages' \in Seq(Message)
  <2>1. CASE ConfirmEndpoints
    BY <1>1, <1>2, <2>1, ChatTyped DEF ConfirmEndpoints
  <2>2. CASE NothingToOpt
    BY <1>1, <1>2, <2>2 DEF NothingToOpt
  <2> QED BY <2>1, <2>2
<1>5. /\ used' = u /\ purposes0' = <<>> /\ purposes1' = <<>>
      /\ at' = "confirmEndpointsArgs"
      /\ UNCHANGED <<asked, argsHints, reConfirms, again>>
  BY <1>3 DEF Confirmed
<1> QED BY <1>0, <1>1, <1>3, <1>4, <1>5
        DEF AgentIInv, AgentTypeOK, MessagesOK, ArgsOK, UncertainAskedAgain

(* The stages about arguments. *)
LEMMA AnswersTyped ==
  ASSUME NEW f \in ArgsAnswers
  PROVE  DOMAIN f \subseteq ArgKeys /\ \A k \in DOMAIN f : f[k] \in Hints
BY DEF ArgsAnswers

(* What a chat() makes of the conversation of a stage about arguments, or  *)
(* of the one that writes the script.                                      *)
LEMMA ConversationGoesOn ==
  ASSUME AgentTypeOK, MessagesOK, Chat(Pop(messages)), asked' = asked,
         at \in {"confirmEndpointsArgs", "reConfirmEndpointsArgs",
                 "generateTaskScript"}
  PROVE  /\ messages' \in {Append(asked, "assistant"), Append(Pop(asked), "assistant")}
         /\ messages' \in Seq(Message) /\ asked \in Seq(Message) /\ asked # <<>>
<1>1. asked \in Seq(Message) /\ asked # <<>> /\ Pop(asked) \in Seq(Message)
  BY PopFacts DEF AgentTypeOK, MessagesOK
<1>2. messages \in {asked, Append(asked, "assistant"), Append(Pop(asked), "assistant")}
  BY DEF MessagesOK
<1>3. Pop(messages) \in {asked, Pop(asked)}
  <2>1. /\ Pop(Append(asked, "assistant")) = asked
        /\ Pop(Append(Pop(asked), "assistant")) = Pop(asked)
    BY <1>1, PopAppend
  <2> QED BY <1>2, <2>1
<1>4. messages' = Append(Pop(messages), "assistant") /\ messages' \in Seq(Message)
  BY <1>1, <1>3, ChatTyped
<1> QED BY <1>1, <1>3, <1>4

LEMMA ConfirmArgsKeeps ==
  ASSUME AgentIInv, ConfirmEndpointArgs
  PROVE  AgentIInv'
<1>0. AgentTypeOK /\ MessagesOK /\ ArgsOK
  BY DEF AgentIInv
<1>1. PICK f \in ArgsAnswers :
        /\ reConfirms' = uncertain(f)
        /\ IF uncertain(f) = {}
           THEN Settled(f)
           ELSE argsHints' = f /\ at' = "reConfirmEndpointsArgs"
  BY DEF ConfirmEndpointArgs
<1>2. DOMAIN f \subseteq ArgKeys /\ \A k \in DOMAIN f : f[k] \in Hints
  BY AnswersTyped
<1>3. /\ at = "confirmEndpointsArgs" /\ Chat(Pop(messages)) /\ again = {}
      /\ UNCHANGED <<asked, purposes0, purposes1, used, again>>
  BY <1>0 DEF ConfirmEndpointArgs, ArgsOK
<1>4. /\ messages' \in {Append(asked, "assistant"), Append(Pop(asked), "assistant")}
      /\ messages' \in Seq(Message) /\ asked # <<>>
  BY <1>0, <1>3, ConversationGoesOn
<1>5. /\ argsHints' = f /\ reConfirms' = uncertain(f)
      /\ at' \in {"reConfirmEndpointsArgs", "generateTaskScript", "failed"}
      /\ at' = "generateTaskScript" => uncertain(f) = {} /\ needConfirms(f) = {}
  BY <1>1 DEF Settled
<1>6. uncertain(f) \subseteq DOMAIN f
  BY DEF uncertain
<1>7. AgentTypeOK'
  BY <1>0, <1>2, <1>3, <1>4, <1>5, <1>6 DEF AgentTypeOK
<1>8. MessagesOK' /\ ArgsOK'
  BY <1>3, <1>4, <1>5 DEF MessagesOK, ArgsOK
<1>9. UncertainAskedAgain'
  BY <1>5 DEF UncertainAskedAgain, needConfirms
<1> QED BY <1>7, <1>8, <1>9 DEF AgentIInv

(* What the second answer leaves uncertain it has been asked about.        *)
LEMMA MergedFacts ==
  ASSUME NEW f, reConfirms \subseteq DOMAIN f, reConfirms = uncertain(argsHints)
  PROVE  /\ DOMAIN Merged(f) = DOMAIN argsHints
         /\ \A k \in DOMAIN argsHints :
              Merged(f)[k] = IF k \in DOMAIN f THEN f[k] ELSE argsHints[k]
         /\ reConfirms \subseteq DOMAIN argsHints
         /\ uncertain(Merged(f)) \subseteq DOMAIN f \cap DOMAIN argsHints
<1>1. /\ DOMAIN Merged(f) = DOMAIN argsHints
      /\ \A k \in DOMAIN argsHints :
           Merged(f)[k] = IF k \in DOMAIN f THEN f[k] ELSE argsHints[k]
  BY DEF Merged
<1>2. reConfirms \subseteq DOMAIN argsHints
  BY DEF uncertain
<1>3. ASSUME NEW k \in uncertain(Merged(f)), k \notin DOMAIN f PROVE FALSE
  <2>1. k \in DOMAIN argsHints /\ Merged(f)[k] = argsHints[k]
    BY <1>1, <1>3 DEF uncertain
  <2>2. k \in uncertain(argsHints)
    BY <1>3, <2>1 DEF uncertain
  <2> QED BY <1>3, <2>2
<1>4. uncertain(Merged(f)) \subseteq DOMAIN argsHints
  BY <1>1 DEF uncertain
<1> QED BY <1>1, <1>2, <1>3, <1>4

LEMMA ReConfirmArgsKeeps ==
  ASSUME AgentIInv, ReConfirmEndpointArgs
  PROVE  AgentIInv'
<1>0. AgentTypeOK /\ MessagesOK /\ ArgsOK
  BY DEF AgentIInv
<1>1. PICK f \in ReConfirmAnswers :
        again' = DOMAIN f \cap DOMAIN argsHints /\ Settled(Merged(f))
  BY DEF ReConfirmEndpointArgs
<1>2. f \in ArgsAnswers /\ reConfirms \subseteq DOMAIN f
  BY DEF ReConfirmAnswers
<1>3. /\ at = "reConfirmEndpointsArgs" /\ Chat(Pop(messages))
      /\ reConfirms = uncertain(argsHints)
      /\ UNCHANGED <<asked, purposes0, purposes1, used, reConfirms>>
  BY <1>0 DEF ReConfirmEndpointArgs, ArgsOK
<1>4. /\ messages' \in {Append(asked, "assistant"), Append(Pop(asked), "assistant")}
      /\ messages' \in Seq(Message) /\ asked # <<>>
  BY <1>0, <1>3, ConversationGoesOn
<1>5. PICK g : g = Merged(f)
  OBVIOUS
<1>6. /\ argsHints' = g
      /\ at' \in {"generateTaskScript", "failed"}
      /\ at' = "generateTaskScript" => needConfirms(g) = {}
  BY <1>1, <1>5 DEF Settled
<1>7. /\ DOMAIN g = DOMAIN argsHints
      /\ \A k \in DOMAIN argsHints :
           g[k] = IF k \in DOMAIN f THEN f[k] ELSE argsHints[k]
      /\ reConfirms \subseteq DOMAIN argsHints
      /\ uncertain(g) \subseteq DOMAIN f \cap DOMAIN argsHints
  BY <1>2, <1>3, <1>5, MergedFacts
<1>8. AgentTypeOK'
  <2>1. DOMAIN g \subseteq ArgKeys /\ \A k \in DOMAIN g : g[k] \in Hints
    BY <1>0, <1>2, <1>7, AnswersTyped DEF AgentTypeOK
  <2> QED BY <1>0, <1>1, <1>3, <1>4, <1>6, <1>7, <2>1 DEF AgentTypeOK
<1>9. MessagesOK' /\ ArgsOK'
  BY <1>3, <1>4, <1>6 DEF MessagesOK, ArgsOK
<1>10. UncertainAskedAgain'
  <2>1. /\ reConfirms' \subseteq again' \cap DOMAIN g
        /\ uncertain(g) \subseteq again'
    BY <1>1, <1>2, <1>3, <1>7
  <2>2. at' = "generateTaskScript" =>
          \A k \in DOMAIN g : ~(g[k].flag /\ g[k].needConfirm)
    BY <1>6 DEF needConfirms
  <2> QED BY <1>6, <2>1, <2>2 DEF UncertainAskedAgain
<1> QED BY <1>8, <1>9, <1>10 DEF AgentIInv

(* The script is written and installed; a stage fails. *)
LEMMA WritingKeeps ==
  ASSUME AgentIInv, GenerateTaskScript \/ Refactor \/ InstallScriptFiles
  PROVE  AgentIInv'
<1>0. AgentTypeOK /\ MessagesOK /\ ArgsOK /\ UncertainAskedAgain
  BY DEF AgentIInv
<1>1. CASE GenerateTaskScript
  <2>1. /\ at = "generateTaskScript" /\ at' = "refactor" /\ Chat(Pop(messages))
        /\ UNCHANGED <<asked, purposes0, purposes1, used, argsHints, reConfirms, again>>
    BY <1>1 DEF GenerateTaskScript
  <2>2. /\ messages' \in {Append(asked, "assistant"), Append(Pop(asked), "assistant")}
        /\ messages' \in Seq(Message) /\ asked # <<>>
    BY <1>0, <2>1, ConversationGoesOn
  <2> QED BY <1>0, <2>1, <2>2
          DEF AgentIInv, AgentTypeOK, MessagesOK, ArgsOK, UncertainAskedAgain, uncertain
<1>2. CASE Refactor
  <2>1. /\ at = "refactor" /\ at' = "install" /\ Chat(Append(messages, "refactor"))
        /\ UNCHANGED <<asked, purposes0, purposes1, used, argsHints, reConfirms, again>>
    BY <1>2 DEF Refactor
  <2>2. messages' \in Seq(Message) /\ asked # <<>>
    <3>1. Append(messages, "refactor") \in Seq(Message)
      BY <1>0, AppendProperties DEF AgentTypeOK
    <3> QED BY <1>0, <2>1, <3>1, ChatTyped DEF MessagesOK
  <2> QED BY <1>0, <2>1, <2>2
          DEF AgentIInv, AgentTypeOK, MessagesOK, ArgsOK, UncertainAskedAgain, uncertain
<1>3. CASE InstallScriptFiles
  BY <1>0, <1>3 DEF InstallScriptFiles,
     AgentIInv, AgentTypeOK, MessagesOK, ArgsOK, UncertainAskedAgain, uncertain
<1> QED BY <1>1, <1>2, <1>3

LEMMA FailingKeeps ==
  ASSUME AgentIInv, MissionImpossible \/ ChatThrows
  PROVE  AgentIInv'
<1>1. /\ at' = "failed"
      /\ UNCHANGED <<asked, messages, purposes0, purposes1, used, argsHints,
                     reConfirms, again>>
  BY DEF MissionImpossible, ChatThrows
<1> QED BY <1>1
        DEF AgentIInv, AgentTypeOK, MessagesOK, ArgsOK, UncertainAskedAgain

LEMMA AgentInvStep == AgentIInv /\ [AgentNext]_agentVars => AgentIInv'
<1> SUFFICES ASSUME AgentIInv, [AgentNext]_agentVars PROVE AgentIInv'
  OBVIOUS
<1>1. CASE UNCHANGED agentVars
  BY <1>1 DEF agentVars, AgentIInv, AgentTypeOK, MessagesOK, ArgsOK,
              UncertainAskedAgain, uncertain, Pop
<1>2. CASE AgentNext
  BY <1>2, ChoosingKeeps, ConfirmingKeeps, ConfirmArgsKeeps, ReConfirmArgsKeeps,
     WritingKeeps, FailingKeeps DEF AgentNext
<1> QED BY <1>1, <1>2

(* Every stage of _map2Endpoints() leaves the messages and the hints as    *)
(* the next one takes them to be, whatever the model answers.              *)
THEOREM AgentInvariance == AgentSpec => []AgentIInv
BY AgentInvInit, AgentInvStep, PTL DEF AgentSpec

(* Purposes, endpoints and arguments stay those of the callgent: nothing   *)
(* the model makes up is stored.                                           *)
THEOREM AgentTypeCorrect == AgentSpec => []AgentTypeOK
BY AgentInvariance, PTL DEF AgentIInv

LEMMA CleanFollows == AgentIInv => ConversationIsClean
<1> SUFFICES ASSUME AgentIInv, AsksModel, at # "refactor"
             PROVE  IsPrefix(Conversation, asked)
  BY DEF ConversationIsClean
<1>1. asked \in Seq(Message) /\ asked # <<>> /\ MessagesOK
  BY DEF AgentIInv, AgentTypeOK, MessagesOK
<1>2. IsPrefix(asked, asked) /\ IsPrefix(Pop(asked), asked) /\ Pop(asked) \in Seq(Message)
  BY <1>1, PopFacts DEF IsPrefix
<1>3. /\ Pop(Append(asked, "assistant")) = asked
      /\ Pop(Append(Pop(asked), "assistant")) = Pop(asked)
  BY <1>1, <1>2, PopAppend
<1>4. at \in {"chooseEndpoints", "reChooseEndpoints", "confirmEndpoints",
              "confirmEndpointsArgs", "reConfirmEndpointsArgs", "generateTaskScript"}
  BY DEF AsksModel
<1>5. Conversation \in {asked, Pop(asked)}
  BY <1>1, <1>3, <1>4 DEF Conversation, MessagesOK
<1> QED BY <1>2, <1>5

(* What _map2Endpoints() asks next is what the client said, or the         *)
(* beginning of it: no answer of an earlier stage is left in it.           *)
THEOREM ConversationIsCleanHolds == AgentSpec => []ConversationIsClean
BY AgentInvariance, CleanFollows, PTL

(* confirmEndpointArgs() lets no argument pass that the first answer was   *)
(* not sure of and the second was not asked about.                         *)
THEOREM UncertainAskedAgainHolds == AgentSpec => []UncertainAskedAgain
BY AgentInvariance, PTL DEF AgentIInv

============================================================================
