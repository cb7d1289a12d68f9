------------------------------ MODULE LlmQuery ------------------------------
(***************************************************************************)
(* LLMService.query() and chat(): up to three completions, each paid for   *)
(* (Billing), whose text is parsed and validated; a query looks its prompt *)
(* up in the table LlmCache first and stores the text of a valid answer.   *)
(* All queries here have the same prompt, and run in transactions of their *)
(* callers, which may be rolled back.                                      *)
(***************************************************************************)
EXTENDS Integers, FiniteSets

CONSTANTS Queries,   \* calls of query() and chat()
          Schemas,   \* those with a parseSchema
          MaxRetry,  \* attempts each of them makes
          Handlers, Sessions, TopUp, Initial, None,   \* see Billing
          Cost       \* what a completion costs

ASSUME QueryAssumption ==
  /\ Schemas \subseteq Queries
  /\ MaxRetry \in Nat \ {0}
  /\ Cost \in Nat \ {0}
  /\ TopUp \in [Sessions -> Nat \ {0}]
  /\ Initial \in Int
  /\ None \notin Queries \cup Sessions \cup Queries \X (1 .. MaxRetry)
  /\ Sessions \cap (Queries \X (1 .. MaxRetry)) = {}
  /\ "empty" \notin Queries \X (1 .. MaxRetry)

(* A completion is the i-th attempt of a query. *)
Completions == Queries \X (1 .. MaxRetry)

VARIABLES balance, ledger, session, completion, handler,   \* of Billing
          query,     \* the calls
          llmCache   \* committed rows, each named after the call that created
                     \* it: the attempt whose text it holds

billingVars == <<balance, ledger, session, completion, handler>>

B == INSTANCE Billing WITH Price <- [c \in Completions |-> Cost]

vars == <<billingVars, query, llmCache>>

(* text: what llmResult holds, the text of a completion or nothing. *)
Text == Completions \cup {"empty"}
Query == [kind : {"query", "chat"},
          pc : {"idle", "asking", "waiting", "parsing", "writing",
                "returned", "thrown"},
          attempt : 1 .. MaxRetry,
          cache : BOOLEAN,             \* the lookup found something
          valid : BOOLEAN,             \* the text is parsed and validated
          text : Text,
          row : Queries \cup {None}]   \* written, but not committed

Init ==
  /\ B!BillingInit
  /\ \E kind \in [Queries -> {"query", "chat"}] :
       query = [q \in Queries |->
                  [kind |-> kind[q], pc |-> "idle", attempt |-> 1, cache |-> FALSE,
                   valid |-> FALSE, text |-> "empty", row |-> None]]
  /\ llmCache = <<>>

----------------------------------------------------------------------------
Becomes(q, c) == query' = [query EXCEPT ![q] = c]
Completion(q) == <<q, query[q].attempt>>

(* faulty: attempts are not counted *)
RetryForever(c) ==
  [c EXCEPT !.pc = IF c.cache THEN "parsing" ELSE "asking"]

(* faulty: one attempt too many *)
RetryOnceMore(c) ==
  IF c.attempt <= MaxRetry
  THEN [c EXCEPT !.pc = IF c.cache THEN "parsing" ELSE "asking",
                 !.attempt = @ + 1]
  ELSE [c EXCEPT !.pc = "thrown"]

(* Another attempt, unless this was the third. *)
Retry(c) ==
  IF c.attempt < MaxRetry
  THEN [c EXCEPT !.pc = IF c.cache THEN "parsing" ELSE "asking",
                 !.attempt = @ + 1]
  ELSE [c EXCEPT !.pc = "thrown"]

(* query(): _llmCacheLoad() unless disabled; chat() is not cached.         *)
Begin(q) ==
  /\ query[q].pc = "idle"
  /\ Becomes(q, IF query[q].kind = "query" /\ llmCache # <<>>
                THEN [query[q] EXCEPT !.pc = "parsing", !.cache = TRUE]
                ELSE [query[q] EXCEPT !.pc = "asking"])
  /\ UNCHANGED <<billingVars, llmCache>>

(* faulty: the completion is requested whatever the balance is *)
AskUnchecked(q) ==
  /\ query[q].pc = "asking"
  /\ completion' = [completion EXCEPT ![Completion(q)] = "asked"]
  /\ Becomes(q, [query[q] EXCEPT !.pc = "waiting"])
  /\ UNCHANGED <<balance, ledger, session, handler, llmCache>>

(* _completion(): the check throws 402 when the balance is not positive,   *)
(* and 402 is not retried.                                                 *)
Ask(q) ==
  /\ query[q].pc = "asking"
  /\ B!Check(Completion(q))
  /\ Becomes(q, [query[q] EXCEPT !.pc = IF balance > 0 THEN "waiting"
                                        ELSE "thrown"])
  /\ UNCHANGED llmCache

(* The tenant cannot be read: an attempt has failed. *)
CheckFails(q) ==
  /\ query[q].pc = "asking"
  /\ Becomes(q, Retry(query[q]))
  /\ UNCHANGED <<billingVars, llmCache>>

(* A response with a choice; without one the loop is left, and it throws.  *)
Answered(q) ==
  /\ query[q].pc = "waiting"
  /\ B!Answer(Completion(q))
  /\ \/ Becomes(q, [query[q] EXCEPT !.pc = "parsing", !.text = Completion(q)])
     \/ Becomes(q, [query[q] EXCEPT !.pc = "thrown"])
  /\ UNCHANGED llmCache

(* fetch() rejects: the attempt failed. *)
Unanswered(q) ==
  /\ query[q].pc = "waiting"
  /\ B!AnswerFails(Completion(q))
  /\ Becomes(q, Retry(query[q]))
  /\ UNCHANGED llmCache

(* _parseResultSchema(parseSchema, parseType, llmResult), validate(): the  *)
(* text is valid, is refused by validate() (the loop is left), or does not *)
(* parse.  A cache hit never fills llmResult: the empty text only parses   *)
(* without a schema.                                                       *)
ParsesAnyway(q) == TRUE   \* faulty: an empty result is not refused

Parses(q) == query[q].text # "empty" \/ q \notin Schemas

(* Only a miss writes the cache, in the end. *)
AfterValid(q) ==
  [query[q] EXCEPT !.pc = IF query[q].kind = "query" /\ ~query[q].cache
                          THEN "writing" ELSE "returned",
                   !.valid = TRUE]

Valid(q) ==
  /\ query[q].pc = "parsing"
  /\ Parses(q)
  /\ Becomes(q, AfterValid(q))
  /\ UNCHANGED <<billingVars, llmCache>>

Refused(q) ==
  /\ query[q].pc = "parsing"
  /\ Parses(q)
  /\ Becomes(q, [query[q] EXCEPT !.pc = "thrown"])
  /\ UNCHANGED <<billingVars, llmCache>>

DoesNotParse(q) ==
  /\ query[q].pc = "parsing"
  /\ Becomes(q, Retry(query[q]))
  /\ UNCHANGED <<billingVars, llmCache>>

(* _llmCache(): updates a row committed since the lookup, or creates one. *)
CacheBeforeParse(q) == query[q].pc \in {"parsing", "writing"}   \* faulty

MayWrite(q) == query[q].pc = "writing"

Row(q) == IF llmCache = <<>> THEN {q} ELSE DOMAIN llmCache

Write(q) ==
  /\ MayWrite(q)
  /\ query[q].text \in Completions
  /\ \E r \in Row(q) :
       Becomes(q, [query[q] EXCEPT !.pc = "returned", !.row = r])
  /\ UNCHANGED <<billingVars, llmCache>>

(* The caller's transaction ends after the call: it keeps the row or not.  *)
CallerCommits(q) ==
  /\ query[q].pc = "returned"
  /\ query[q].row # None
  /\ llmCache' = [r \in DOMAIN llmCache \cup {query[q].row} |->
                    IF r = query[q].row THEN query[q].text ELSE llmCache[r]]
  /\ Becomes(q, [query[q] EXCEPT !.row = None])
  /\ UNCHANGED billingVars

CallerRollsBack(q) ==
  /\ query[q].pc = "returned"
  /\ query[q].row # None
  /\ Becomes(q, [query[q] EXCEPT !.row = None])
  /\ UNCHANGED <<billingVars, llmCache>>

(* The server process ends: calls at work are gone. *)
Restart ==
  /\ B!Restart
  /\ query' = [q \in Queries |->
                 [query[q] EXCEPT !.pc = IF @ \in {"idle", "returned"} THEN @
                                        ELSE "thrown",
                                  !.row = None]]
  /\ UNCHANGED llmCache

QueryStep(q) ==
  \/ Begin(q) \/ Ask(q) \/ CheckFails(q) \/ Answered(q) \/ Unanswered(q)
  \/ Valid(q) \/ Refused(q) \/ DoesNotParse(q) \/ Write(q)

Next ==
  \/ \E q \in Queries : QueryStep(q) \/ CallerCommits(q) \/ CallerRollsBack(q)
  \/ B!BackgroundStep /\ UNCHANGED <<query, llmCache>>
  \/ Restart

Spec == Init /\ [][Next]_vars

(* A call that has begun goes on, and the LLM service answers or fails.    *)
FairSpec == Spec /\ \A q \in Queries : WF_vars(QueryStep(q))

----------------------------------------------------------------------------
(* Properties. *)

TypeOK ==
  /\ B!TypeOK
  /\ query \in [Queries -> Query]
  /\ DOMAIN llmCache \subseteq Queries
  /\ \A r \in DOMAIN llmCache : llmCache[r] \in Completions

(* Whatever the calls do, each of their completions is checked, answered   *)
(* and billed the way Billing says: no attempt reuses the bill of another  *)
(* or is made without a check.                                             *)
Billed == B!Spec

(* A structured answer is parsed from the text of a completion this call   *)
(* has got itself.                                                         *)
ReturnsOwnAnswer ==
  \A q \in Schemas :
    query[q].pc = "returned" =>
      /\ query[q].text \in {q} \X (1 .. MaxRetry)
      /\ completion[query[q].text] \notin {"idle", "asked", "refused", "failed"}

(* What the cache holds was validated by the call that stored it.          *)
CachedIsValid ==
  \A r \in DOMAIN llmCache :
    LET writer == query[llmCache[r][1]]
    IN  writer.pc = "returned" /\ writer.valid /\ writer.text = llmCache[r]

(* A call ends: with an answer or by throwing, after three attempts at     *)
(* most.                                                                   *)
QueryEnds == \A q \in Queries : query[q].pc # "idle" ~>
                                 query[q].pc \in {"returned", "thrown"}

----------------------------------------------------------------------------
(* The inductive invariant of LlmProofs. *)

(* The completion has been answered, whatever became of its bill. *)
Without == {"idle", "asked", "refused", "failed"}
Got(c) == completion[c] \notin Without

(* Only the bill of an answered completion is in the hands of a handler. *)
BillsAnswers ==
  \A h \in Handlers : handler[h].txId \in Completions => Got(handler[h].txId)

(* A call by its stage: what it holds, and that each attempt is new.       *)
QueryOK(q) ==
  LET c == query[q]
  IN  /\ c.text # "empty" => c.text \in {q} \X (1 .. MaxRetry) /\ Got(c.text)
      /\ \A i \in 1 .. MaxRetry : i > c.attempt => completion[<<q, i>>] = "idle"
      /\ c.pc \in {"idle", "asking"} => completion[Completion(q)] = "idle"
      /\ c.pc = "waiting" => completion[Completion(q)] = "asked"
      /\ c.pc \in {"idle", "asking", "waiting"} => ~c.cache
      /\ c.cache \/ c.pc = "idle" => c.text = "empty"
      /\ c.pc \in {"parsing", "writing"} /\ ~c.cache => c.text # "empty"
      /\ c.pc = "writing" => ~c.cache
      /\ c.pc \in {"writing", "returned"} => c.valid /\ Parses(q)
      /\ c.row # None => c.pc = "returned" /\ c.text # "empty"

IInv ==
  /\ TypeOK /\ BillsAnswers
  /\ \A q \in Queries : QueryOK(q)
  /\ CachedIsValid

============================================================================
