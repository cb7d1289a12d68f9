------------------------------ MODULE Billing ------------------------------
(***************************************************************************)
(* The balance of one tenant: recharges delivered by the payment           *)
(* provider's webhook, and expenses for LLM completions, which are checked *)
(* before the call and booked by an event handler after it.                *)
(*                                                                         *)
(* Handlers interleave; each works in a database transaction of its own.   *)
(* A transaction row and the balance of the tenant are written one after   *)
(* the other, and a duplicate txId waits for the first one to end.         *)
(***************************************************************************)
EXTENDS Integers, FiniteSetsExt

CONSTANTS Completions,  \* LLM completions; the id of the response is its txId
          Sessions,     \* checkout sessions; their id is the txId
          Handlers,     \* slots for concurrent webhook and billing handlers
          TopUp,        \* amount of a session
          Price,        \* amount of a completion
          Initial,      \* balance the tenant starts with
          None          \* null

ASSUME BillingAssumption ==
  /\ TopUp \in [Sessions -> Nat \ {0}]
  /\ Price \in [Completions -> Nat \ {0}]
  /\ Initial \in Int
  /\ Completions \cap Sessions = {}
  /\ None \notin Completions \cup Sessions

VARIABLES balance,     \* Tenant.balance
          ledger,      \* txId of the Transaction rows
          session,     \* the sessions at the payment provider
          completion,  \* what became of each completion
          handler      \* the handlers at work

billingVars == <<balance, ledger, session, completion, handler>>

TxId == Completions \cup Sessions

(* Recharges are positive, expenses negative. *)
Amount(t) == IF t \in Sessions THEN TopUp[t] ELSE -Price[t]

CompletionState == {"idle", "asked", "refused", "failed",
                    "answered", "booking", "booked", "unbooked"}
Handler == [pc : {"idle", "started", "inserted", "updated"},
            txId : TxId \cup {None}]
Free == [pc |-> "idle", txId |-> None]

BillingInit ==
  /\ balance = Initial
  /\ ledger = {}
  /\ session = [s \in Sessions |-> "open"]
  /\ completion = [c \in Completions |-> "idle"]
  /\ handler = [h \in Handlers |-> Free]

----------------------------------------------------------------------------
(* LLMService._completion() and its two events. *)

(* transactionsService.check(): the committed balance, expenses of earlier *)
(* completions that are not booked yet not counted.                        *)
Check(c) ==
  /\ completion[c] = "idle"
  /\ completion' = [completion EXCEPT ![c] = IF balance > 0 THEN "asked"
                                             ELSE "refused"]
  /\ UNCHANGED <<balance, ledger, session, handler>>

(* The response arrives: the caller goes on and the billing event is       *)
(* emitted without waiting for its handler.                                *)
Answer(c) ==
  /\ completion[c] = "asked"
  /\ completion' = [completion EXCEPT ![c] = "answered"]
  /\ UNCHANGED <<balance, ledger, session, handler>>

AnswerFails(c) ==
  /\ completion[c] = "asked"
  /\ completion' = [completion EXCEPT ![c] = "failed"]
  /\ UNCHANGED <<balance, ledger, session, handler>>

(* faulty: a response without an id is accepted *)
StartExpenseNoId(h, c) ==
  /\ completion[c] = "answered"
  /\ handler[h] = Free
  /\ \E id \in {c, None} :
       handler' = [handler EXCEPT ![h] = [pc |-> "started", txId |-> id]]
  /\ completion' = [completion EXCEPT ![c] = "booking"]
  /\ UNCHANGED <<balance, ledger, session>>

(* handleLlmCompletion(), addModelExpense() *)
StartExpense(h, c) ==
  /\ completion[c] = "answered"
  /\ handler[h] = Free
  /\ handler' = [handler EXCEPT ![h] = [pc |-> "started", txId |-> c]]
  /\ completion' = [completion EXCEPT ![c] = "booking"]
  /\ UNCHANGED <<balance, ledger, session>>

(* The response has no id, its model no price, or the amount is not        *)
(* positive: the handler throws, and nobody hears of it.                   *)
RefuseExpense(c) ==
  /\ completion[c] = "answered"
  /\ completion' = [completion EXCEPT ![c] = "unbooked"]
  /\ UNCHANGED <<balance, ledger, session, handler>>

----------------------------------------------------------------------------
(* Recharges. *)

(* The payment provider: a session is paid at any time. *)
Pay(s) ==
  /\ session[s] = "open"
  /\ session' = [session EXCEPT ![s] = "paid"]
  /\ UNCHANGED <<balance, ledger, completion, handler>>

(* handleStripeWebhook(): checkout.session.completed is delivered until it *)
(* is acknowledged, and perhaps once more.                                 *)
Deliver(h, s) ==
  /\ session[s] # "open"
  /\ handler[h] = Free
  /\ handler' = [handler EXCEPT ![h] = [pc |-> "started", txId |-> s]]
  /\ UNCHANGED <<balance, ledger, session, completion>>

----------------------------------------------------------------------------
(* TransactionsService.create() in the transaction of handler h.           *)

(* The handlers in S end without effect.  The error of a webhook reaches   *)
(* the provider, that of a billing event is only logged.                   *)
AckedOnError(S) ==   \* faulty: the provider is told the failed webhook is done
  [s \in Sessions |-> IF \E h \in S : handler[h].txId = s THEN "acked"
                      ELSE session[s]]

SessionAfterError(S) == session

GiveUp(S) ==
  /\ handler' = [h \in Handlers |-> IF h \in S THEN Free ELSE handler[h]]
  /\ session' = SessionAfterError(S)
  /\ completion' = [c \in Completions |->
                      IF \E h \in S : handler[h].txId = c /\ c \notin ledger
                      THEN "unbooked" ELSE completion[c]]

(* transaction.create(): txId is unique. *)
NeverConflicts(t) == FALSE   \* faulty: txId is not declared unique

Conflicts(t) == t \in ledger

Insert(h) ==
  LET t == handler[h].txId
  IN  /\ handler[h].pc = "started"
      /\ \A o \in Handlers :
           handler[o].txId = t => handler[o].pc \notin {"inserted", "updated"}
      /\ IF Conflicts(t)
         THEN GiveUp({h})
         ELSE /\ handler' = [handler EXCEPT ![h].pc = "inserted"]
              /\ UNCHANGED <<session, completion>>
      /\ UNCHANGED <<balance, ledger>>

(* tenant.update(): the increment locks the row of the tenant. *)
Increment(h) ==
  /\ handler[h].pc = "inserted"
  /\ \A o \in Handlers : handler[o].pc # "updated"
  /\ handler' = [handler EXCEPT ![h].pc = "updated"]
  /\ UNCHANGED <<balance, ledger, session, completion>>

Commit(h) ==
  LET t == handler[h].txId
  IN  /\ handler[h].pc = "updated"
      /\ ledger' = ledger \cup {t}
      /\ balance' = balance + Amount(t)
      /\ handler' = [handler EXCEPT ![h] = Free]
      /\ session' = [s \in Sessions |-> IF s = t THEN "acked" ELSE session[s]]
      /\ completion' = [c \in Completions |->
                          IF c = t THEN "booked" ELSE completion[c]]

(* A database error or a transaction timeout. *)
Abort(h) ==
  /\ handler[h] # Free
  /\ GiveUp({h})
  /\ UNCHANGED <<balance, ledger>>

(* The server process ends: calls fail, billing events not handled yet are *)
(* lost, open transactions are rolled back.                                *)
Restart ==
  /\ \/ \E h \in Handlers : handler[h] # Free
     \/ \E c \in Completions : completion[c] \in {"asked", "answered"}
  /\ handler' = [h \in Handlers |-> Free]
  /\ session' = SessionAfterError(Handlers)
  /\ completion' = [c \in Completions |->
                      CASE completion[c] = "asked" -> "failed"
                        [] completion[c] \in {"answered", "booking"} -> "unbooked"
                        [] OTHER -> completion[c]]
  /\ UNCHANGED <<balance, ledger>>

----------------------------------------------------------------------------
Writes(h) == Insert(h) \/ Increment(h) \/ Commit(h)

(* What happens without the code that asks for completions. *)
BackgroundStep ==
  \/ \E s \in Sessions : Pay(s)
  \/ \E h \in Handlers, s \in Sessions : Deliver(h, s)
  \/ \E c \in Completions : RefuseExpense(c)
  \/ \E h \in Handlers, c \in Completions : StartExpense(h, c)
  \/ \E h \in Handlers : Writes(h) \/ Abort(h)

BillingNext ==
  \/ \E c \in Completions : Check(c) \/ Answer(c) \/ AnswerFails(c)
  \/ BackgroundStep
  \/ Restart

Spec == BillingInit /\ [][BillingNext]_billingVars

(* Handlers go on; the provider delivers an unacknowledged session again   *)
(* and again, and the database does not roll back every delivery of it.    *)
Served(s, A(_)) == \E h \in Handlers : handler[h].txId = s /\ A(h)

FairSpec ==
  /\ Spec
  /\ \A h \in Handlers : WF_billingVars(Writes(h))
  /\ \A s \in Sessions :
       /\ SF_billingVars(session[s] = "paid" /\ \E h \in Handlers : Deliver(h, s))
       /\ SF_billingVars(Served(s, Insert))
       /\ SF_billingVars(Served(s, Increment))
       /\ SF_billingVars(Served(s, Commit))

----------------------------------------------------------------------------
(* Properties. *)

TypeOK ==
  /\ balance \in Int
  /\ ledger \subseteq TxId
  /\ session \in [Sessions -> {"open", "paid", "acked"}]
  /\ completion \in [Completions -> CompletionState]
  /\ handler \in [Handlers -> Handler]
  /\ \A h \in Handlers : handler[h].pc = "idle" <=> handler[h].txId = None

(* The balance is what the ledger says it is: a session delivered many     *)
(* times is credited once, an expense is booked once, and a rollback or a  *)
(* restart between the two writes leaves neither.                          *)
BalanceIsLedger == balance = Initial + MapThenSumSet(Amount, ledger)

(* Nothing is booked that was not used or paid, and what the provider was  *)
(* told is credited is in the ledger.                                      *)
LedgerIsBacked ==
  /\ \A c \in Completions : c \in ledger <=> completion[c] = "booked"
  /\ \A s \in Sessions : s \in ledger <=> session[s] = "acked"

(* Money moves with the ledger and only with it: a step that changes one   *)
(* adds one transaction, for the first time, and its amount.               *)
BookedOnce ==
  [][\/ UNCHANGED <<balance, ledger>>
     \/ \E t \in TxId \ ledger :
          ledger' = ledger \cup {t} /\ balance' = balance + Amount(t)]_billingVars

(* A paid session is credited in the end, whatever fails on the way.       *)
RechargeCredited == \A s \in Sessions : session[s] = "paid" ~> s \in ledger

----------------------------------------------------------------------------
(* The inductive invariant of BillingProofs. *)

Writing(h) == handler[h].pc \in {"inserted", "updated"}

(* A handler at an expense is the only one, and the completion waits for it. *)
ExpenseHandled ==
  \A h \in Handlers :
    handler[h].txId \in Completions =>
      /\ completion[handler[h].txId] = "booking"
      /\ \A o \in Handlers : handler[o].txId = handler[h].txId => o = h

(* The unique index admits one writer of a txId, and none that is booked.  *)
OneWriter ==
  \A h \in Handlers :
    Writing(h) =>
      /\ handler[h].txId \notin ledger
      /\ \A o \in Handlers :
           Writing(o) /\ handler[o].txId = handler[h].txId => o = h

(* All a step needs to know of the state before it: together these parts   *)
(* are preserved by every handler, rollback and restart.                   *)
IInv == TypeOK /\ LedgerIsBacked /\ ExpenseHandled /\ OneWriter

============================================================================
