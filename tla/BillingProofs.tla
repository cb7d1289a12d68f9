--------------------------- MODULE BillingProofs ---------------------------
(***************************************************************************)
(* Proofs about Billing, for every set of completions, sessions and        *)
(* handlers and all amounts: its types, the agreement of the ledger with   *)
(* the payment provider and the completions, that every transaction moves  *)
(* the balance once, and that the balance is the sum of the ledger.        *)
(***************************************************************************)
EXTENDS Billing, FiniteSetTheorems, TLAPS

USE DEF TxId, Handler, Free, CompletionState

LEMMA AmountTyped == \A t \in TxId : Amount(t) \in Int
BY BillingAssumption DEF Amount

LEMMA InvInit == BillingInit => IInv
BY BillingAssumption
   DEF BillingInit, IInv, TypeOK, LedgerIsBacked, ExpenseHandled, OneWriter, Writing

(* What GiveUp(S) does to one handler, one session and one completion. *)
LEMMA GiveUpKeeps ==
  ASSUME IInv, NEW S \in SUBSET Handlers, GiveUp(S), UNCHANGED <<balance, ledger>>
  PROVE  IInv'
<1> USE DEF IInv, TypeOK
<1>1. /\ session' = session
      /\ \A h \in Handlers : handler'[h] = IF h \in S THEN Free ELSE handler[h]
      /\ handler' \in [Handlers -> Handler]
  BY DEF GiveUp, SessionAfterError
<1>2. /\ completion' \in [Completions -> CompletionState]
      /\ \A c \in Completions : completion'[c] = completion[c]
           \/ /\ completion'[c] = "unbooked" /\ c \notin ledger
              /\ \E h \in S : handler[h].txId = c
  BY DEF GiveUp
<1>3. TypeOK'
  BY <1>1, <1>2
<1>4. LedgerIsBacked'
  BY <1>1, <1>2 DEF LedgerIsBacked
<1>5. ExpenseHandled'
  <2> SUFFICES ASSUME NEW h \in Handlers, handler'[h].txId \in Completions
               PROVE  /\ completion'[handler'[h].txId] = "booking"
                      /\ \A o \in Handlers :
                           handler'[o].txId = handler'[h].txId => o = h
    BY DEF ExpenseHandled
  <2>1. h \notin S /\ handler'[h] = handler[h]
    BY <1>1, BillingAssumption
  <2> QED BY <1>1, <1>2, <2>1, BillingAssumption DEF ExpenseHandled
<1>6. OneWriter'
  BY <1>1 DEF OneWriter, Writing
<1> QED BY <1>3, <1>4, <1>5, <1>6

(* Insert, Increment and Commit, of the handler h. *)
LEMMA InsertKeeps ==
  ASSUME IInv, NEW h \in Handlers, Insert(h)
  PROVE  IInv'
<1>1. CASE Conflicts(handler[h].txId)
  BY <1>1, GiveUpKeeps DEF Insert
<1>2. CASE ~Conflicts(handler[h].txId)
  <2> USE DEF IInv, TypeOK
  <2>1. /\ UNCHANGED <<balance, ledger, session, completion>>
        /\ handler[h].pc = "started"
        /\ handler[h].txId \notin ledger
        /\ \A o \in Handlers : handler[o].txId = handler[h].txId => ~Writing(o)
        /\ handler' = [handler EXCEPT ![h].pc = "inserted"]
    BY <1>2 DEF Insert, Conflicts, Writing
  <2>2. /\ handler' \in [Handlers -> Handler]
        /\ \A o \in Handlers : handler'[o].txId = handler[o].txId
        /\ \A o \in Handlers : o # h => handler'[o] = handler[o]
        /\ handler'[h].pc = "inserted"
    BY <2>1
  <2>3. TypeOK' /\ LedgerIsBacked' /\ ExpenseHandled'
    BY <2>1, <2>2 DEF LedgerIsBacked, ExpenseHandled
  <2>4. OneWriter'
    BY <2>1, <2>2 DEF OneWriter, Writing
  <2> QED BY <2>3, <2>4
<1> QED BY <1>1, <1>2

LEMMA IncrementKeeps ==
  ASSUME IInv, NEW h \in Handlers, Increment(h)
  PROVE  IInv'
<1> USE DEF IInv, TypeOK
<1>1. /\ UNCHANGED <<balance, ledger, session, completion>>
      /\ handler' \in [Handlers -> Handler]
      /\ \A o \in Handlers : handler'[o].txId = handler[o].txId
      /\ \A o \in Handlers : Writing(o)' = Writing(o)
      /\ \A o \in Handlers : handler'[o].pc = "idle" <=> handler[o].pc = "idle"
  BY DEF Increment, Writing
<1>2. TypeOK' /\ LedgerIsBacked' /\ ExpenseHandled'
  BY <1>1 DEF LedgerIsBacked, ExpenseHandled
<1>3. OneWriter'
  BY <1>1 DEF OneWriter
<1> QED BY <1>2, <1>3

(* The transaction t of h is booked: it was not before. *)
LEMMA CommitBooks ==
  ASSUME IInv, NEW h \in Handlers, Commit(h)
  PROVE  /\ handler[h].txId \in TxId \ ledger
         /\ ledger' = ledger \cup {handler[h].txId}
         /\ balance' = balance + Amount(handler[h].txId)
<1>1. Writing(h) /\ handler[h].txId # None
  BY DEF Commit, Writing, IInv, TypeOK
<1> QED BY <1>1 DEF Commit, IInv, TypeOK, OneWriter

LEMMA CommitKeeps ==
  ASSUME IInv, NEW h \in Handlers, Commit(h)
  PROVE  IInv'
<1> DEFINE t == handler[h].txId
<1>1. /\ t \in TxId \ ledger
      /\ ledger' = ledger \cup {t}
      /\ balance' = balance + Amount(t)
  BY CommitBooks
<1> USE DEF IInv, TypeOK
<1>2. /\ Writing(h)
      /\ handler' \in [Handlers -> Handler]
      /\ handler'[h] = Free
      /\ \A o \in Handlers : o # h => handler'[o] = handler[o]
  BY DEF Commit, Writing
<1>3. /\ session' \in [Sessions -> {"open", "paid", "acked"}]
      /\ \A s \in Sessions : session'[s] = IF s = t THEN "acked" ELSE session[s]
      /\ completion' \in [Completions -> CompletionState]
      /\ \A c \in Completions :
           completion'[c] = IF c = t THEN "booked" ELSE completion[c]
  BY DEF Commit
<1> HIDE DEF t
<1>4. TypeOK'
  BY <1>1, <1>2, <1>3, AmountTyped
<1>5. LedgerIsBacked'
  BY <1>1, <1>3 DEF LedgerIsBacked
<1>6. \A o \in Handlers : o # h /\ handler[o].txId = t => t \notin Completions
  BY DEF t, ExpenseHandled
<1>7. ExpenseHandled'
  <2> SUFFICES ASSUME NEW p \in Handlers, handler'[p].txId \in Completions
               PROVE  /\ completion'[handler'[p].txId] = "booking"
                      /\ \A o \in Handlers :
                           handler'[o].txId = handler'[p].txId => o = p
    BY DEF ExpenseHandled
  <2>1. handler'[h].txId \notin Completions
    BY <1>2, BillingAssumption
  <2>2. p # h /\ handler'[p] = handler[p]
    BY <1>2, <2>1
  <2>3. /\ completion[handler[p].txId] = "booking"
        /\ \A o \in Handlers : handler[o].txId = handler[p].txId => o = p
    BY <2>2 DEF ExpenseHandled
  <2>4. handler[p].txId # t
    BY <1>6, <2>2
  <2>5. completion'[handler'[p].txId] = "booking"
    BY <1>3, <2>2, <2>3, <2>4
  <2>6. ASSUME NEW o \in Handlers, handler'[o].txId = handler'[p].txId
        PROVE  o = p
    <3>1. o # h
      BY <2>1, <2>6
    <3> QED BY <1>2, <2>2, <2>3, <2>6, <3>1
  <2> QED BY <2>5, <2>6
<1>8. \A o \in Handlers : o # h /\ Writing(o) => handler[o].txId # t
  BY <1>2 DEF t, OneWriter
<1>9. OneWriter'
  BY <1>1, <1>2, <1>8 DEF OneWriter, Writing
<1> QED BY <1>4, <1>5, <1>7, <1>9

(* The calls of the LLM service and of the payment provider. *)
LEMMA CallsKeep ==
  ASSUME IInv,
         \/ \E c \in Completions : Check(c) \/ Answer(c) \/ AnswerFails(c)
                                  \/ RefuseExpense(c)
         \/ \E s \in Sessions : Pay(s)
  PROVE  IInv'
<1> USE DEF IInv, TypeOK, LedgerIsBacked
<1>1. /\ UNCHANGED <<balance, ledger, handler>>
      /\ session' \in [Sessions -> {"open", "paid", "acked"}]
      /\ \A s \in Sessions : session'[s] = "acked" <=> session[s] = "acked"
      /\ completion' \in [Completions -> CompletionState]
      /\ \A c \in Completions : completion'[c] = "booked" <=> completion[c] = "booked"
      /\ \A c \in Completions : completion[c] = "booking" => completion'[c] = "booking"
  BY DEF Check, Answer, AnswerFails, RefuseExpense, Pay
<1>2. TypeOK' /\ LedgerIsBacked'
  BY <1>1
<1>3. ExpenseHandled' /\ OneWriter'
  BY <1>1 DEF ExpenseHandled, OneWriter, Writing
<1> QED BY <1>2, <1>3

(* A handler starts. *)
LEMMA StartsKeep ==
  ASSUME IInv, NEW h \in Handlers,
         \/ \E c \in Completions : StartExpense(h, c)
         \/ \E s \in Sessions : Deliver(h, s)
  PROVE  IInv'
<1> USE DEF IInv, TypeOK
<1>1. PICK t \in TxId :
        /\ UNCHANGED <<balance, ledger, session>>
        /\ handler[h] = Free
        /\ handler' = [handler EXCEPT ![h] = [pc |-> "started", txId |-> t]]
        /\ \/ /\ t \in Completions
              /\ completion[t] = "answered"
              /\ completion' = [completion EXCEPT ![t] = "booking"]
           \/ t \in Sessions /\ completion' = completion
  BY DEF StartExpense, Deliver
<1>2. /\ handler' \in [Handlers -> Handler]
      /\ handler'[h].pc = "started" /\ handler'[h].txId = t /\ t # None
      /\ \A o \in Handlers : o # h => handler'[o] = handler[o]
  BY <1>1, BillingAssumption
<1>3. /\ completion' \in [Completions -> CompletionState]
      /\ \A c \in Completions : c # t => completion'[c] = completion[c]
      /\ t \in Completions => completion[t] = "answered" /\ completion'[t] = "booking"
  BY <1>1, BillingAssumption
<1>4. TypeOK'
  BY <1>1, <1>2, <1>3
<1>5. LedgerIsBacked'
  BY <1>1, <1>3 DEF LedgerIsBacked
<1>6. t \in Completions => \A o \in Handlers : handler[o].txId # t
  BY <1>3 DEF ExpenseHandled
<1>7. ExpenseHandled'
  <2> SUFFICES ASSUME NEW p \in Handlers, handler'[p].txId \in Completions
               PROVE  /\ completion'[handler'[p].txId] = "booking"
                      /\ \A o \in Handlers :
                           handler'[o].txId = handler'[p].txId => o = p
    BY DEF ExpenseHandled
  <2>1. CASE p = h
    <3>1. handler'[p].txId = t /\ t \in Completions
      BY <1>2, <2>1
    <3>2. completion'[handler'[p].txId] = "booking"
      BY <1>3, <3>1
    <3>3. ASSUME NEW o \in Handlers, handler'[o].txId = handler'[p].txId
          PROVE  o = p
      BY <1>2, <1>6, <2>1, <3>1, <3>3
    <3> QED BY <3>2, <3>3
  <2>2. CASE p # h
    <3>1. handler'[p] = handler[p] /\ handler[p].txId \in Completions
      BY <1>2, <2>2
    <3>2. /\ completion[handler[p].txId] = "booking"
          /\ \A o \in Handlers : handler[o].txId = handler[p].txId => o = p
      BY <3>1 DEF ExpenseHandled
    <3>3. handler[p].txId # t
      BY <1>6, <3>1
    <3>4. completion'[handler'[p].txId] = "booking"
      BY <1>3, <3>1, <3>2, <3>3
    <3>5. ASSUME NEW o \in Handlers, handler'[o].txId = handler'[p].txId
          PROVE  o = p
      <4>1. o # h
        BY <1>2, <3>1, <3>3, <3>5
      <4> QED BY <1>2, <3>1, <3>2, <3>5, <4>1
    <3> QED BY <3>4, <3>5
  <2> QED BY <2>1, <2>2
<1>8. OneWriter'
  BY <1>1, <1>2 DEF OneWriter, Writing
<1> QED BY <1>4, <1>5, <1>7, <1>8

LEMMA RestartKeeps ==
  ASSUME IInv, Restart
  PROVE  IInv'
<1> USE DEF IInv, TypeOK
<1>1. /\ UNCHANGED <<balance, ledger, session>>
      /\ handler' = [h \in Handlers |-> Free]
      /\ completion' \in [Completions -> CompletionState]
      /\ \A c \in Completions : completion'[c] = "booked" <=> completion[c] = "booked"
  BY DEF Restart, SessionAfterError
<1>2. TypeOK' /\ LedgerIsBacked'
  BY <1>1 DEF LedgerIsBacked
<1>3. ExpenseHandled' /\ OneWriter'
  BY <1>1, BillingAssumption DEF ExpenseHandled, OneWriter, Writing
<1> QED BY <1>2, <1>3

LEMMA InvStep == IInv /\ [BillingNext]_billingVars => IInv'
<1> SUFFICES ASSUME IInv, [BillingNext]_billingVars PROVE IInv'
  OBVIOUS
<1>1. CASE \E c \in Completions : Check(c) \/ Answer(c) \/ AnswerFails(c)
  BY <1>1, CallsKeep
<1>2. CASE BackgroundStep
  <2>1. CASE \/ \E s \in Sessions : Pay(s)
             \/ \E c \in Completions : RefuseExpense(c)
    BY <2>1, CallsKeep
  <2>2. CASE \/ \E h \in Handlers, s \in Sessions : Deliver(h, s)
             \/ \E h \in Handlers, c \in Completions : StartExpense(h, c)
    BY <2>2, StartsKeep
  <2>3. CASE \E h \in Handlers : Writes(h)
    BY <2>3, InsertKeeps, IncrementKeeps, CommitKeeps DEF Writes
  <2>4. CASE \E h \in Handlers : Abort(h)
    <3>1. PICK h \in Handlers : Abort(h)
      BY <2>4
    <3>2. {h} \in SUBSET Handlers
      OBVIOUS
    <3> QED BY <3>1, <3>2, GiveUpKeeps DEF Abort
  <2> QED BY <1>2, <2>1, <2>2, <2>3, <2>4 DEF BackgroundStep
<1>3. CASE Restart
  BY <1>3, RestartKeeps
<1>4. CASE UNCHANGED billingVars
  BY <1>4 DEF billingVars, IInv, TypeOK, LedgerIsBacked, ExpenseHandled,
              OneWriter, Writing
<1> QED BY <1>1, <1>2, <1>3, <1>4 DEF BillingNext

(* IInv holds in every state: what concurrent webhooks, expense handlers,  *)
(* rollbacks and restarts do to the rows never breaks it.                  *)
THEOREM Invariance == Spec => []IInv
BY InvInit, InvStep, PTL DEF Spec

(* Handlers, ledger, sessions and completions keep their types, and a      *)
(* handler of TransactionsService.create() always has a txId.              *)
THEOREM TypeCorrect == Spec => []TypeOK
BY Invariance, PTL DEF IInv

(* handleStripeWebhook() acknowledges exactly the sessions in the ledger,  *)
(* and addModelExpense() books exactly the completions it reports.         *)
THEOREM LedgerIsBackedHolds == Spec => []LedgerIsBacked
BY Invariance, PTL DEF IInv

LEMMA BooksStep ==
  ASSUME IInv, [BillingNext]_billingVars
  PROVE  \/ UNCHANGED <<balance, ledger>>
         \/ \E t \in TxId \ ledger :
              ledger' = ledger \cup {t} /\ balance' = balance + Amount(t)
<1>1. CASE \E h \in Handlers : Commit(h)
  BY <1>1, CommitBooks
<1>2. CASE ~ \E h \in Handlers : Commit(h)
  BY <1>2 DEF BillingNext, BackgroundStep, billingVars, Check, Answer, AnswerFails,
     Pay, Deliver, RefuseExpense, StartExpense, Writes, Insert, Increment, Abort,
     Restart
<1> QED BY <1>1, <1>2

(* create() books a txId once and moves the balance by its amount then,    *)
(* however often the webhook is delivered and whatever aborts.             *)
THEOREM BookedOnceHolds == Spec => BookedOnce
<1>1. IInv /\ [BillingNext]_billingVars =>
        [\/ UNCHANGED <<balance, ledger>>
         \/ \E t \in TxId \ ledger :
              ledger' = ledger \cup {t} /\ balance' = balance + Amount(t)]_billingVars
  BY BooksStep
<1> QED BY <1>1, Invariance, PTL DEF Spec, BookedOnce

----------------------------------------------------------------------------
(* The sum over a ledger.  MapThenSumSet is a recursive function on the    *)
(* subsets of its argument; what it is worth is shown by taking a smallest *)
(* subset for which it would not hold.                                     *)

(* A set of finite sets that is not empty has a smallest one: induction    *)
(* over the ledger in the form the provers can use.                        *)
LEMMA Smallest ==
  ASSUME NEW S, NEW T, T \subseteq FiniteSubsetsOf(S), T # {}
  PROVE  \E m \in T : \A s \in T : s \subseteq m => s = m
<1>1. \E m \in T : \A s \in T : <<s, m>> \notin StrictSubsetOrdering(S)
  BY FS_StrictSubsetOrderingWellFounded, WFMin
<1> QED BY <1>1 DEF StrictSubsetOrdering, FiniteSubsetsOf

(* f gives every part of S its total. *)
IsTotal(f, S) ==
  /\ f \in [SUBSET S -> Int]
  /\ f[{}] = 0
  /\ \A T \in SUBSET S : \A x \in S \ T : f[T \cup {x}] = f[T] + Amount(x)

(* f adds up as the fold over S does. *)
AddsUp(f, S) ==
  f = [s \in SUBSET S |->
         IF s = {} THEN 0
         ELSE LET x == CHOOSE x \in s : TRUE IN Amount(x) + f[s \ {x}]]

Total(S) == MapThenSumSet(Amount, S)

LEMMA SumUnfolds == \A S : Total(S) = (CHOOSE f : AddsUp(f, S))[S]
BY DEF Total, MapThenSumSet, MapThenFoldSet, AddsUp

LEMMA TotalExtends ==
  ASSUME NEW S \in SUBSET TxId, NEW x \in S, NEW f, IsTotal(f, S \ {x})
  PROVE  \E g : IsTotal(g, S)
<1> DEFINE g == [T \in SUBSET S |->
                   IF x \in T THEN f[T \ {x}] + Amount(x) ELSE f[T]]
<1>0. /\ f \in [SUBSET (S \ {x}) -> Int] /\ f[{}] = 0
      /\ Amount(x) \in Int /\ \A y \in S : Amount(y) \in Int
      /\ \A T \in SUBSET (S \ {x}) : \A y \in (S \ {x}) \ T :
           f[T \cup {y}] = f[T] + Amount(y)
  BY AmountTyped DEF IsTotal
<1>1. \A T \in SUBSET S : T \ {x} \in SUBSET (S \ {x})
  OBVIOUS
<1>2. \A T \in SUBSET S : x \notin T => T \in SUBSET (S \ {x})
  OBVIOUS
<1>3. g \in [SUBSET S -> Int]
  BY <1>0, <1>1, <1>2
<1>4. g[{}] = 0
  BY <1>0
<1>5. ASSUME NEW T \in SUBSET S, NEW y \in S \ T
      PROVE  g[T \cup {y}] = g[T] + Amount(y)
  <2>1. T \cup {y} \in SUBSET S
    OBVIOUS
  <2>2. CASE y = x
    <3>1. (T \cup {y}) \ {x} = T /\ T \in SUBSET (S \ {x})
      BY <2>2
    <3> QED BY <2>1, <2>2, <3>1
  <2>3. CASE y # x /\ x \in T
    <3>1. (T \cup {y}) \ {x} = (T \ {x}) \cup {y}
      BY <2>3
    <3>2. y \in (S \ {x}) \ (T \ {x})
      BY <2>3
    <3>3. f[(T \ {x}) \cup {y}] = f[T \ {x}] + Amount(y)
      BY <1>0, <1>1, <3>2
    <3>4. f[T \ {x}] \in Int
      BY <1>0, <1>1
    <3>5. g[T \cup {y}] = f[(T \ {x}) \cup {y}] + Amount(x)
      BY <2>1, <2>3, <3>1
    <3>6. g[T] = f[T \ {x}] + Amount(x)
      BY <2>3
    <3> HIDE DEF g
    <3> QED BY <1>0, <3>3, <3>4, <3>5, <3>6
  <2>4. CASE y # x /\ x \notin T
    BY <1>0, <1>2, <2>1, <2>4
  <2> QED BY <2>2, <2>3, <2>4
<1> HIDE DEF g
<1>6. IsTotal(g, S)
  BY <1>3, <1>4, <1>5 DEF IsTotal
<1> QED BY <1>6

LEMMA TotalExists ==
  ASSUME NEW S \in SUBSET TxId, IsFiniteSet(S)
  PROVE  \E f : IsTotal(f, S)
<1> DEFINE Bad == {T \in FiniteSubsetsOf(S) : ~ \E f : IsTotal(f, T)}
<1>1. S \in FiniteSubsetsOf(S)
  BY DEF FiniteSubsetsOf
<1>2. SUFFICES ASSUME Bad # {} PROVE FALSE
  BY <1>1
<1>3. PICK m \in Bad : \A s \in Bad : s \subseteq m => s = m
  <2>1. Bad \subseteq FiniteSubsetsOf(S)
    OBVIOUS
  <2> HIDE DEF Bad
  <2> QED BY <1>2, <2>1, Smallest
<1>4. m \in SUBSET S /\ IsFiniteSet(m) /\ m \in SUBSET TxId
  BY DEF FiniteSubsetsOf
<1>5. m # {}
  <2>1. IsTotal([s \in SUBSET {} |-> 0], {})
    BY DEF IsTotal
  <2> QED BY <2>1
<1>6. PICK x \in m : TRUE
  BY <1>5
<1>7. m \ {x} \in FiniteSubsetsOf(S)
  BY <1>4, FS_Subset DEF FiniteSubsetsOf
<1>8. m \ {x} \notin Bad
  BY <1>3, <1>6
<1>9. PICK f : IsTotal(f, m \ {x})
  BY <1>7, <1>8
<1> QED BY <1>4, <1>6, <1>9, TotalExtends

LEMMA TotalAddsUp ==
  ASSUME NEW S \in SUBSET TxId, NEW f, IsTotal(f, S)
  PROVE  AddsUp(f, S)
<1> DEFINE r(s) == IF s = {} THEN 0
                   ELSE LET x == CHOOSE x \in s : TRUE IN Amount(x) + f[s \ {x}]
<1>1. f \in [SUBSET S -> Int] /\ f[{}] = 0
  BY DEF IsTotal
<1>2. ASSUME NEW s \in SUBSET S
      PROVE  f[s] = r(s)
  <2>1. CASE s = {}
    BY <1>1, <2>1
  <2>2. CASE s # {}
    <3> DEFINE x == CHOOSE x \in s : TRUE
    <3>1. x \in s
      BY <2>2
    <3> HIDE DEF x
    <3>2. s \ {x} \in SUBSET S /\ x \in S \ (s \ {x}) /\ (s \ {x}) \cup {x} = s
      BY <3>1
    <3>3. f[s] = f[s \ {x}] + Amount(x)
      BY <3>2 DEF IsTotal
    <3>4. f[s \ {x}] \in Int /\ Amount(x) \in Int
      BY <1>1, <3>2, AmountTyped
    <3>5. f[s] = Amount(x) + f[s \ {x}]
      BY <3>3, <3>4
    <3> QED BY <2>2, <3>5 DEF x
  <2> QED BY <2>1, <2>2
<1>3. f = [s \in SUBSET S |-> f[s]]
  BY <1>1
<1> QED BY <1>2, <1>3 DEF AddsUp

LEMMA AddsUpUnique ==
  ASSUME NEW S, IsFiniteSet(S), NEW f, NEW g, AddsUp(f, S), AddsUp(g, S)
  PROVE  f = g
<1> DEFINE Bad == {T \in FiniteSubsetsOf(S) : f[T] # g[T]}
<1>1. FiniteSubsetsOf(S) = SUBSET S
  BY FS_FiniteSubsetsOfFinite
<1>2. ASSUME Bad # {} PROVE FALSE
  <2>1. PICK m \in Bad : \A s \in Bad : s \subseteq m => s = m
    <3>1. Bad \subseteq FiniteSubsetsOf(S)
      OBVIOUS
    <3> HIDE DEF Bad
    <3> QED BY <1>2, <3>1, Smallest
  <2>2. m \in SUBSET S /\ f[m] # g[m]
    BY <1>1
  <2>3. CASE m = {}
    BY <2>2, <2>3 DEF AddsUp
  <2>4. CASE m # {}
    <3> DEFINE x == CHOOSE x \in m : TRUE
    <3>1. x \in m
      BY <2>4
    <3>2. f[m] = Amount(x) + f[m \ {x}] /\ g[m] = Amount(x) + g[m \ {x}]
      BY <2>2, <2>4 DEF AddsUp
    <3> HIDE DEF x
    <3>3. m \ {x} \in FiniteSubsetsOf(S) /\ m \ {x} # m
      BY <1>1, <2>2, <3>1
    <3>4. f[m \ {x}] = g[m \ {x}]
      BY <2>1, <3>3
    <3> QED BY <2>2, <3>2, <3>4
  <2> QED BY <2>3, <2>4
<1>3. \A T \in SUBSET S : f[T] = g[T]
  BY <1>1, <1>2
<1>4. f = [s \in SUBSET S |-> f[s]] /\ g = [s \in SUBSET S |-> g[s]]
  BY DEF AddsUp
<1> QED BY <1>3, <1>4

(* The fold is the total. *)
LEMMA SumIsTotal ==
  ASSUME NEW S \in SUBSET TxId, IsFiniteSet(S), NEW f, IsTotal(f, S)
  PROVE  Total(S) = f[S]
<1>1. AddsUp(f, S)
  BY TotalAddsUp
<1>2. AddsUp(CHOOSE g : AddsUp(g, S), S)
  BY <1>1
<1>3. (CHOOSE g : AddsUp(g, S)) = f
  BY <1>1, <1>2, AddsUpUnique
<1> QED BY <1>3, SumUnfolds

LEMMA SumTyped ==
  ASSUME NEW S \in SUBSET TxId, IsFiniteSet(S)
  PROVE  Total(S) \in Int
<1>1. PICK f : IsTotal(f, S)
  BY TotalExists
<1>2. f[S] \in Int
  BY <1>1 DEF IsTotal
<1> QED BY <1>1, <1>2, SumIsTotal

LEMMA SumOfNone == Total({}) = 0
<1>1. IsTotal([s \in SUBSET {} |-> 0], {})
  BY DEF IsTotal
<1>2. IsFiniteSet({}) /\ {} \in SUBSET TxId
  BY FS_EmptySet
<1> DEFINE f == [s \in SUBSET {} |-> 0]
<1>3. f[{}] = 0
  OBVIOUS
<1> HIDE DEF f
<1> QED BY <1>1, <1>2, <1>3, SumIsTotal DEF f

LEMMA SumAddsOne ==
  ASSUME NEW S \in SUBSET TxId, IsFiniteSet(S), NEW t \in TxId \ S
  PROVE  Total(S \cup {t}) = Total(S) + Amount(t)
<1> DEFINE U == S \cup {t}
<1>1. U \in SUBSET TxId /\ IsFiniteSet(U)
  BY FS_AddElement
<1>2. PICK f : IsTotal(f, U)
  BY <1>1, TotalExists
<1>3. IsTotal([T \in SUBSET S |-> f[T]], S)
  <2>1. /\ f \in [SUBSET U -> Int] /\ f[{}] = 0
        /\ \A T \in SUBSET S : T \in SUBSET U
        /\ \A T \in SUBSET S : \A x \in S \ T : x \in U \ T /\ T \cup {x} \in SUBSET S
    BY <1>2 DEF IsTotal
  <2>2. \A T \in SUBSET U : \A x \in U \ T : f[T \cup {x}] = f[T] + Amount(x)
    BY <1>2 DEF IsTotal
  <2> HIDE DEF U
  <2> QED BY <2>1, <2>2 DEF IsTotal
<1>4. Total(S) = f[S]
  <2> DEFINE g == [T \in SUBSET S |-> f[T]]
  <2>1. g[S] = f[S]
    OBVIOUS
  <2>2. IsTotal(g, S)
    BY <1>3
  <2> HIDE DEF g
  <2> QED BY <2>1, <2>2, SumIsTotal
<1>5. Total(U) = f[U]
  BY <1>1, <1>2, SumIsTotal
<1>6. f[U] = f[S] + Amount(t)
  BY <1>2 DEF IsTotal
<1> QED BY <1>4, <1>5, <1>6

----------------------------------------------------------------------------
(* A ledger is written one transaction at a time, so it has a sum. *)
Books == IsFiniteSet(ledger) /\ BalanceIsLedger

LEMMA BooksInit == BillingInit => Books
<1>1. ASSUME BillingInit PROVE Books
  <2>1. balance = Initial + Total(ledger)
    BY <1>1, SumOfNone, BillingAssumption DEF BillingInit
  <2> QED BY <1>1, <2>1, FS_EmptySet DEF BillingInit, Books, BalanceIsLedger, Total
<1> QED BY <1>1

LEMMA BooksKeep ==
  ASSUME IInv, Books, [BillingNext]_billingVars
  PROVE  Books'
<1>1. CASE UNCHANGED <<balance, ledger>>
  <2>1. IsFiniteSet(ledger) /\ balance = Initial + Total(ledger)
    BY DEF Books, BalanceIsLedger, Total
  <2>2. IsFiniteSet(ledger') /\ balance' = Initial + Total(ledger')
    BY <1>1, <2>1
  <2> QED BY <2>2 DEF Books, BalanceIsLedger, Total
<1>2. CASE \E t \in TxId \ ledger :
             ledger' = ledger \cup {t} /\ balance' = balance + Amount(t)
  <2>1. PICK t \in TxId \ ledger :
          ledger' = ledger \cup {t} /\ balance' = balance + Amount(t)
    BY <1>2
  <2>2. /\ IsFiniteSet(ledger) /\ ledger \in SUBSET TxId
        /\ balance = Initial + Total(ledger)
    BY DEF Books, BalanceIsLedger, IInv, TypeOK, Total
  <2>3. Total(ledger \cup {t}) = Total(ledger) + Amount(t)
    BY <2>2, SumAddsOne
  <2>4. Total(ledger) \in Int
    BY <2>2, SumTyped
  <2>5. Amount(t) \in Int /\ Initial \in Int
    BY AmountTyped, BillingAssumption
  <2>6. balance' = Initial + Total(ledger')
    BY <2>1, <2>2, <2>3, <2>4, <2>5
  <2>7. IsFiniteSet(ledger')
    BY <2>1, <2>2, FS_AddElement
  <2> QED BY <2>6, <2>7 DEF Books, BalanceIsLedger, Total
<1> QED BY <1>1, <1>2, BooksStep

(* The balance of a tenant is what it started with and the sum of its      *)
(* transactions: create() commits both writes or neither, and a webhook    *)
(* delivered again finds the txId taken.                                   *)
THEOREM BalanceIsLedgerHolds == Spec => []BalanceIsLedger
<1>1. IInv /\ Books /\ [BillingNext]_billingVars => Books'
  BY BooksKeep
<1>2. Books => BalanceIsLedger
  BY DEF Books
<1> QED BY <1>1, <1>2, BooksInit, Invariance, PTL DEF Spec

============================================================================
