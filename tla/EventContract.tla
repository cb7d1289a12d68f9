--------------------------- MODULE EventContract ---------------------------
(***************************************************************************)
(* What the event bus promises about one stored event, whatever the        *)
(* listeners are: an event is accepted once; a run may work on it only     *)
(* under a claim, taken when the event is new or when its stored outcome   *)
(* is pending; the outcome changes only when a claim is settled, and a     *)
(* claim may be dropped at any time (rolled-back transaction, restart).    *)
(* EventDispatch is shown to implement this specification.                 *)
(***************************************************************************)

CONSTANTS Events,   \* ids of events
          Runs,     \* concurrent executions of _invokeListeners
          None      \* "no event"

VARIABLES outcome,  \* [Events -> Outcome]: EventStore.statusCode
          claim,    \* [Runs -> Events \cup {None}]: the event a run works on
          accepted  \* events handed to emit()

vars == <<outcome, claim, accepted>>

(* EventStore.statusCode: 0 done, 1 processing, 2 pending, the rest errors *)
Outcome == {"absent", "done", "processing", "pending", "error"}
Final == {"done", "error"}

Claimed(e) == \E r \in Runs : claim[r] = e

(* An event nobody works on any more and whose outcome says so. *)
Settled(e) == outcome[e] \in Final /\ ~Claimed(e)

Init ==
  /\ outcome = [e \in Events |-> "absent"]
  /\ claim = [r \in Runs |-> None]
  /\ accepted = {}

Accept(r, e) ==
  /\ claim[r] = None
  /\ e \notin accepted
  /\ accepted' = accepted \cup {e}
  /\ claim' = [claim EXCEPT ![r] = e]
  /\ UNCHANGED outcome

Refuse(e) ==
  /\ e \notin accepted
  /\ accepted' = accepted \cup {e}
  /\ UNCHANGED <<outcome, claim>>

Reclaim(r, e) ==
  /\ claim[r] = None
  /\ outcome[e] = "pending"
  /\ claim' = [claim EXCEPT ![r] = e]
  /\ UNCHANGED <<outcome, accepted>>

Settle(r, o) ==
  /\ claim[r] # None
  /\ outcome' = [outcome EXCEPT ![claim[r]] = o]
  /\ claim' = [claim EXCEPT ![r] = None]
  /\ UNCHANGED accepted

Drop(S) ==
  /\ claim' = [r \in Runs |-> IF r \in S THEN None ELSE claim[r]]
  /\ UNCHANGED <<outcome, accepted>>

Next ==
  \/ \E r \in Runs, e \in Events : Accept(r, e) \/ Reclaim(r, e)
  \/ \E e \in Events : Refuse(e)
  \/ \E r \in Runs, o \in Outcome \ {"absent"} : Settle(r, o)
  \/ \E S \in SUBSET Runs : Drop(S)

Spec == Init /\ [][Next]_vars

(* A settled event stays settled: no callback that arrives after the last  *)
(* claim was given back can start the event again or change its outcome.   *)
SettledForever == [][\A e \in Events : Settled(e) => Settled(e)']_vars

============================================================================
