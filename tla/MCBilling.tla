----------------------------- MODULE MCBilling -----------------------------
(***************************************************************************)
(* Billing with two sessions, two completions and three handlers.          *)
(***************************************************************************)
EXTENDS Billing, TLC

CONSTANTS c1, c2, s1, s2, h1, h2, h3

MCCompletions == {c1, c2}
MCSessions == {s1, s2}
MCHandlers == {h1, h2, h3}
MCTopUp == (s1 :> 5) @@ (s2 :> 2)
MCPrice == (c1 :> 3) @@ (c2 :> 4)

============================================================================
