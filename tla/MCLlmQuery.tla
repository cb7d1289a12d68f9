---------------------------- MODULE MCLlmQuery -----------------------------
(***************************************************************************)
(* LlmQuery with two calls, each a query or a chat, two attempts each, and *)
(* a handler that books their completions; nobody recharges meanwhile.     *)
(***************************************************************************)
EXTENDS LlmQuery

CONSTANTS q1, q2, h1

MCQueries == {q1, q2}
MCHandlers == {h1}
MCNoSessions == {}
MCNoTopUp == [s \in {} |-> 0]

============================================================================
