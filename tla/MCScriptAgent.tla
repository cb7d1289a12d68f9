--------------------------- MODULE MCScriptAgent ---------------------------
(***************************************************************************)
(* ScriptAgent with three endpoints, two purposes, one argument.           *)
(***************************************************************************)
EXTENDS ScriptAgent

CONSTANTS e1, e2, e3, p1, p2, a1

MCEndpoints == {e1, e2, e3}
MCPurposes == {p1, p2}
MCArgs == {a1}

(* S: the fields of a hint that are true. *)
MCHint(S) ==
  [flag |-> "flag" \in S, needConfirm |-> "needConfirm" \in S,
   fromAPI |-> "fromAPI" \in S, optional |-> "optional" \in S,
   mismatch |-> "mismatch" \in S, missing |-> "missing" \in S]

(* Said by the user, to be clarified, of another type with and without a   *)
(* conversion, optional, said to be clarified without being said, unknown. *)
MCHints ==
  {MCHint({"flag"}), MCHint({"flag", "needConfirm"}),
   MCHint({"flag", "mismatch"}), MCHint({"fromAPI", "mismatch", "missing"}),
   MCHint({"optional"}), MCHint({"needConfirm", "missing"}), MCHint({})}

MCHistories == {<<>>, <<"done">>, <<"pending">>, <<"error">>,
                <<"done", "pending">>}

Symmetry == Permutations(MCEndpoints) \cup Permutations(MCPurposes)

============================================================================
