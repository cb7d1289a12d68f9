-------------------------- MODULE MCEventDispatch --------------------------
(***************************************************************************)
(* EventDispatch with small catalogues of listeners: l1 and l2 share a     *)
(* priority, l3 comes after them; l2 may stop the event; l1 is registered  *)
(* at run time.                                                            *)
(***************************************************************************)
EXTENDS EventDispatch, TLC

CONSTANTS e1, e2, r1, r2, l1, l2, l3

MCEvents2 == {e1, e2}
MCEvents1 == {e1}
MCRuns == {r1, r2}
MCListeners == {l1, l2, l3}
MCListeners1 == {l2}
MCPrio1 == l2 :> 0
MCPrio == (l1 :> 0) @@ (l2 :> 0) @@ (l3 :> 100)
MCPreset == {l2, l3}
MCPreset1 == {l2}
MCStoppers == {l2}
MCCallbacks == {e1}

Symmetry == Permutations(MCRuns)

============================================================================
