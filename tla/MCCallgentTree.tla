--------------------------- MODULE MCCallgentTree ---------------------------
(***************************************************************************)
(* Two administrators of one tenant, and the hub.                          *)
(***************************************************************************)
EXTENDS CallgentTree, TLC

CONSTANTS a1, a2, own, hub, k1, k2

MCAdmins == {a1, a2}
MCTenants == {own, hub}
MCTenantOf == [a \in MCAdmins |-> own]
MCKeys == {k1, k2}
Symmetry == Permutations(MCAdmins) \cup Permutations(MCKeys)

=============================================================================
