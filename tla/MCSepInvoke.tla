---------------------------- MODULE MCSepInvoke ----------------------------
(***************************************************************************)
(* SepInvoke with two requests, each of which may have two runs at a time; *)
(* every kind of endpoint, or the ones with a cached promise only.         *)
(***************************************************************************)
EXTENDS SepInvoke

CONSTANTS q1, q2,  \* requests
          s1, s2   \* slots of runs

MCRequests == {q1, q2}
MCRuns == MCRequests \X {s1, s2}
MCEventOf == [r \in MCRuns |-> r[1]]
MCKinds == [isAsync : BOOLEAN, cacheTtl : BOOLEAN, cacheKey : BOOLEAN]
(* Without a key a TTL makes no difference; without a TTL and synchronous, *)
(* neither does a key.                                                     *)
MCEndpoints == {e \in MCKinds : (e.cacheTtl => e.cacheKey)
                               /\ (e.cacheKey => e.isAsync \/ e.cacheTtl)}
MCPromise == {e \in MCKinds : e.isAsync /\ e.cacheKey /\ ~e.cacheTtl}

============================================================================
