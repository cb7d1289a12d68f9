-------------------------- MODULE MCClientRequest --------------------------
(***************************************************************************)
(* ClientRequest with two requests and two realms: an open callgent called *)
(* by HTTP or mail, and guarded ones with one or two alternatives.         *)
(***************************************************************************)
EXTENDS ClientRequest, TLC

CONSTANTS q1, q2, r1, r2

MCRequests == {q1, q2}
MCRealms == {r1, r2}

By(r, a) == [realm |-> r, attach |-> a]
MCSetup(cep, endpoint, sep, mail, params) ==
  [cep |-> cep, endpoint |-> endpoint, sep |-> sep, mail |-> mail,
   params |-> params]
MCSetups ==
  {MCSetup(<<>>, <<>>, <<>>, TRUE, TRUE),
   MCSetup(<<>>, <<By(r1, TRUE), By(r2, FALSE)>>, <<By(r2, TRUE)>>, TRUE, FALSE),
   MCSetup(<<>>, <<>>, <<By(r1, FALSE), By(r2, TRUE)>>, FALSE, TRUE),
   MCSetup(<<By(r1, FALSE), By(r2, FALSE)>>, <<>>, <<>>, FALSE, FALSE)}

MCKind(e, v, t, c) == [entry |-> e, via |-> v, timeout |-> t, callback |-> c]
MCKinds == {MCKind("rest", "request", FALSE, FALSE),
            MCKind("rest", "invoke", TRUE, FALSE),
            MCKind("rest", "invoke", FALSE, TRUE),
            MCKind("page", "request", FALSE, FALSE),
            MCKind("page", "invoke", TRUE, TRUE)}

Symmetry == Permutations(MCRequests)

============================================================================
