CONSTANTS
  q1 = q1
  q2 = q2
  r1 = r1
  r2 = r2
  None = None
  Requests <- MCRequests
  Realms <- MCRealms
  Kinds <- MCKinds
  Validated = {r2}
  Setups <- MCSetups
  Statuses = {500}
  MaxReplies = 2
SYMMETRY Symmetry
SPECIFICATION Spec
CHECK_DEADLOCK FALSE
INVARIANTS
  IInv
  AnswerTellsRow
  PendingIsOwed
PROPERTIES
  ImplementsContract
