CONSTANTS
  q1 = q1
  q2 = q2
  h1 = h1
  None = None
  Queries <- MCQueries
  Schemas <- MCQueries
  MaxRetry = 2
  Handlers <- MCHandlers
  Sessions <- MCNoSessions
  TopUp <- MCNoTopUp
  Initial = 2
  Cost = 1
SPECIFICATION FairSpec
CHECK_DEADLOCK FALSE
INVARIANTS
  IInv
  ReturnsOwnAnswer
  CachedIsValid
PROPERTIES
  Billed
  QueryEnds
