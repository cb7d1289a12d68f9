CONSTANTS
  c1 = c1
  c2 = c2
  s1 = s1
  s2 = s2
  h1 = h1
  h2 = h2
  h3 = h3
  None = None
  Completions <- MCCompletions
  Sessions <- MCSessions
  Handlers <- MCHandlers
  TopUp <- MCTopUp
  Price <- MCPrice
  Initial = 1
SPECIFICATION FairSpec
CHECK_DEADLOCK FALSE
INVARIANTS
  BalanceIsLedger
  LedgerIsBacked
  IInv
PROPERTIES
  RechargeCredited
