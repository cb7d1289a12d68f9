CONSTANTS
  None = None
  MaxCommands = 3
SPECIFICATION FairSpec
CHECK_DEADLOCK FALSE
INVARIANTS
  IInv
  PendingCalledOut
  DataIsOfEndedScript
PROPERTIES
  RunsEndUnlessStuck
