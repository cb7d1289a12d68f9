CONSTANTS
  q1 = q1
  q2 = q2
  s1 = s1
  s2 = s2
  None = None
  Requests <- MCRequests
  Runs <- MCRuns
  EventOf <- MCEventOf
  Endpoints <- MCEndpoints
  Restarts = TRUE
SPECIFICATION FairSpec
CHECK_DEADLOCK FALSE
INVARIANTS
  IInv
  RowAndEventAgree
  DoneHasCommittedData
  CalledOnceIfChecked
PROPERTIES
  ImplementsContract
  RunsEnd
