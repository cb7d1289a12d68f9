CONSTANTS
  q1 = q1
  q2 = q2
  s1 = s1
  s2 = s2
  None = None
  Requests <- MCRequests
  Runs <- MCRuns
  EventOf <- MCEventOf
  Endpoints <- MCPromise
  Restarts = FALSE
SPECIFICATION Spec
CHECK_DEADLOCK FALSE
INVARIANTS
  ObserversInformed
