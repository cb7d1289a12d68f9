CONSTANTS
  e1 = e1
  e2 = e2
  r1 = r1
  r2 = r2
  l1 = l1
  l2 = l2
  l3 = l3
  None = None
  Events <- MCEvents2
  Runs <- MCRuns
  Listeners <- MCListeners1
  Prio <- MCPrio1
  Preset <- MCPreset1
  Stoppers <- MCStoppers
  Callbacks <- MCCallbacks
SPECIFICATION FairSpec
CHECK_DEADLOCK FALSE
PROPERTIES
  ImplementsContract
  EmitAnswered
