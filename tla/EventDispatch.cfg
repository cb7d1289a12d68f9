CONSTANTS
  e1 = e1
  e2 = e2
  r1 = r1
  r2 = r2
  l1 = l1
  l2 = l2
  l3 = l3
  None = None
  Events <- MCEvents1
  Runs <- MCRuns
  Listeners <- MCListeners
  Prio <- MCPrio
  Preset <- MCPreset
  Stoppers <- MCStoppers
  Callbacks <- MCCallbacks
SYMMETRY Symmetry
SPECIFICATION Spec
CHECK_DEADLOCK FALSE
INVARIANTS
  PendingNamesOwner
  AnswerMatchesStore
  NoListenerSkipped
  IInv
