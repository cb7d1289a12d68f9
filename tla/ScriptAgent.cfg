CONSTANTS
  e1 = e1
  e2 = e2
  e3 = e3
  p1 = p1
  p2 = p2
  a1 = a1
  NoEp = NoEp
  Endpoints <- MCEndpoints
  Purposes <- MCPurposes
  Args <- MCArgs
  Hints <- MCHints
  Histories <- MCHistories
SYMMETRY Symmetry
SPECIFICATION AgentSpec
CHECK_DEADLOCK FALSE
INVARIANTS
  AgentIInv
  ConversationIsClean
  UncertainAskedAgain
