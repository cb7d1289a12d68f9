CONSTANTS
  None = None
  MaxCommands = 1
SPECIFICATION FairSpec
CHECK_DEADLOCK FALSE
PROPERTIES
  ScriptGoesOn
