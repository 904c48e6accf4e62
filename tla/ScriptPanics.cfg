CONSTANTS
  Calls <- MCCommands
  Matches = {}
  Grants <- MCGrants
  MaxSteps = 3
  MaxNames = 2
  MaxDepth = 2
  MaxArgs = 0
SPECIFICATION Spec
INVARIANT RefersToUsable
CHECK_DEADLOCK FALSE
