CONSTANTS
  Calls <- MCCalls
  Matches = {}
  Grants <- MCGrants
  MaxSteps = 3
  MaxNames = 2
  MaxDepth = 2
  MaxArgs = 0
SPECIFICATION Spec
INVARIANT RestoredCompares
CHECK_DEADLOCK FALSE
