CONSTANTS
  Calls <- MCCalls
  Matches <- MCMatches
  Grants <- MCGrants
  MaxSteps = 3
  MaxNames = 2
  MaxDepth = 2
  MaxArgs = 2
SPECIFICATION Spec
INVARIANTS
  GuardsNest
  ReportsWhatIsUsed
  TakesWellFormed
  RequiredSuffices
PROPERTY
  RestoredAsSaved
CHECK_DEADLOCK FALSE
