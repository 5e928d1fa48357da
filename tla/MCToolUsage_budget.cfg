SPECIFICATION Spec
CONSTANTS
  h1 = h1
  h2 = h2
  t1 = t1
  t2 = t2
  a1 = a1
  a2 = a2
  denied = denied
  s1 = s1
  none = none
  Handler <- TwoHandlers
  McpSession <- OneSession
  Token <- NoTokens
  NoToken <- none
  Args <- ThreeArgs
  Permitted <- TwoArgs
  MaxCalls = 3
  MaxSameArgs = 2
  IdleReset = 1
  LastTime = 3
  MaxIssued = 4
INVARIANT TurnInBudget
CHECK_DEADLOCK FALSE
