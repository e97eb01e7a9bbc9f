SPECIFICATION FairSpec
CONSTANTS
  Calls = {c1, c2}
  Caps = {0, 1, 2}
  MaxTurnRetries = 1
  MaxRecovery = 1
  BoundSteps = 2
  BoundSends = 2
INVARIANTS RequestsAreComplete OneLateRequest NothingSwallowed
PROPERTIES ImplementsContract TurnReturns
CHECK_DEADLOCK FALSE
