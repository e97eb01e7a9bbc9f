SPECIFICATION FairSpec
CONSTANTS
  BashTasks = {b1}
  AgentTasks = {a1}
  Killers = {k1, k2}
  BoundLaunches = 1
  BoundWrites = 1
INVARIANTS OneVerdict CreatedFirst StopIsNotFailure
PROPERTIES EndIsAnnounced KillReturns
CHECK_DEADLOCK FALSE
