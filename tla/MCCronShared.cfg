SPECIFICATION CronSpec
CONSTANTS
  Windows = {p1, p2}
  Jobs = {j1, j2, j3}
  Recurring = {j1}
  Durable = {j1, j2}
  MaxJobs = 2
  Expiry = 1
  None = None
  BoundTime = 2
  BoundBoots = 3
  BoundFaults = 1
INVARIANTS FileMatchesWriter NoneIsLost
PROPERTIES RemovedStaysRemoved OthersAreKept
CHECK_DEADLOCK FALSE
SYMMETRY WindowSymmetry
