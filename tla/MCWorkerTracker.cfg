SPECIFICATION FairTrackerSpec
CONSTANTS
  Workers = {w1}
  Sessions = {d1, d2}
  None = None
  BoundPlan = 1
  BoundUI = 2
INVARIANTS DiskHasTheList
PROPERTIES AdoptedIsTended LocksAreFreed
CHECK_DEADLOCK FALSE
