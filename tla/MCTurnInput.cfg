SPECIFICATION Spec
CONSTANTS
  Typed = {m1, m2}
  Slash = {m2}
  Crons = {c1}
  Hooks = {h1}
  Notices = {n1}
  NoText = NoText
  MaxQueue = 2
  MaxCron = 1
  OutboxCap = 2
  MaxSteps = 1
  BoundDetours = 1
  BoundTokens = 3
  BoundTroubles = 2
INVARIANTS QuietIsIdle WaitersHaveATurn EachOnce
PROPERTIES ReleaseKeepsEdit
CHECK_DEADLOCK FALSE
