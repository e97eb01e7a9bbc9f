SPECIFICATION FairSpec
CONSTANTS
  InboxCap = 2
  BoundSends = 3
  BoundInterrupts = 2
INVARIANTS IdleMeansAnswered IdleInterruptIsHarmless DoneMeansUnwound
PROPERTIES InboxDrains EveryTurnCloses
CHECK_DEADLOCK FALSE
