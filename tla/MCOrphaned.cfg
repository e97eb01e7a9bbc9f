SPECIFICATION TranscriptSpec
CONSTANTS
  Nothing = Nothing
  BoundSessions = 3
  BoundMessages = 3
  BoundExits = 1
INVARIANT NothingIsOrphaned
CONSTRAINT Small
CHECK_DEADLOCK FALSE
