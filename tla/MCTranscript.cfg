SPECIFICATION TranscriptSpec
CONSTANTS
  Nothing = Nothing
  BoundSessions = 3
  BoundMessages = 3
  BoundExits = 1
INVARIANTS SyncedSurvives WrittenOnce HistoryIsWhole SessionsListed
CONSTRAINT Small
CHECK_DEADLOCK FALSE
