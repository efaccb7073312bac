\* Two sequence halves of 2 (wrap after 4), two sessions, identifiers 1..2.
CONSTANTS
  SequenceHalf = 2
  MotionSessionIds = {0, 1}
  OperationMod = 3
  None = None
  Watchable <- MCWatchable
SPECIFICATION HistorySpec
INVARIANTS
  OpenIffPending AnswersAgree AwaitedIsNewest
