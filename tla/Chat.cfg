CONSTANTS
  CONTEXT_NEIGHBOURS = 1
  MAX_CONTEXT_CHARS = 3
  MAX_HISTORY_PAIRS = 1
  Turns = {1, 2, 3}
  Past = {1}
  NumChunks = 3
  Lengths = {1, 2, 4}
  Anchors = {1, 5}
  DailyLimit = 2
  DayLength = 3
  Times = {1, 3}
  MaxDeltas = 1
  MaxCrashes = 1
SPECIFICATION Spec
INVARIANTS
  PaidFor
  DoneMeansSaved
  WindowFits
PROPERTIES
  NoReplay
  PromptIsTurns
CHECK_DEADLOCK FALSE
