CONSTANTS
  Lookahead = 2
  Letters = {"a", "b"}
  MaxText = 5
  MaxHeard = 3
  MaxReported = 2
  MaxDuration = 3
  Attempts = 2
  EdgeTimeout = 150
  GoogleTimeout = 90
  EdgePause = 3
  GooglePause = 4
  Budgets = {60, 486, 487}
SPECIFICATION SpeakSpec
INVARIANTS
  WordsFollowText
  UsedUpInOrder
CHECK_DEADLOCK FALSE
