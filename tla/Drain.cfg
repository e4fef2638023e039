CONSTANTS
  Messages = {m1, m2, m3}
  Drainers = {d1, d2}
  BatchSize = 2
  MaxReceive = 2
  Timeout = 4
  SafetyMargin = 1
  PollWait = 1
  Longest = 3
  MaxFaults = 1
SPECIFICATION FairSpec
INVARIANTS
  DeadLettersWereTried
PROPERTIES
  EveryMessageSettles
