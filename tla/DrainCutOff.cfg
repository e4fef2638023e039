CONSTANTS
  Messages = {m1, m2, m3}
  Drainers = {d1}
  BatchSize = 3
  MaxReceive = 2
  Timeout = 7
  SafetyMargin = 5
  PollWait = 1
  Longest = 4
  MaxFaults = 1
SPECIFICATION FairSpec
INVARIANTS
  NoReceiveBurned
