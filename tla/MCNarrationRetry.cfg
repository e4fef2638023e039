CONSTANTS
  MaxChunks = 2
  SynthMaxReceive = 2
  StitchMaxReceive = 1
  MaxCrashes = 0
  MaxDuplicates = 1
  MaxSendFailures = 0
  MaxRetries = 1
  SynthWorkers = {w1}
  StitchWorkers = {s1}
  Sweepers = {d1}
  Retriers = {r1}
  Silent = {}
  Lagging = {}
SPECIFICATION FairSpec
PROPERTIES
  RetrySettles
CHECK_DEADLOCK FALSE
