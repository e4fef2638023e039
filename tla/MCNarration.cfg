CONSTANTS
  MaxChunks = 2
  SynthMaxReceive = 2
  StitchMaxReceive = 2
  MaxCrashes = 1
  MaxDuplicates = 0
  MaxSendFailures = 1
  MaxRetries = 1
  SynthWorkers = {w1}
  StitchWorkers = {s1}
  Sweepers = {d1}
  Retriers = {r1}
  Silent = {1}
  Lagging = {}
SPECIFICATION FairSpec
INVARIANTS
  OutputsExist
  OutputsAgree
PROPERTIES
  StitchesAsPromised
  SettlesDespiteFaults
CHECK_DEADLOCK FALSE
