CONSTANTS
  MaxChunks = 2
  SynthMaxReceive = 1
  StitchMaxReceive = 2
  MaxCrashes = 0
  MaxDuplicates = 1
  MaxSendFailures = 0
  MaxRetries = 1
  SynthWorkers = {w1}
  StitchWorkers = {s1, s2}
  Sweepers = {d1}
  Retriers = {r1}
  Silent = {}
  Lagging = {0}
SPECIFICATION Spec
SYMMETRY WorkerSymmetry
INVARIANTS
  ManifestIsPlayable
PROPERTIES
  KeepsPromise
CHECK_DEADLOCK FALSE
