CONSTANTS
  MaxChunks = 2
  SynthMaxReceive = 1
  StitchMaxReceive = 1
  ExtractMaxReceive = 2
  MaxEvents = 2
  MaxCrashes = 1
  MaxDuplicates = 0
  MaxSendFailures = 2
  ExtractWorkers = {x1, x2}
  ExtractSweepers = {d1}
SPECIFICATION FairSpec
INVARIANTS
  ExtractedHasRows
  OneExtraction
PROPERTIES
  NarrationSurvives
  EveryUploadSettles
CHECK_DEADLOCK FALSE
