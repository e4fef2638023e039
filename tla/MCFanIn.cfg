CONSTANTS
  MaxChunks = 2
  SynthMaxReceive = 2
  StitchMaxReceive = 1
  MaxCrashes = 1
  MaxDuplicates = 1
  MaxSendFailures = 1
  SynthWorkers = {w1, w2}
SPECIFICATION FairSpec
INVARIANTS
  TypeOK
  AdvertisedNarration
  DoneCountedOnce
  FailedCounted
  StitchNeverDropped
PROPERTIES
  FanInFires
CHECK_DEADLOCK FALSE
