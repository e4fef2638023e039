CONSTANTS
  MaxChunks = 1
  SynthMaxReceive = 2
  StitchMaxReceive = 1
  ExtractMaxReceive = 1
  MaxEvents = 1
  MaxCrashes = 1
  MaxDuplicates = 0
  MaxSendFailures = 0
  ExtractWorkers = {x1}
  SynthWorkers = {w1}
  StitchWorkers = {s1}
  Silent = {}
  Lagging = {0}
  Readers = {r1}
SPECIFICATION Spec
INVARIANTS
  MissingMeansDeleted
  LeftoversAccountedFor
PROPERTIES
  BookStaysDeleted
CHECK_DEADLOCK FALSE
