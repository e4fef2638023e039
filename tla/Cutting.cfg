CONSTANTS
  target = 7
  maximum = 8
  minimum = 6
  MaxLength = 14
  MaxPages = 2
SPECIFICATION CutSpec
INVARIANTS
  Partition
  CutsByPreference
  SilentOnlyByLongSentence
  RuntsAreStuck
  PagesCoverChunk
CHECK_DEADLOCK FALSE
