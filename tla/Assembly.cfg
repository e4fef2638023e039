CONSTANTS
  Chunks = {1, 2, 3}
  MIN_PART_BYTES = 2
  Sizes = {0, 1, 5}
  Durations = {1, 2}
  Resolution = 4
  StitchMaxReceive = 2
  MaxFaults = 3
SPECIFICATION Spec
INVARIANTS
  WholeOrNothing
  ByteRangesAddressFrames
  PartsAreLegal
  BufferBounded
  UploadsAccountedFor
  TimelineExact
PROPERTIES
  AssemblesAsPromised
CHECK_DEADLOCK FALSE
