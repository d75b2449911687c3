CONSTANTS
  InputStreams = {0, 2}
  OutputStreams = 2
  DelayCovers = TRUE
  MaxCalls = 3
SPECIFICATION Spec
INVARIANTS
  TypeOK
  RunsProgrammed
  BootPlays
PROPERTIES
  FetchesInBuffer
  BootEnds
