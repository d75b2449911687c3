CONSTANTS
  InputStreams = {0, 1, 3, 4}
  Abbreviations <- MCAbbreviations
  Values <- MCValues
  Positions <- MCPositions
  DescriptorBuffer <- MCDescriptorBuffer
  PositionBuffer <- MCPositionBuffer
  Verbs <- MCVerbs
  MaxAccesses = 2
  Words <- MCWords
  MaxChannels = 17
SPECIFICATION PlaySpec
INVARIANTS
  RegistersSeparate
  StreamShows
  VerbIntact
  RoundTrip
  NamedRateExact
PROPERTY PlaysWhatWasSet
