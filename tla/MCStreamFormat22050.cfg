CONSTANTS
  Words = {}
  MaxChannels = 17
SPECIFICATION FormatSpec
INVARIANT EveryRateRoundTrips
