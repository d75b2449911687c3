CONSTANTS
  MaxVerbs = 8
  MaxRetries = 2
  AmpCap = 87
  Power <- MCPower
SPECIFICATION AmpSpec
INVARIANT TypeOK
PROPERTIES
  LagBounded
  DrainedMatches
  ChannelSpec
  ExchangeEnds
  CleanTaskExact
  NeverMutes
