CONSTANTS
  LastBus = 2
  NumDevices = 2
  NumFunctions = 3
  MaxPresent = 3
  Nowhere = Nowhere
  Tables <- MCTables
  MaxTextCommands = 2
SPECIFICATION EfiSpec
INVARIANTS
  TypeOK
  UsedIsLast
  BestChosen
PROPERTIES
  FindsAdvance
  SearchesEnd
  LookingEnds
