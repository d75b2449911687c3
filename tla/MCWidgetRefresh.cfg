CONSTANTS
  LastNode = 6
  Codec <- MCCodec
  Bios <- MCBios
  Reset <- MCReset
  Channels = {4}
  MaxTimeouts = 1
  MaxCommands = 2
  NoResponse = NoResponse
SPECIFICATION Spec
PROPERTY
  RefreshUpdates
