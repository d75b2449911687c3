CONSTANTS
  Steps <- MCSteps
  InputStep = 31
  Capabilities = 215639
  Identities = {283902569}
  PinControls = {37}
  Headphone = TRUE
  MaxFlight = 2
  MaxCalls = 1
SPECIFICATION Spec
INVARIANTS
  PathOpen
  OutputOKTrue
PROPERTY PinKeepsVRef
