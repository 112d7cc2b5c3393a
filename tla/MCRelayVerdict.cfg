SPECIFICATION Spec
CONSTANTS
  Settings <- MCSettings
  RelayHosts = {h1, h2}
  Binders <- MCBinders
  Incoming = {i1, i2}
  MaxWorkers = 1
INVARIANTS
  RelayVerdictIsTrue
CHECK_DEADLOCK FALSE
