SPECIFICATION FairSpec
CONSTANTS
  Settings <- MCSettings
  RelayHosts = {h1, h2}
  Binders <- MCBinders
  Incoming = {i1, i2}
  MaxWorkers = 1
INVARIANTS
  EndpointIsOwned
  NoOrphanConnection
  DialVerdictIsTrue
  LocatorIsDialable
  DoctorForetells
PROPERTIES
  CommandsAnswer
CHECK_DEADLOCK FALSE
