SPECIFICATION Spec
CONSTANTS
  c1 = c1
  c2 = c2
  Clients = {c1, c2}
  Other = other
  Names <- MCNames
  Dest <- MCDest
  Manifest <- MCManifest
  MaxFaults = 1
  MaxOutside = 1
INVARIANTS
  PublicationIsWhole
  CleanedUp
PROPERTIES
  OthersAreKept
CHECK_DEADLOCK FALSE
