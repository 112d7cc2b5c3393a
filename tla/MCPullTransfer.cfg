SPECIFICATION FairSpec
CONSTANTS
  MaxTransfer = 2
  Window = 2
  Manifests <- MCManifests
INVARIANTS
  PublishedIsVerified
  SidesAgree
  FailureLeavesNoDestination
PROPERTIES
  ImplementsAtomicPull
  PullEnds
CHECK_DEADLOCK FALSE
