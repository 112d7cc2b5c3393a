SPECIFICATION SpecAnyBridge
CONSTANTS
  MaxTransfer = 2
  Window = 1
  Manifests <- MCManifests
  Frames <- MCFrames
INVARIANTS
  PublishedMatchesManifest
  DecoderAnticipatesClient
CHECK_DEADLOCK FALSE
