SPECIFICATION Spec
CONSTANTS
  MaxTransfer = 3
  MaxFrameUnits = 4
  MaxFrames = 9
  MaxOutput = 3
  ChunkUnits = 2
  Capability = "secret"
  Results <- Around
  Manifests <- Pulled
  Requests <- Asked
  Junk <- Wrong
INVARIANTS
  ChunksAreInvisible
  LegalStreamIsHeard
  TruncationIsTold
CHECK_DEADLOCK FALSE
