SPECIFICATION FSpec
CONSTANTS
  Base = 16
  IntWidth = 2
  LongWidth = 2
  UuidWidth = 1
  NonceWidth = 1
  MaxFrameSize = 69
  Pieces = {1, 3, 24}
  MaxFrames = 2
  MaxFaults = 1
  Client <- MCClient
  Server <- MCServer
  Samples <- MCSamples
  Frames <- SampleFrames
CHECK_DEADLOCK FALSE
INVARIANTS
  FTypeOK
  FramesInOrder
  ParsedAsSent
  CutDetected
