CONSTANTS
  Bytes <- MCBytes
  Preamble = 2
  Reserved <- MCReserved
  LengthOf <- MCLengthOf
  MaxPayload = 4
  CrcLength = 1
  CrcOf <- MCCrcOf
  Frames <- MCFrames
  MaxStream = 12
  MaxNoise = 2
  MaxChunk = 3
SPECIFICATION FairSpec
INVARIANTS ChunkingIrrelevant BufferBounded RecoveryBounded
PROPERTY DrainTerminates
