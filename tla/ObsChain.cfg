\* Every signal; numbers around every limit
CONSTANTS
  GnssIds = {0, 1, 2, 3, 6, 7}
  SvIds = {0, 1, 27, 28, 32, 38, 63, 64, 255}
  SigIds = {0, 1, 2, 3, 4, 5, 6}
  FreqIds = {0, 1, 7, 12, 13}
  Selected = {"GPS", "GLO", "GAL", "BDS"}
  MaxBlocks = 2
SPECIFICATION Spec
INVARIANTS TypeOK NameOfSatellite BandOfSlot EverySlotWritten ChannelRecovered
\* one message, one file
CHECK_DEADLOCK FALSE
