\* A caster of either convention, messages of two chunks
CONSTANTS
  SendChunks = 2
  MaxHeader = 4
  MaxRtcm = 2
  MaxGga = 1
  MaxFaults = 1
SPECIFICATION FairSpec
INVARIANT MessagesContiguous
PROPERTIES LinkSpec Reconnects CloseTerminates
\* With an LF LF header close() can hang in its join, for good.
CHECK_DEADLOCK FALSE
