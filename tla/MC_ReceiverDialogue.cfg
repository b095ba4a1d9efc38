CONSTANTS
  Absent = Absent
  Junk = Junk
  Anything = Anything
  Settings <- MCSettings
  Lines <- MCLines
  Entries <- MCEntries
  MaxLines = 2
  KeyWidth <- MCKeyWidth
  Traffic <- MCTraffic
  Noise = {181, 98}
  MaxTraffic = 1
  MaxNoise = 2
SPECIFICATION Spec
INVARIANTS MessageIsFile SuccessIsApplied ResyncComplete
\* the dialogue ends, in success, in failure or before it begins
CHECK_DEADLOCK FALSE
