\* nothing but losses
CONSTANTS
  MaxCount = 12
  MaxIssue = 0
SPECIFICATION Spec
PROPERTY EveryFrameDecoded
CHECK_DEADLOCK FALSE
