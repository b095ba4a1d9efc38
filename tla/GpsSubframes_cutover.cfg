\* The satellite changes its data in the middle of a frame
CONSTANTS
  MaxCount = 8
  MaxIssue = 1
SPECIFICATION Spec
INVARIANT PublishedOneIssue
CHECK_DEADLOCK FALSE
