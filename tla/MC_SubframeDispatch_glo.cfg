\* as in MC_SubframeDispatch.cfg
CONSTANTS
  Names <- MCNames
  Watched <- MCWatched
  Published = {"GPS", "BDS"}
  Order <- MCOrder
  MaxCount = 1
  MaxIssue = 1
  MaxMissed = 4
SPECIFICATION Spec
INVARIANT EverySystemDecoded
CHECK_DEADLOCK FALSE
