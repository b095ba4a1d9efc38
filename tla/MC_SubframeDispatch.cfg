\* two cycles and more of every format, one change of the data
CONSTANTS
  Names <- MCNames
  Watched <- MCWatched
  Published = {"GPS", "BDS"}
  Order <- MCOrder
  MaxCount = 20
  MaxIssue = 1
  MaxMissed = 4
SPECIFICATION Spec
INVARIANTS SatellitesKeptApart OneIssue GalSinceWord2
PROPERTIES FromCurrentFrame CompleteFrameDecoded GalNothingRepeated
\* the bound on count ends every behaviour
CHECK_DEADLOCK FALSE
