CONSTANTS
  Starts <- MCStarts
  Steps <- MCSteps
  Lags <- MCLags
  Offsets <- MCOffsets
  MaxGap = 36000
  Span = 108000
  Horizon <- MCHorizon
SPECIFICATION RecordSpec
INVARIANTS ReferenceFresh TtrIsTransmitted ToeIsTransmitted PvtTimeIsTrue SourcesAgree PublishedTimes
