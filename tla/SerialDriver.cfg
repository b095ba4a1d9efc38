\* With the startup dialogue, which an empty configuration skips
CONSTANTS
  Writers = {"main", "rtcm"}
  WriteChunks = 1
  EnableConfigBring = TRUE
  EnableRtcm = TRUE
  MaxFrames = 2
  DialogueFrames = 1
  MaxNoise = 1
  MaxWire = 1
  AllowHup = TRUE
SPECIFICATION FairSpec
INVARIANTS TypeOK NoUseAfterClose SuccessIsAcknowledged FirstReaderRuns
PROPERTIES CallbacksQuiescent NeverTerminates WakeReachesReader InterruptTerminates FramesDelivered
