\* The dialogue leaves a wake byte behind: the second reader dies of it.
CONSTANTS
  Writers = {"main", "rtcm"}
  WriteChunks = 1
  EnableConfigBring = TRUE
  EnableRtcm = FALSE
  MaxFrames = 0
  DialogueFrames = 0
  MaxNoise = 0
  MaxWire = 2
  AllowHup = FALSE
SPECIFICATION Spec
INVARIANT ReaderRunsWhileSpinning
