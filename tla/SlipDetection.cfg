\* One slot: slots share nothing but the messages they are reported in
CONSTANTS
  Signals = {"G01L1"}
  MaxLock = 4
  MaxAge = 6
SPECIFICATION Spec
INVARIANT LockTimeBounds
PROPERTIES LossFlagged NoFalseAlarm
