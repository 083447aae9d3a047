CONSTANTS
  TimeMod = 7
  ShortLossMs = 1
  LongLossMs = 3
  AutoDisarmMs = 2
  MaxClock = 6
SPECIFICATION Spec
INVARIANT LongLossCutsMotor
