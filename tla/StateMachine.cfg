\* Time in units small enough that the tick wraps twice within the run.
CONSTANTS
  TimeMod = 7
  ShortLossMs = 1
  LongLossMs = 3
  AutoDisarmMs = 2
  MaxClock = 15
SPECIFICATION Spec
INVARIANTS
  TypeOK
  LossIsNoticed
  IdleArmingExpires
PROPERTIES
  RecoveryResumesSelectedMode
  NoSpuriousFailsafe
  AutoDisarmIsJustified
  MotorPowerSpec
