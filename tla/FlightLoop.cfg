\* A calibration that leaves the watchdog time enough.
CONSTANTS
  Delay <- MCDelay
  Work <- MCWork
  StartDelay = 4
  DeadWork = 14
  Calibrate = 16
  WaitTimeout = 6
  Timeout = 40
SPECIFICATION Spec
INVARIANTS
  SamplesReusedOnce
  ServosFollowSensors
  ResetsOnlyHang
PROPERTY HangEndsInReset
