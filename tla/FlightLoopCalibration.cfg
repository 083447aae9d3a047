\* The calibration and the watchdog in the proportion of 2.3 s to 2 s.
CONSTANTS
  Delay <- MCDelay
  Work <- MCWork
  StartDelay = 4
  DeadWork = 14
  Calibrate = 46
  WaitTimeout = 6
  Timeout = 40
SPECIFICATION Spec
INVARIANT ResetsOnlyHang
