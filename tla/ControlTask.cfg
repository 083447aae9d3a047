\* Gains and limits that saturate the integral, the corrections and the servos.
CONSTANTS
  Angles <- MCAngles
  Rate = 2
  kp = 2
  ki = 1
  kd = 1
  OutputMax = 11
  servoMin = 10
  servoMax = 25
SPECIFICATION Spec
INVARIANTS
  TypeOK
  ServosInLimits
  AileronsMirror
  OppositeSamplesAgree
