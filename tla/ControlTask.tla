---------------------------- MODULE ControlTask ----------------------------
(***************************************************************************)
(* ControlTask: each round runs the PID controllers of pitch and roll on a *)
(* sample and publishes the positions of the servos.  Samples are any      *)
(* numbers of Angles.  Arithmetic is exact, in Rate-ths: Rate is 1/dt, an  *)
(* integral is the sum of the errors (the code's times Rate), an output is *)
(* Rate times the code's.  The rounding of the code's floats is left out.  *)
(***************************************************************************)
EXTENDS Integers

CONSTANTS
  Angles,              (* the angles that samples hold                      *)
  Rate,                (* 1/dt (100)                                        *)
  kp, ki, kd,          (* the gains, of pitch and of roll                   *)
  OutputMax,           (* the limit of a correction (500)                   *)
  servoMin, servoMax   (* the limits of the servos                          *)

ASSUME ControlAssumption ==
  /\ Angles \subseteq Int
  /\ Rate \in Nat \ {0}
  /\ kp \in Int /\ ki \in Int /\ kd \in Int
  /\ OutputMax \in Nat
  /\ servoMin \in Nat /\ servoMax \in Nat /\ servoMin <= servoMax

VARIABLES
  pitchPid, rollPid,  (* the state of the controllers                       *)
  servos,             (* the positions on the bus                           *)
  opposite            (* history: every sample had roll = -pitch            *)

vars == <<pitchPid, rollPid, servos, opposite>>

center == (servoMin + servoMax) \div 2

\* The limit of the integral is half of the output's.
IntegralMax == (OutputMax * Rate) \div 2

Pids == [integral : -IntegralMax .. IntegralMax, prevError : Int]
Positions == [elevator : Nat, aileronL : Nat, aileronR : Nat, rudder : Nat, throttle : Nat]

TypeOK ==
  /\ pitchPid \in Pids /\ rollPid \in Pids
  /\ servos \in Positions
  /\ opposite \in BOOLEAN

clamp(val, min, max) == IF val < min THEN min ELSE IF val > max THEN max ELSE val

\* Mutant: rounded down.
TruncateDown(output) == output \div Rate

\* (int): towards zero.
Truncate(output) == IF output < 0 THEN -((-output) \div Rate) ELSE output \div Rate

\* Mutant: the integral is not limited.
UpdatedUnlimited(pid, current) ==
  [integral |-> pid.integral - current, prevError |-> -current]

\* The controller after compute(0, current).
Updated(pid, current) ==
  [integral  |-> clamp(pid.integral - current, -IntegralMax, IntegralMax),
   prevError |-> -current]

\* What compute(0, current) returns, Rate times.
Output(pid, current) ==
  LET error == -current
      p == kp * error * Rate
      i == ki * Updated(pid, current).integral
      d == kd * (error - pid.prevError) * Rate * Rate
  IN  clamp(p + i + d, -(OutputMax * Rate), OutputMax * Rate)

\* Mutant: the right aileron is not limited.
PositionsForFreeRight(pitchCorrection, rollCorrection) ==
  [elevator |-> clamp(center + pitchCorrection, servoMin, servoMax),
   aileronL |-> clamp(center + rollCorrection, servoMin, servoMax),
   aileronR |-> IF rollCorrection > center THEN 0 ELSE center - rollCorrection,
   rudder   |-> center,
   throttle |-> servoMin]

\* Mutant: both ailerons move the same way.
PositionsForSameWay(pitchCorrection, rollCorrection) ==
  [elevator |-> clamp(center + pitchCorrection, servoMin, servoMax),
   aileronL |-> clamp(center + rollCorrection, servoMin, servoMax),
   aileronR |-> clamp(center + rollCorrection, servoMin, servoMax),
   rudder   |-> center,
   throttle |-> servoMin]

PositionsFor(pitchCorrection, rollCorrection) ==
  [elevator |-> clamp(center + pitchCorrection, servoMin, servoMax),
   aileronL |-> clamp(center + rollCorrection, servoMin, servoMax),
   aileronR |-> clamp(center - rollCorrection, servoMin, servoMax),
   rudder   |-> center,
   throttle |-> servoMin]

\* Nothing is on the bus before the first round; neutral positions stand for that.
Init ==
  /\ pitchPid = [integral |-> 0, prevError |-> 0]
  /\ rollPid = pitchPid
  /\ servos = PositionsFor(0, 0)
  /\ opposite = TRUE

\* A round with a sample.
Round(pitch, roll) ==
  /\ pitchPid' = Updated(pitchPid, pitch)
  /\ rollPid' = Updated(rollPid, roll)
  /\ servos' = PositionsFor(Truncate(Output(pitchPid, pitch)), Truncate(Output(rollPid, roll)))
  /\ opposite' = (opposite /\ roll = -pitch)

Next == \E pitch \in Angles, roll \in Angles : Round(pitch, roll)

Spec == Init /\ [][Next]_vars

-----------------------------------------------------------------------------
(***************************************************************************)
(* Properties.                                                             *)
(***************************************************************************)

Limits == servoMin .. servoMax

\* No servo is ever sent out of its limits, whatever the gains, the samples and
\* what the controllers have accumulated.
ServosInLimits == \A s \in DOMAIN servos : servos[s] \in Limits

\* The ailerons mirror each other around the center, also when they are at their
\* limits: one step is all that rounding the center may cost.
AileronsMirror == servos.aileronL + servos.aileronR - 2 * center \in 0 .. 1

\* Pitch and roll answer alike, and up like down: over any history of samples that
\* were opposite in pitch and in roll, the elevator is where the right aileron is.
OppositeSamplesAgree == opposite => servos.elevator = servos.aileronR

=============================================================================
