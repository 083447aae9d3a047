------------------------- MODULE ControlTaskProofs -------------------------
(***************************************************************************)
(* Proofs about ControlTask, for all angles, gains and limits.  They rest  *)
(* on three facts on its arithmetic: clamp stays within its limits, and    *)
(* clamp, the truncation and the controller turn opposite arguments into   *)
(* opposite results.                                                       *)
(***************************************************************************)
EXTENDS ControlTask, TLAPS

\* clamp (utils.hpp:5) returns a number within its limits.
LEMMA ClampRange ==
  ASSUME NEW v \in Int, NEW lo \in Int, NEW hi \in Int, lo <= hi
  PROVE  clamp(v, lo, hi) \in lo .. hi
  BY DEF clamp

\* Between opposite limits clamp is an odd function.
LEMMA ClampOdd ==
  ASSUME NEW v \in Int, NEW m \in Nat
  PROVE  /\ clamp(v, -m, m) \in -m .. m /\ clamp(v, -m, m) \in Int
         /\ clamp(-v, -m, m) = -clamp(v, -m, m)
  BY DEF clamp

\* The truncation of a correction is a whole number, and an odd function.
LEMMA TruncateOdd ==
  ASSUME NEW x \in Int
  PROVE  Truncate(x) \in Int /\ Truncate(-x) = -Truncate(x)
  <1>1. \A y \in Int : y \div Rate \in Int
    BY ControlAssumption
  <1>2. CASE x = 0
    BY <1>1, <1>2, ControlAssumption DEF Truncate
  <1>3. CASE x < 0
    BY <1>1, <1>3 DEF Truncate
  <1>4. CASE x > 0
    BY <1>1, <1>4 DEF Truncate
  <1> QED BY <1>2, <1>3, <1>4

\* The limits of the integral and of the output are natural numbers.
LEMMA Bounds == IntegralMax \in Nat /\ OutputMax * Rate \in Nat
  <1>1. OutputMax * Rate \in Nat
    BY ControlAssumption
  <1> QED BY <1>1 DEF IntegralMax

\* compute (pid.hpp:25-46) keeps the integral within its limits and returns a
\* whole number of Rate-ths.
LEMMA ComputeType ==
  ASSUME NEW pid \in Pids, NEW current \in Int
  PROVE  Updated(pid, current) \in Pids /\ Output(pid, current) \in Int
  <1>1. pid.integral \in Int /\ pid.prevError \in Int
    BY Bounds DEF Pids
  <1>2. clamp(pid.integral - current, -IntegralMax, IntegralMax) \in -IntegralMax .. IntegralMax
    <2>1. pid.integral - current \in Int
      BY <1>1
    <2> QED BY <2>1, Bounds, ClampOdd
  <1>3. Updated(pid, current) \in Pids
    BY <1>2 DEF Updated, Pids
  <1>4. Updated(pid, current).integral \in Int
    BY <1>3, Bounds DEF Pids
  <1> DEFINE sum == kp * (-current) * Rate + ki * Updated(pid, current).integral
                      + kd * (-current - pid.prevError) * Rate * Rate
  <1>5. sum \in Int
    BY <1>1, <1>4, ControlAssumption
  <1>6. Output(pid, current) = clamp(sum, -(OutputMax * Rate), OutputMax * Rate)
    BY DEF Output
  <1>7. clamp(sum, -(OutputMax * Rate), OutputMax * Rate) \in Int
    <2> HIDE DEF sum
    <2> QED BY <1>5, Bounds, ClampOdd
  <1> QED BY <1>3, <1>6, <1>7

Opposites(pid, other) ==
  other.integral + pid.integral = 0 /\ other.prevError + pid.prevError = 0

\* Controllers in opposite states stay so on opposite samples, and their outputs
\* are opposite (the promise of SymmetricResponse, test_pid.cpp:162, for any
\* history).
LEMMA ComputeOdd ==
  ASSUME NEW pid \in Pids, NEW other \in Pids, NEW current \in Int, Opposites(pid, other)
  PROVE  /\ Opposites(Updated(pid, current), Updated(other, -current))
         /\ Output(other, -current) = -Output(pid, current)
  <1>1. /\ pid.integral \in Int /\ pid.prevError \in Int
        /\ other.integral = -pid.integral /\ other.prevError = -pid.prevError
    <2>1. /\ pid.integral \in Int /\ pid.prevError \in Int
          /\ other.integral \in Int /\ other.prevError \in Int
      BY Bounds DEF Pids
    <2>2. other.integral + pid.integral = 0 /\ other.prevError + pid.prevError = 0
      BY DEF Opposites
    <2>3. \A a, b \in Int : a + b = 0 => a = -b
      OBVIOUS
    <2> QED BY <2>1, <2>2, <2>3, Zenon
  <1> DEFINE next  == clamp(pid.integral - current, -IntegralMax, IntegralMax)
             nexto == clamp(other.integral - (-current), -IntegralMax, IntegralMax)
  <1>2. next \in Int /\ nexto = -next
    <2>1. other.integral - (-current) = -(pid.integral - current)
      BY <1>1
    <2>2. pid.integral - current \in Int
      BY <1>1
    <2>3. next \in Int
      BY <2>2, Bounds, ClampOdd
    <2> QED BY <2>1, <2>2, <2>3, Bounds, ClampOdd
  <1>3. Updated(pid, current).integral = next /\ Updated(other, -current).integral = nexto
    BY DEF Updated
  <1>4. Updated(other, -current).prevError + Updated(pid, current).prevError = 0
    BY DEF Updated
  <1> HIDE DEF next, nexto
  <1> DEFINE sum  == kp * (-current) * Rate + ki * next
                       + kd * (-current - pid.prevError) * Rate * Rate
             sumo == kp * (-(-current)) * Rate + ki * nexto
                       + kd * (-(-current) - other.prevError) * Rate * Rate
  <1>5. sum \in Int /\ sumo = -sum
    <2> DEFINE e == -current - pid.prevError
    <2>1. -(-current) - other.prevError = -e /\ e \in Int
      BY <1>1
    <2>2. kp * (-(-current)) * Rate = -(kp * (-current) * Rate)
      BY ControlAssumption
    <2>3. ki * nexto = -(ki * next)
      BY <1>2, ControlAssumption
    <2> HIDE DEF e
    <2>4. kd * (-e) * Rate * Rate = -(kd * e * Rate * Rate)
      BY <2>1, ControlAssumption
    <2>5. /\ kp * (-current) * Rate \in Int /\ ki * next \in Int
          /\ kd * e * Rate * Rate \in Int
      BY <1>2, <2>1, ControlAssumption
    <2> QED BY <2>1, <2>2, <2>3, <2>4, <2>5 DEF e
  <1>6. /\ Output(pid, current) = clamp(sum, -(OutputMax * Rate), OutputMax * Rate)
        /\ Output(other, -current) = clamp(sumo, -(OutputMax * Rate), OutputMax * Rate)
    BY <1>3 DEF Output
  <1>7. Output(other, -current) = -Output(pid, current)
    <2> HIDE DEF sum, sumo
    <2> QED BY <1>5, <1>6, Bounds, ClampOdd
  <1> QED BY <1>2, <1>3, <1>4, <1>7 DEF Opposites

\* The center is within the limits of the servos.
LEMMA CenterInLimits == center \in servoMin .. servoMax
  BY ControlAssumption DEF center

\* What a round publishes, for any corrections.
LEMMA PositionsSafe ==
  ASSUME NEW pc \in Int, NEW rc \in Int
  PROVE  LET s == PositionsFor(pc, rc)
         IN  /\ s \in Positions
             /\ \A f \in DOMAIN s : s[f] \in Limits
             /\ s.aileronL + s.aileronR - 2 * center \in 0 .. 1
             /\ pc = -rc => s.elevator = s.aileronR
  <1> DEFINE e == clamp(center + pc, servoMin, servoMax)
             l == clamp(center + rc, servoMin, servoMax)
             r == clamp(center - rc, servoMin, servoMax)
  <1>1. e \in Limits /\ l \in Limits /\ r \in Limits
    BY CenterInLimits, ControlAssumption, ClampRange DEF Limits
  <1>2. center \in Limits /\ servoMin \in Limits
    BY CenterInLimits, ControlAssumption DEF Limits
  <1>3. Limits \subseteq Nat
    BY ControlAssumption DEF Limits
  <1>4. l + r - 2 * center \in 0 .. 1
    BY CenterInLimits, ControlAssumption DEF clamp, center
  <1>5. pc = -rc => e = r
    BY CenterInLimits
  <1> HIDE DEF e, l, r
  <1>6. PositionsFor(pc, rc)
          = [elevator |-> e, aileronL |-> l, aileronR |-> r, rudder |-> center,
             throttle |-> servoMin]
    BY DEF PositionsFor, e, l, r
  <1> QED BY <1>1, <1>2, <1>3, <1>4, <1>5, <1>6 DEF Positions

\* The inductive invariant: to the properties it adds that the controllers are in
\* opposite states as long as the samples have been opposite.
IInv ==
  /\ TypeOK
  /\ ServosInLimits
  /\ AileronsMirror
  /\ opposite => Opposites(pitchPid, rollPid) /\ servos.elevator = servos.aileronR

LEMMA Initially == Init => IInv
  <1> SUFFICES ASSUME Init PROVE IInv
    OBVIOUS
  <1>1. pitchPid \in Pids /\ rollPid \in Pids /\ Opposites(pitchPid, rollPid)
    <2>1. 0 \in -IntegralMax .. IntegralMax
      BY Bounds
    <2>2. pitchPid = [integral |-> 0, prevError |-> 0] /\ rollPid = pitchPid
      BY DEF Init
    <2>3. pitchPid \in Pids /\ rollPid \in Pids
      BY <2>1, <2>2 DEF Pids
    <2>4. Opposites(pitchPid, rollPid)
      BY <2>2 DEF Opposites
    <2> QED BY <2>3, <2>4
  <1>2. LET s == PositionsFor(0, 0)
        IN  /\ s \in Positions
            /\ \A f \in DOMAIN s : s[f] \in Limits
            /\ s.aileronL + s.aileronR - 2 * center \in 0 .. 1
            /\ s.elevator = s.aileronR
    BY PositionsSafe
  <1> QED BY <1>1, <1>2 DEF Init, IInv, TypeOK, ServosInLimits, AileronsMirror

LEMMA Inductive == IInv /\ [Next]_vars => IInv'
  <1> SUFFICES ASSUME IInv, [Next]_vars PROVE IInv'
    OBVIOUS
  <1> USE DEF IInv
  <1>1. ASSUME NEW pitch \in Angles, NEW roll \in Angles, Round(pitch, roll) PROVE IInv'
    <2> DEFINE po == Output(pitchPid, pitch)
               ro == Output(rollPid, roll)
    <2>1. pitch \in Int /\ roll \in Int /\ pitchPid \in Pids /\ rollPid \in Pids
      BY ControlAssumption DEF TypeOK
    <2>2. pitchPid' \in Pids /\ rollPid' \in Pids /\ po \in Int /\ ro \in Int
      BY <1>1, <2>1, ComputeType DEF Round
    <2>3. Truncate(po) \in Int /\ Truncate(ro) \in Int /\ Truncate(-ro) = -Truncate(ro)
      BY <2>2, TruncateOdd
    <2>4. opposite' => opposite /\ roll = -pitch
      BY <1>1, Zenon DEF Round
    <2>5. opposite' => Opposites(pitchPid', rollPid') /\ ro = -po
      BY <1>1, <2>1, <2>4, ComputeOdd DEF Round
    <2>6. opposite' => Truncate(po) = -Truncate(ro)
      BY <2>2, <2>3, <2>5
    <2>7. servos' = PositionsFor(Truncate(po), Truncate(ro))
      BY <1>1 DEF Round
    <2>8. opposite' \in BOOLEAN
      BY <1>1 DEF Round
    <2> HIDE DEF po, ro
    <2>9. LET s == PositionsFor(Truncate(po), Truncate(ro))
          IN  /\ s \in Positions
              /\ \A f \in DOMAIN s : s[f] \in Limits
              /\ s.aileronL + s.aileronR - 2 * center \in 0 .. 1
              /\ Truncate(po) = -Truncate(ro) => s.elevator = s.aileronR
      BY <2>3, PositionsSafe
    <2> QED BY <2>2, <2>5, <2>6, <2>7, <2>8, <2>9 DEF TypeOK, ServosInLimits, AileronsMirror, Opposites
  <1>2. CASE UNCHANGED vars
    BY <1>2 DEF vars, TypeOK, ServosInLimits, AileronsMirror, Opposites
  <1> QED BY <1>1, <1>2 DEF Next

THEOREM Invariance == Spec => []IInv
  BY Initially, Inductive, PTL DEF Spec

\* The integrals stay within their limits, and all state keeps its type.
THEOREM TypeCorrect == Spec => []TypeOK
  <1>1. IInv => TypeOK
    BY DEF IInv
  <1> QED BY <1>1, Invariance, PTL

\* No servo leaves its limits, for any gains, samples and history.
THEOREM InLimits == Spec => []ServosInLimits
  <1>1. IInv => ServosInLimits
    BY DEF IInv
  <1> QED BY <1>1, Invariance, PTL

\* The ailerons mirror each other.
THEOREM Mirror == Spec => []AileronsMirror
  <1>1. IInv => AileronsMirror
    BY DEF IInv
  <1> QED BY <1>1, Invariance, PTL

\* Opposite histories have opposite answers.
THEOREM Agreement == Spec => []OppositeSamplesAgree
  <1>1. IInv => OppositeSamplesAgree
    BY DEF IInv, OppositeSamplesAgree
  <1> QED BY <1>1, Invariance, PTL

=============================================================================
