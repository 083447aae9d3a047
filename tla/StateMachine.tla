---------------------------- MODULE StateMachine ----------------------------
(***************************************************************************)
(* The flight controller's state machine: class StateMachine of            *)
(* firmware/src/core/state_machine.hpp.  One action per method; a call     *)
(* that the method ignores is a stuttering step.  The caller is free: it   *)
(* may call any method at any time, with any argument, and passes the      *)
(* FreeRTOS tick, a uint32_t that wraps around, as nowMs.                  *)
(*                                                                         *)
(* "clock" is the time that has really passed and never wraps; the code    *)
(* only ever sees NowMs.  The history variables record what has really     *)
(* happened, so that the properties can compare it with what the object    *)
(* remembers; no action reads them.                                        *)
(***************************************************************************)
EXTENDS Integers

CONSTANTS
  TimeMod,       (* 2^32: the number of values of a uint32_t               *)
  ShortLossMs,   (* 100:   radio silence that enters FAILSAFE_SHORT        *)
  LongLossMs,    (* 10000: radio silence that enters FAILSAFE_LONG         *)
  AutoDisarmMs,  (* 60000: idle time after arming that disarms again       *)
  MaxClock       (* bound on the time that passes                          *)

ASSUME TimeAssumption ==
  /\ TimeMod \in Nat /\ ShortLossMs \in Nat /\ LongLossMs \in Nat
  /\ AutoDisarmMs \in Nat /\ MaxClock \in Nat
  /\ 0 < ShortLossMs /\ ShortLossMs < LongLossMs
  /\ LongLossMs < TimeMod /\ AutoDisarmMs < TimeMod

VARIABLES
  state, prevFlightMode,      (* the members of the class *)
  lastRadioMs, armedAtMs, throttleWasUsed,
  clock,                      (* the time that has passed, in ms *)
  radioSeen,   (* history: when updateRadio(true) was last called          *)
  armedSince,  (* history: when the aircraft was last armed                *)
  throttled,   (* history: throttle above idle since the aircraft was armed *)
  selected,    (* history: the flight mode that was last selected          *)
  called       (* history: the timed check that ran last, "none" once time *)
               (* has passed or another method has run                     *)

members == <<state, prevFlightMode, lastRadioMs, armedAtMs, throttleWasUsed>>
history == <<radioSeen, armedSince, throttled, selected, called>>
vars == <<members, clock, history>>

States == {"BOOT", "CALIBRATING", "DISARMED", "ARMED", "MANUAL", "STABILIZE",
           "FAILSAFE_SHORT", "FAILSAFE_LONG", "EMERGENCY"}

FlightModes == {"MANUAL", "STABILIZE"}

TypeOK ==
  /\ state \in States
  /\ prevFlightMode \in FlightModes
  /\ lastRadioMs \in 0 .. TimeMod - 1
  /\ armedAtMs \in 0 .. TimeMod - 1
  /\ throttleWasUsed \in BOOLEAN
  /\ clock \in Nat
  /\ radioSeen \in 0 .. clock
  /\ armedSince \in 0 .. clock
  /\ throttled \in BOOLEAN
  /\ selected \in FlightModes
  /\ called \in {"none", "updateRadio", "checkAutoDisarm"}

(***************************************************************************)
(* Time.  uint32_t subtraction, which is exact until the difference itself *)
(* reaches TimeMod.                                                        *)
(***************************************************************************)
NowMs == clock % TimeMod

\* Mutant: the operands are swapped.
SinceMsSwapped(then) == (then - NowMs) % TimeMod

SinceMs(then) == (NowMs - then) % TimeMod

(***************************************************************************)
(* Output queries, as functions of the state they are asked in.            *)
(***************************************************************************)
MotorEnabled(s) == s \in {"ARMED", "MANUAL", "STABILIZE", "FAILSAFE_SHORT"}

StabilizeEnabled(s) == s \in {"STABILIZE", "FAILSAFE_SHORT"}

IsFlying(s) == s \in FlightModes \cup {"FAILSAFE_SHORT", "FAILSAFE_LONG"}

IsSafe(s) == s \in {"BOOT", "CALIBRATING", "DISARMED", "EMERGENCY"}

(***************************************************************************)
(* Construction and the methods.                                           *)
(***************************************************************************)

\* Mutant: the constructor leaves prevFlightMode zero, which is BOOT.
InitUnsetMode ==
  /\ state = "BOOT"
  /\ prevFlightMode = "BOOT"
  /\ lastRadioMs = 0 /\ armedAtMs = 0 /\ throttleWasUsed = FALSE
  /\ clock = 0
  /\ radioSeen = 0 /\ armedSince = 0 /\ throttled = FALSE
  /\ selected = "MANUAL" /\ called = "none"

Init ==
  /\ state = "BOOT"
  /\ prevFlightMode = "MANUAL"
  /\ lastRadioMs = 0 /\ armedAtMs = 0 /\ throttleWasUsed = FALSE
  /\ clock = 0
  /\ radioSeen = 0 /\ armedSince = 0 /\ throttled = FALSE
  /\ selected = "MANUAL" /\ called = "none"

StartCalibration ==
  /\ state = "BOOT"
  /\ state' = "CALIBRATING"
  /\ called' = "none"
  /\ UNCHANGED <<prevFlightMode, lastRadioMs, armedAtMs, throttleWasUsed, clock,
                 radioSeen, armedSince, throttled, selected>>

CalibrationDone ==
  /\ state = "CALIBRATING"
  /\ state' = "DISARMED"
  /\ called' = "none"
  /\ UNCHANGED <<prevFlightMode, lastRadioMs, armedAtMs, throttleWasUsed, clock,
                 radioSeen, armedSince, throttled, selected>>

CanArm(gyroCalibrated, radioValid, throttleIdle, batteryOk) ==
  state = "DISARMED" /\ gyroCalibrated /\ radioValid /\ throttleIdle /\ batteryOk

\* Mutant: arming again does not clear the throttle flag of the last time.
ArmKeepsThrottle(gyroCalibrated, radioValid, throttleIdle, batteryOk) ==
  /\ CanArm(gyroCalibrated, radioValid, throttleIdle, batteryOk)
  /\ state' = "ARMED"
  /\ armedAtMs' = NowMs
  /\ armedSince' = clock /\ throttled' = FALSE /\ called' = "none"
  /\ UNCHANGED <<prevFlightMode, lastRadioMs, throttleWasUsed, clock, radioSeen, selected>>

Arm(gyroCalibrated, radioValid, throttleIdle, batteryOk) ==
  /\ CanArm(gyroCalibrated, radioValid, throttleIdle, batteryOk)
  /\ state' = "ARMED"
  /\ armedAtMs' = NowMs
  /\ throttleWasUsed' = FALSE
  /\ armedSince' = clock /\ throttled' = FALSE /\ called' = "none"
  /\ UNCHANGED <<prevFlightMode, lastRadioMs, clock, radioSeen, selected>>

CanDisarm(throttleIdle) == state \in {"ARMED", "MANUAL", "STABILIZE"} /\ throttleIdle

Disarm(throttleIdle) ==
  /\ CanDisarm(throttleIdle)
  /\ state' = "DISARMED"
  /\ called' = "none"
  /\ UNCHANGED <<prevFlightMode, lastRadioMs, armedAtMs, throttleWasUsed, clock,
                 radioSeen, armedSince, throttled, selected>>

SetManual ==
  /\ state \in {"ARMED", "STABILIZE"}
  /\ state' = "MANUAL"
  /\ prevFlightMode' = "MANUAL"
  /\ selected' = "MANUAL" /\ called' = "none"
  /\ UNCHANGED <<lastRadioMs, armedAtMs, throttleWasUsed, clock,
                 radioSeen, armedSince, throttled>>

\* Mutant: the mode to return to is not remembered.
SetStabilizeForgets ==
  /\ state \in {"ARMED", "MANUAL"}
  /\ state' = "STABILIZE"
  /\ selected' = "STABILIZE" /\ called' = "none"
  /\ UNCHANGED <<prevFlightMode, lastRadioMs, armedAtMs, throttleWasUsed, clock,
                 radioSeen, armedSince, throttled>>

SetStabilize ==
  /\ state \in {"ARMED", "MANUAL"}
  /\ state' = "STABILIZE"
  /\ prevFlightMode' = "STABILIZE"
  /\ selected' = "STABILIZE" /\ called' = "none"
  /\ UNCHANGED <<lastRadioMs, armedAtMs, throttleWasUsed, clock,
                 radioSeen, armedSince, throttled>>

\* Mutant: any failsafe ends when the radio returns, the long one included.
RecoverAlways == IF state \in {"FAILSAFE_SHORT", "FAILSAFE_LONG"} THEN prevFlightMode ELSE state

\* The state after a valid radio sample.
Recover == IF state = "FAILSAFE_SHORT" THEN prevFlightMode ELSE state

\* Mutant: only the MANUAL mode watches the radio.
AfterLossManualOnly(lostMs) ==
  CASE state = "MANUAL" /\ lostMs > LongLossMs -> "FAILSAFE_LONG"
    [] state = "MANUAL" /\ lostMs > ShortLossMs /\ lostMs <= LongLossMs -> "FAILSAFE_SHORT"
    [] OTHER -> state

\* The state after an invalid radio sample, lostMs after the last valid one.
AfterLoss(lostMs) ==
  CASE state \in FlightModes /\ lostMs > LongLossMs -> "FAILSAFE_LONG"
    [] state \in FlightModes /\ lostMs > ShortLossMs /\ lostMs <= LongLossMs -> "FAILSAFE_SHORT"
    [] OTHER -> state

UpdateRadio(radioValid) ==
  /\ \/ /\ radioValid
        /\ state' = Recover
        /\ lastRadioMs' = NowMs
        /\ radioSeen' = clock
     \/ /\ ~radioValid
        /\ state' = AfterLoss(SinceMs(lastRadioMs))
        /\ UNCHANGED <<lastRadioMs, radioSeen>>
  /\ called' = "updateRadio"
  /\ UNCHANGED <<prevFlightMode, armedAtMs, throttleWasUsed, clock,
                 armedSince, throttled, selected>>

Emergency ==
  /\ state' = "EMERGENCY"
  /\ called' = "none"
  /\ UNCHANGED <<prevFlightMode, lastRadioMs, armedAtMs, throttleWasUsed, clock,
                 radioSeen, armedSince, throttled, selected>>

\* Mutant: the flag is only raised once a flight mode has been selected.
NotifyThrottleInFlight(aboveIdle) ==
  /\ aboveIdle
  /\ throttleWasUsed' = (throttleWasUsed \/ IsFlying(state))
  /\ throttled' = TRUE /\ called' = "none"
  /\ UNCHANGED <<state, prevFlightMode, lastRadioMs, armedAtMs, clock,
                 radioSeen, armedSince, selected>>

NotifyThrottle(aboveIdle) ==
  /\ aboveIdle
  /\ throttleWasUsed' = TRUE
  /\ throttled' = TRUE /\ called' = "none"
  /\ UNCHANGED <<state, prevFlightMode, lastRadioMs, armedAtMs, clock,
                 radioSeen, armedSince, selected>>

CheckAutoDisarm ==
  /\ state' = IF state = "ARMED" /\ ~throttleWasUsed /\ SinceMs(armedAtMs) > AutoDisarmMs
                THEN "DISARMED" ELSE state
  /\ called' = "checkAutoDisarm"
  /\ UNCHANGED <<prevFlightMode, lastRadioMs, armedAtMs, throttleWasUsed, clock,
                 radioSeen, armedSince, throttled, selected>>

\* Time passes between calls.
Tick ==
  /\ clock < MaxClock
  /\ clock' = clock + 1
  /\ called' = "none"
  /\ UNCHANGED <<members, radioSeen, armedSince, throttled, selected>>

Next ==
  \/ StartCalibration
  \/ CalibrationDone
  \/ \E gyro, radio, idle, battery \in BOOLEAN : Arm(gyro, radio, idle, battery)
  \/ \E idle \in BOOLEAN : Disarm(idle)
  \/ SetManual
  \/ SetStabilize
  \/ \E valid \in BOOLEAN : UpdateRadio(valid)
  \/ Emergency
  \/ \E above \in BOOLEAN : NotifyThrottle(above)
  \/ CheckAutoDisarm
  \/ Tick

Spec == Init /\ [][Next]_vars

-----------------------------------------------------------------------------
(***************************************************************************)
(* Properties.                                                             *)
(***************************************************************************)

\* How long the radio has really been silent, and the aircraft armed.
Silence == clock - radioSeen
ArmedFor == clock - armedSince

\* When a short failsafe ends because the radio is back, the aircraft is in the
\* mode that was last selected, whatever was selected, disarmed and re-armed
\* before (prevFlightMode in updateRadio, setManual, setStabilize).
RecoveryResumesSelectedMode ==
  [][state = "FAILSAFE_SHORT" /\ state' \in FlightModes => state' = selected]_vars

\* No failsafe without the silence it stands for: the wrapped subtraction of
\* updateRadio never overestimates how long the radio has been lost, even when
\* the tick has wrapped around any number of times since.
NoSpuriousFailsafe ==
  [][ /\ (state \in FlightModes /\ state' = "FAILSAFE_SHORT" => Silence > ShortLossMs)
      /\ (state \in FlightModes /\ state' = "FAILSAFE_LONG" => Silence > LongLossMs) ]_vars

\* A call of updateRadio leaves the aircraft in a flight mode only if the radio
\* was heard within the last ShortLossMs, as long as the silence is shorter than
\* the period of the tick.
LossIsNoticed ==
  called = "updateRadio" /\ state \in FlightModes /\ Silence < TimeMod =>
    Silence <= ShortLossMs

\* The idle timer of checkAutoDisarm never disarms an aircraft whose throttle has
\* been raised since it was armed, nor one armed for AutoDisarmMs or less.
AutoDisarmIsJustified ==
  [][state = "ARMED" /\ state' = "DISARMED" /\ called' = "checkAutoDisarm" =>
       ~throttled /\ ArmedFor > AutoDisarmMs]_vars

\* checkAutoDisarm leaves an aircraft armed only if it was armed at most
\* AutoDisarmMs ago or its throttle has been raised since: also the second time
\* it is armed.
IdleArmingExpires ==
  called = "checkAutoDisarm" /\ state = "ARMED" /\ ~throttled /\ ArmedFor < TimeMod =>
    ArmedFor <= AutoDisarmMs

\* The motor that the state machine lets run.
Power(s) == IF s \in {"FAILSAFE_LONG", "EMERGENCY"} THEN "cut"
            ELSE IF MotorEnabled(s) THEN "on" ELSE "off"

Motor == INSTANCE MotorPower WITH power <- Power(state)

\* The state machine implements MotorPower: the motor starts only from the ground,
\* and once cut by a long loss or an emergency it stays off.
MotorPowerSpec == Motor!Spec

\* What the tests FailsafeLongAfter10s and MotorDisabledInFailsafeLong say of the
\* machine: once the radio has been silent for LongLossMs, updateRadio leaves no
\* flying aircraft with its motor on.  The code breaks it: FAILSAFE_SHORT is left
\* only by a valid sample, never for FAILSAFE_LONG.
LongLossCutsMotor ==
  called = "updateRadio" /\ IsFlying(state) /\ Silence > LongLossMs /\ Silence < TimeMod =>
    ~MotorEnabled(state)

=============================================================================
