------------------------- MODULE StateMachineProofs -------------------------
(***************************************************************************)
(* Theorems about StateMachine, for every period of the tick and every     *)
(* choice of the three delays.  The invariant is that the object remembers *)
(* what really happened (Remembers); everything the properties compare     *)
(* follows from it and from the facts about wrapped time.                  *)
(***************************************************************************)
EXTENDS StateMachine, Arithmetic

Remembers ==
  /\ prevFlightMode = selected
  /\ throttleWasUsed = throttled
  /\ lastRadioMs = radioSeen % TimeMod
  /\ armedAtMs = armedSince % TimeMod

IInv == TypeOK /\ Remembers /\ LossIsNoticed /\ IdleArmingExpires

\* What SinceMs tells of the time that has passed since "when".
LEMMA SinceMsFacts ==
  ASSUME clock \in Nat, NEW when \in 0 .. clock
  PROVE  /\ SinceMs(when % TimeMod) \in Nat
         /\ SinceMs(when % TimeMod) <= clock - when
         /\ clock - when < TimeMod => SinceMs(when % TimeMod) = clock - when
BY WrappedElapsedBound, WrappedElapsedExact, TimeAssumption DEF SinceMs, NowMs

LEMMA NowMsType ==
  ASSUME clock \in Nat
  PROVE  NowMs \in 0 .. TimeMod - 1
BY ModFacts, TimeAssumption DEF NowMs

LEMMA InitInvariant == Init => IInv
<1> SUFFICES ASSUME Init PROVE IInv
  OBVIOUS
<1>1. 0 % TimeMod = 0
  BY TimeAssumption
<1>2. TypeOK
  <2>1. 0 \in 0 .. TimeMod - 1
    BY TimeAssumption
  <2>2. clock \in Nat /\ radioSeen \in 0 .. clock /\ armedSince \in 0 .. clock
    BY DEF Init
  <2>3. throttleWasUsed \in BOOLEAN /\ throttled \in BOOLEAN
    BY DEF Init
  <2> QED BY <2>1, <2>2, <2>3, Zenon DEF Init, TypeOK, States, FlightModes
<1>3. Remembers
  BY <1>1 DEF Init, Remembers
<1>4. LossIsNoticed /\ IdleArmingExpires
  BY DEF Init, LossIsNoticed, IdleArmingExpires
<1> QED BY <1>2, <1>3, <1>4 DEF IInv

LEMMA StepKeepsTypes == TypeOK /\ [Next]_vars => TypeOK'
<1> SUFFICES ASSUME TypeOK, [Next]_vars PROVE TypeOK'
  OBVIOUS
<1> USE DEF TypeOK, States, FlightModes
<1>1. CASE StartCalibration
  BY <1>1 DEF StartCalibration
<1>2. CASE CalibrationDone
  BY <1>2 DEF CalibrationDone
<1>3. CASE \E gyro, radio, idle, battery \in BOOLEAN : Arm(gyro, radio, idle, battery)
  <2>1. PICK gyro, radio, idle, battery \in BOOLEAN : Arm(gyro, radio, idle, battery)
    BY <1>3
  <2>2. throttleWasUsed' \in BOOLEAN /\ throttled' \in BOOLEAN
    BY <2>1 DEF Arm
  <2>3. armedAtMs' \in 0 .. TimeMod - 1 /\ clock' = clock /\ armedSince' \in 0 .. clock
    BY <2>1, NowMsType DEF Arm
  <2> QED BY <2>1, <2>2, <2>3, Zenon DEF Arm
<1>4. CASE \E idle \in BOOLEAN : Disarm(idle)
  BY <1>4 DEF Disarm
<1>5. CASE SetManual
  BY <1>5 DEF SetManual
<1>6. CASE SetStabilize
  BY <1>6 DEF SetStabilize
<1>7. CASE \E valid \in BOOLEAN : UpdateRadio(valid)
  <2>1. state' \in States
    BY <1>7 DEF UpdateRadio, Recover, AfterLoss
  <2> QED BY <1>7, <2>1, NowMsType DEF UpdateRadio
<1>8. CASE Emergency
  BY <1>8 DEF Emergency
<1>9. CASE \E above \in BOOLEAN : NotifyThrottle(above)
  BY <1>9 DEF NotifyThrottle
<1>10. CASE CheckAutoDisarm
  BY <1>10 DEF CheckAutoDisarm
<1>11. CASE Tick
  BY <1>11 DEF Tick, members
<1>12. CASE UNCHANGED vars
  BY <1>12 DEF vars, members, history
<1> QED
  BY <1>1, <1>2, <1>3, <1>4, <1>5, <1>6, <1>7, <1>8, <1>9, <1>10, <1>11, <1>12 DEF Next

LEMMA StepKeepsMemory == TypeOK /\ Remembers /\ [Next]_vars => Remembers'
<1> SUFFICES ASSUME TypeOK, Remembers, [Next]_vars PROVE Remembers'
  OBVIOUS
<1> USE DEF Remembers
<1>1. CASE StartCalibration
  BY <1>1 DEF StartCalibration
<1>2. CASE CalibrationDone
  BY <1>2 DEF CalibrationDone
<1>3. CASE \E gyro, radio, idle, battery \in BOOLEAN : Arm(gyro, radio, idle, battery)
  BY <1>3 DEF Arm, NowMs
<1>4. CASE \E idle \in BOOLEAN : Disarm(idle)
  BY <1>4 DEF Disarm
<1>5. CASE SetManual
  BY <1>5 DEF SetManual
<1>6. CASE SetStabilize
  BY <1>6 DEF SetStabilize
<1>7. CASE \E valid \in BOOLEAN : UpdateRadio(valid)
  BY <1>7 DEF UpdateRadio, NowMs
<1>8. CASE Emergency
  BY <1>8 DEF Emergency
<1>9. CASE \E above \in BOOLEAN : NotifyThrottle(above)
  BY <1>9 DEF NotifyThrottle
<1>10. CASE CheckAutoDisarm
  BY <1>10 DEF CheckAutoDisarm
<1>11. CASE Tick
  BY <1>11 DEF Tick, members
<1>12. CASE UNCHANGED vars
  BY <1>12 DEF vars, members, history
<1> QED
  BY <1>1, <1>2, <1>3, <1>4, <1>5, <1>6, <1>7, <1>8, <1>9, <1>10, <1>11, <1>12 DEF Next

\* A step that runs no timed check leaves nothing to justify.
LEMMA StepKeepsLossIsNoticed ==
  IInv /\ [Next]_vars => LossIsNoticed'
<1> SUFFICES ASSUME IInv, [Next]_vars PROVE LossIsNoticed'
  OBVIOUS
<1> USE DEF IInv, LossIsNoticed, Silence
<1>1. CASE \E valid \in BOOLEAN : UpdateRadio(valid)
  <2> PICK valid \in BOOLEAN : UpdateRadio(valid)
    BY <1>1
  <2>1. CASE valid
    BY <2>1, TimeAssumption DEF UpdateRadio, TypeOK
  <2>2. CASE ~valid
    <3>1. lastRadioMs = radioSeen % TimeMod /\ clock \in Nat /\ radioSeen \in 0 .. clock
      BY DEF TypeOK, Remembers
    <3>2. clock' = clock /\ radioSeen' = radioSeen /\ state' = AfterLoss(SinceMs(lastRadioMs))
      BY <2>2 DEF UpdateRadio
    <3> SUFFICES ASSUME state' \in FlightModes, clock - radioSeen < TimeMod
                 PROVE  clock - radioSeen <= ShortLossMs
      BY <3>2
    <3>3. SinceMs(lastRadioMs) = clock - radioSeen
      BY <3>1, SinceMsFacts
    <3>4. AfterLoss(clock - radioSeen) \in FlightModes
      BY <3>2, <3>3
    <3> QED BY <3>1, <3>4, TimeAssumption DEF AfterLoss, FlightModes
  <2> QED BY <2>1, <2>2
<1>2. CASE called' # "updateRadio"
  BY <1>2
<1>3. CASE UNCHANGED vars
  BY <1>3 DEF vars, members, history
<1> QED
  BY <1>1, <1>2, <1>3
  DEF Next, StartCalibration, CalibrationDone, Arm, Disarm, SetManual, SetStabilize,
      Emergency, NotifyThrottle, CheckAutoDisarm, Tick

LEMMA StepKeepsIdleArmingExpires ==
  IInv /\ [Next]_vars => IdleArmingExpires'
<1> SUFFICES ASSUME IInv, [Next]_vars PROVE IdleArmingExpires'
  OBVIOUS
<1> USE DEF IInv, IdleArmingExpires, ArmedFor
<1>1. CASE CheckAutoDisarm
  <2>1. /\ armedAtMs = armedSince % TimeMod /\ clock \in Nat /\ armedSince \in 0 .. clock
        /\ throttleWasUsed = throttled
    BY DEF TypeOK, Remembers
  <2>2. clock' = clock /\ armedSince' = armedSince /\ throttled' = throttled
    BY <1>1 DEF CheckAutoDisarm
  <2>3. clock - armedSince < TimeMod => SinceMs(armedAtMs) = clock - armedSince
    BY <2>1, SinceMsFacts
  <2> QED BY <1>1, <2>1, <2>2, <2>3, TimeAssumption DEF CheckAutoDisarm
<1>2. CASE called' # "checkAutoDisarm"
  BY <1>2
<1>3. CASE UNCHANGED vars
  BY <1>3 DEF vars, members, history
<1> QED
  BY <1>1, <1>2, <1>3
  DEF Next, StartCalibration, CalibrationDone, Arm, Disarm, SetManual, SetStabilize,
      UpdateRadio, Emergency, NotifyThrottle, Tick

-----------------------------------------------------------------------------
\* The inductive invariant holds of every behaviour.
THEOREM Invariance == Spec => []IInv
<1>1. Init => IInv
  BY InitInvariant
<1>2. IInv /\ [Next]_vars => IInv'
  BY StepKeepsTypes, StepKeepsMemory, StepKeepsLossIsNoticed, StepKeepsIdleArmingExpires
  DEF IInv
<1> QED BY <1>1, <1>2, PTL DEF Spec

\* The members of the class and the history keep their types; in particular
\* prevFlightMode is always a flight mode.
THEOREM TypeCorrect == Spec => []TypeOK
<1>1. IInv => TypeOK
  BY DEF IInv
<1> QED BY <1>1, Invariance, PTL

\* updateRadio leaves no aircraft in a flight mode after ShortLossMs of silence,
\* for every period of the tick and every delay.
THEOREM LossNoticed == Spec => []LossIsNoticed
<1>1. IInv => LossIsNoticed
  BY DEF IInv
<1> QED BY <1>1, Invariance, PTL

\* checkAutoDisarm leaves no idle aircraft armed for more than AutoDisarmMs.
THEOREM IdleArmingEnds == Spec => []IdleArmingExpires
<1>1. IInv => IdleArmingExpires
  BY DEF IInv
<1> QED BY <1>1, Invariance, PTL

\* When a short failsafe ends, the aircraft is in the mode last selected.
THEOREM RecoveryResumes == Spec => RecoveryResumesSelectedMode
<1>1. IInv /\ [Next]_vars =>
        [state = "FAILSAFE_SHORT" /\ state' \in FlightModes => state' = selected]_vars
  <2> SUFFICES ASSUME IInv, Next, state = "FAILSAFE_SHORT", state' \in FlightModes
               PROVE  state' = selected
    OBVIOUS
  <2>1. prevFlightMode = selected
    BY DEF IInv, Remembers
  <2>2. CASE \E valid \in BOOLEAN : UpdateRadio(valid)
    BY <2>1, <2>2 DEF UpdateRadio, Recover, AfterLoss, FlightModes
  <2> QED
    BY <2>2
    DEF Next, StartCalibration, CalibrationDone, Arm, CanArm, Disarm, CanDisarm, SetManual,
        SetStabilize, Emergency, NotifyThrottle, CheckAutoDisarm, Tick, members, FlightModes
<1> QED BY <1>1, Invariance, PTL DEF Spec, RecoveryResumesSelectedMode

\* A failsafe is entered only after the silence it stands for, however often the
\* tick has wrapped around.
THEOREM FailsafeIsJustified == Spec => NoSpuriousFailsafe
<1>1. IInv /\ [Next]_vars =>
        [ /\ (state \in FlightModes /\ state' = "FAILSAFE_SHORT" => Silence > ShortLossMs)
          /\ (state \in FlightModes /\ state' = "FAILSAFE_LONG" => Silence > LongLossMs) ]_vars
  <2> SUFFICES ASSUME IInv, Next, state \in FlightModes,
                      state' \in {"FAILSAFE_SHORT", "FAILSAFE_LONG"}
               PROVE  /\ state' = "FAILSAFE_SHORT" => Silence > ShortLossMs
                      /\ state' = "FAILSAFE_LONG" => Silence > LongLossMs
    OBVIOUS
  <2>1. lastRadioMs = radioSeen % TimeMod /\ clock \in Nat /\ radioSeen \in 0 .. clock
    BY DEF IInv, TypeOK, Remembers
  <2>2. SinceMs(lastRadioMs) \in Nat /\ SinceMs(lastRadioMs) <= Silence
    BY <2>1, SinceMsFacts DEF Silence
  <2>3. state' = AfterLoss(SinceMs(lastRadioMs))
    BY DEF Next, StartCalibration, CalibrationDone, Arm, CanArm, Disarm, CanDisarm, SetManual,
           SetStabilize, Emergency, NotifyThrottle, CheckAutoDisarm, Tick, members, FlightModes,
           UpdateRadio, Recover
  <2>4. /\ state' = "FAILSAFE_SHORT" => SinceMs(lastRadioMs) > ShortLossMs
        /\ state' = "FAILSAFE_LONG" => SinceMs(lastRadioMs) > LongLossMs
    BY <2>2, <2>3, TimeAssumption DEF AfterLoss, FlightModes
  <2>5. Silence \in Int
    BY <2>1 DEF Silence
  <2> QED BY <2>2, <2>4, <2>5, TimeAssumption
<1> QED BY <1>1, Invariance, PTL DEF Spec, NoSpuriousFailsafe

\* The idle timer disarms only an aircraft that has really been idle.
THEOREM AutoDisarmJustified == Spec => AutoDisarmIsJustified
<1>1. IInv /\ [Next]_vars =>
        [state = "ARMED" /\ state' = "DISARMED" /\ called' = "checkAutoDisarm" =>
           ~throttled /\ ArmedFor > AutoDisarmMs]_vars
  <2> SUFFICES ASSUME IInv, Next, state = "ARMED", state' = "DISARMED",
                      called' = "checkAutoDisarm"
               PROVE  ~throttled /\ ArmedFor > AutoDisarmMs
    OBVIOUS
  <2>1. /\ armedAtMs = armedSince % TimeMod /\ clock \in Nat /\ armedSince \in 0 .. clock
        /\ throttleWasUsed = throttled
    BY DEF IInv, TypeOK, Remembers
  <2>2. SinceMs(armedAtMs) \in Nat /\ SinceMs(armedAtMs) <= ArmedFor
    BY <2>1, SinceMsFacts DEF ArmedFor
  <2>3. CheckAutoDisarm
    BY DEF Next, StartCalibration, CalibrationDone, Arm, Disarm, SetManual, SetStabilize,
           UpdateRadio, Emergency, NotifyThrottle, Tick
  <2>4. ~throttleWasUsed /\ SinceMs(armedAtMs) > AutoDisarmMs
    BY <2>3 DEF CheckAutoDisarm
  <2>5. ArmedFor \in Int
    BY <2>1 DEF ArmedFor
  <2> QED BY <2>1, <2>2, <2>4, <2>5, TimeAssumption
<1> QED BY <1>1, Invariance, PTL DEF Spec, AutoDisarmIsJustified

\* The state machine implements MotorPower.
THEOREM ImplementsMotorPower == Spec => MotorPowerSpec
<1> USE DEF Power, MotorEnabled
<1>1. Init => Motor!Init
  BY DEF Init, Motor!Init
<1>2. IInv /\ [Next]_vars => [Motor!Next]_(Power(state))
  <2> SUFFICES ASSUME IInv, Next, state' # state
               PROVE  Motor!Next \/ UNCHANGED Power(state)
    BY DEF vars, members
  <2> USE DEF Motor!Next, Motor!Start, Motor!Stop, Motor!Cut
  <2>1. CASE StartCalibration \/ CalibrationDone
    BY <2>1 DEF StartCalibration, CalibrationDone
  <2>2. CASE \E gyro, radio, idle, battery \in BOOLEAN : Arm(gyro, radio, idle, battery)
    BY <2>2 DEF Arm, CanArm
  <2>3. CASE \E idle \in BOOLEAN : Disarm(idle)
    BY <2>3 DEF Disarm, CanDisarm
  <2>4. CASE SetManual \/ SetStabilize
    BY <2>4 DEF SetManual, SetStabilize
  <2>5. CASE \E valid \in BOOLEAN : UpdateRadio(valid)
    <3>1. prevFlightMode \in FlightModes
      BY DEF IInv, TypeOK
    <3>2. \/ state = "FAILSAFE_SHORT" /\ state' = prevFlightMode
          \/ state \in FlightModes /\ state' \in {"FAILSAFE_SHORT", "FAILSAFE_LONG"}
      BY <2>5 DEF UpdateRadio, Recover, AfterLoss
    <3> QED BY <3>1, <3>2 DEF FlightModes
  <2>6. CASE Emergency
    <3>1. state \in States
      BY DEF IInv, TypeOK
    <3> QED BY <2>6, <3>1 DEF Emergency, States
  <2>7. CASE CheckAutoDisarm
    BY <2>7 DEF CheckAutoDisarm
  <2>8. CASE (\E above \in BOOLEAN : NotifyThrottle(above)) \/ Tick
    BY <2>8 DEF NotifyThrottle, Tick, members
  <2> QED BY <2>1, <2>2, <2>3, <2>4, <2>5, <2>6, <2>7, <2>8 DEF Next
<1> QED BY <1>1, <1>2, Invariance, PTL DEF Spec, MotorPowerSpec, Motor!Spec

=============================================================================
