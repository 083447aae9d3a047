-------------------------- MODULE FlightLoopProofs --------------------------
(***************************************************************************)
(* Proofs about FlightLoop, for all delays and computing times, and        *)
(* whatever the devices do.  The samples come in time while the IMU        *)
(* answers; whatever its priority, the control task then ends its round    *)
(* before two of them have come, and begins no third one on the same       *)
(* sample.                                                                 *)
(***************************************************************************)
EXTENDS FlightLoop, TLAPS

\* The three tasks that matter here.
sensor == task["sensor"]
control == task["control"]
radioRx == task["radioRx"]

\* Every time is a number of ticks, of one at least.
LEMMA Ticks ==
  /\ \A t \in Tasks : Delay[t] \in Nat /\ Delay[t] > 0 /\ Work[t] \in Nat /\ Work[t] > 0
  /\ DeadWork \in Nat /\ DeadWork > 0 /\ Calibrate \in Nat /\ Calibrate > 0
  /\ StartDelay \in Nat /\ StartDelay > 0 /\ WaitTimeout \in Nat /\ WaitTimeout > 0
  /\ Timeout \in Nat /\ Timeout > 0
  /\ {"sensor", "control", "radioRx"} \subseteq Tasks
BY FlightLoopAssumption DEF Tasks

\* When the scheduler starts every variable has its type.
LEMMA InitTypes ==
  ASSUME Init
  PROVE  TypeOK
<1> USE Ticks
<1>1. ASSUME NEW t \in Tasks, NEW absent
      PROVE  Start(absent)[t] \in [mode : {"delay", "wait", "run", "off"}, left : Nat \ {0}]
  BY DEF Start, In
<1>2. task \in [Tasks -> [mode : {"delay", "wait", "run", "off"}, left : Nat \ {0}]]
  BY <1>1 DEF Init, Start
<1> QED BY <1>2 DEF Init, TypeOK, NoSample, ManyUses

\* A task that does not run still has ticks left.
LEMMA LaterType ==
  ASSUME TypeOK, NEW t \in Tasks
  PROVE  Later(t) \in [mode : {"delay", "wait", "run", "off"}, left : Nat \ {0}]
<1> USE Ticks
<1>1. task[t] \in [mode : {"delay", "wait", "run", "off"}, left : Nat \ {0}]
  BY DEF TypeOK
<1>2. Wake(t) \in [mode : {"delay", "wait", "run", "off"}, left : Nat \ {0}]
  BY DEF Wake, In
<1>3. ASSUME task[t].left > 1
      PROVE  [task[t] EXCEPT !.left = @ - 1]
               \in [mode : {"delay", "wait", "run", "off"}, left : Nat \ {0}]
  BY <1>1, <1>3
<1> QED BY <1>1, <1>2, <1>3 DEF Later, In

\* A tick in which a task runs leaves every variable its type.
LEMMA RunsType ==
  ASSUME TypeOK, NEW t \in Tasks,
         NEW after \in [mode : {"delay", "wait", "run", "off"}, left : Nat \ {0}],
         Runs(t, after), stage' \in {"start", "loop"}, UNCHANGED dead
  PROVE  TypeOK'
<1> USE Ticks
<1>1. task' \in [Tasks -> [mode : {"delay", "wait", "run", "off"}, left : Nat \ {0}]]
  BY LaterType DEF Runs, In
<1>2. /\ dog' \in 0 .. Timeout /\ age' \in {NoSample} \cup Nat /\ used' \in Nat
      /\ uses' \in 0 .. ManyUses /\ outage' \in 0 .. 3
  BY DEF Runs, TypeOK, NoSample, ManyUses
<1> QED BY <1>1, <1>2 DEF TypeOK

\* A tick in which a task runs ends its round, takes it one tick further, polls a device
\* that does not answer, or ends the calibration.
LEMMA TickKinds ==
  ASSUME TypeOK, Tick, ~Idle, ~Reset
  PROVE  \E t \in Tasks, after \in [mode : {"run", "delay"}, left : Nat \ {0}] :
           /\ Runs(t, after) /\ UNCHANGED dead /\ task[t].mode = "run"
           /\ \/ after.mode = "delay" /\ after.left = Delay[t] /\ stage' = stage
                 /\ ~Hangs(t) /\ (t = "sensor" => stage = "loop")
              \/ after.mode = "run" /\ after.left = task[t].left - 1 /\ stage' = stage
                 /\ ~Hangs(t)
              \/ after = task[t] /\ stage' = stage /\ Hangs(t)
              \/ t = "sensor" /\ stage = "start" /\ stage' = "loop" /\ ~Hangs(t)
                 /\ after.mode = "run" /\ after.left = Work[t]
<1> USE Ticks
<1>1. \A t \in Tasks : task[t] \in [mode : {"delay", "wait", "run", "off"}, left : Nat \ {0}]
  BY DEF TypeOK
<1>2. ASSUME NEW t \in Tasks, NEW after, Runs(t, after) PROVE task[t].mode = "run"
  BY <1>2 DEF Runs, Scheduled, Ready
<1>3. ASSUME NEW t \in Tasks, Compute(t) PROVE
           /\ Runs(t, In("run", task[t].left - 1)) /\ UNCHANGED <<dead, stage>>
           /\ ~Hangs(t)
           /\ In("run", task[t].left - 1) \in [mode : {"run", "delay"}, left : Nat \ {0}]
  BY <1>1, <1>3 DEF Compute, In
<1>4. ASSUME NEW t \in Tasks, Spin(t) PROVE
           /\ Runs(t, task[t]) /\ UNCHANGED <<dead, stage>> /\ Hangs(t)
           /\ task[t] \in [mode : {"run", "delay"}, left : Nat \ {0}]
  BY <1>1, <1>4 DEF Spin, Hangs
<1>5. ASSUME NEW t \in Tasks, EndRound(t) PROVE
           /\ Runs(t, In("delay", Delay[t])) /\ UNCHANGED <<dead, stage>>
           /\ ~Hangs(t) /\ (t = "sensor" => stage = "loop")
           /\ In("delay", Delay[t]) \in [mode : {"run", "delay"}, left : Nat \ {0}]
  BY <1>1, <1>5 DEF EndRound, In, TypeOK
<1>6. ASSUME Calibrated PROVE
           /\ Runs("sensor", In("run", Work["sensor"])) /\ UNCHANGED dead
           /\ stage = "start" /\ stage' = "loop" /\ ~Hangs("sensor")
           /\ In("run", Work["sensor"]) \in [mode : {"run", "delay"}, left : Nat \ {0}]
  BY <1>1, <1>6 DEF Calibrated, In
<1>7. \A m, n : In(m, n).mode = m /\ In(m, n).left = n
  BY DEF In
<1>8. CASE \E t \in Tasks : Compute(t)
  <2> PICK t \in Tasks : Compute(t)
    BY <1>8
  <2> DEFINE after == In("run", task[t].left - 1)
  <2> HIDE DEF after
  <2>1. after \in [mode : {"run", "delay"}, left : Nat \ {0}]
    BY <1>3 DEF after
  <2>2. /\ Runs(t, after) /\ UNCHANGED <<dead, stage>> /\ ~Hangs(t)
        /\ after.mode = "run" /\ after.left = task[t].left - 1 /\ task[t].mode = "run"
    BY <1>2, <1>3, <1>7 DEF after
  <2> QED BY <2>1, <2>2
<1>9. CASE \E t \in Tasks : Spin(t)
  BY <1>2, <1>4, <1>9
<1>10. CASE \E t \in Tasks : EndRound(t)
  <2> PICK t \in Tasks : EndRound(t)
    BY <1>10
  <2> DEFINE after == In("delay", Delay[t])
  <2> HIDE DEF after
  <2>1. after \in [mode : {"run", "delay"}, left : Nat \ {0}]
    BY <1>5 DEF after
  <2>2. /\ Runs(t, after) /\ UNCHANGED <<dead, stage>> /\ ~Hangs(t)
        /\ (t = "sensor" => stage = "loop")
        /\ after.mode = "delay" /\ after.left = Delay[t] /\ task[t].mode = "run"
    BY <1>2, <1>5, <1>7 DEF after
  <2> QED BY <2>1, <2>2
<1>11. CASE Calibrated
  <2> DEFINE after == In("run", Work["sensor"])
  <2> HIDE DEF after
  <2>1. after \in [mode : {"run", "delay"}, left : Nat \ {0}]
    BY <1>6, <1>11 DEF after
  <2>2. /\ Runs("sensor", after) /\ UNCHANGED dead /\ ~Hangs("sensor")
        /\ stage = "start" /\ stage' = "loop"
        /\ after.mode = "run" /\ after.left = Work["sensor"] /\ task["sensor"].mode = "run"
    BY <1>2, <1>6, <1>7, <1>11 DEF after
  <2> QED BY <2>1, <2>2
<1> QED BY <1>8, <1>9, <1>10, <1>11 DEF Tick

\* Every step does.
LEMMA NextTypes ==
  ASSUME TypeOK, [Next]_vars
  PROVE  TypeOK'
<1> USE Ticks
<1>1. CASE Tick /\ ~Idle /\ ~Reset
  <2>1. PICK t \in Tasks, after \in [mode : {"run", "delay"}, left : Nat \ {0}] :
           Runs(t, after) /\ UNCHANGED dead /\ stage' \in {"loop", stage}
    BY <1>1, TickKinds
  <2> QED BY <2>1, RunsType DEF TypeOK
<1>2. CASE Idle
  <2>1. task' \in [Tasks -> [mode : {"delay", "wait", "run", "off"}, left : Nat \ {0}]]
    BY <1>2, LaterType DEF Idle
  <2> QED BY <1>2, <2>1 DEF Idle, TypeOK, NoSample
<1>3. CASE Reset
  <2>1. ASSUME NEW t \in Tasks
        PROVE  task'[t] \in [mode : {"delay", "wait", "run", "off"}, left : Nat \ {0}]
    BY <1>3 DEF Reset, Start, In
  <2> QED BY <1>3, <2>1 DEF Reset, Start, TypeOK, NoSample, ManyUses
<1>4. CASE ImuFails
  <2>1. task' \in [Tasks -> [mode : {"delay", "wait", "run", "off"}, left : Nat \ {0}]]
    <3>1. [task EXCEPT !["sensor"].left = DeadWork]
            \in [Tasks -> [mode : {"delay", "wait", "run", "off"}, left : Nat \ {0}]]
      BY DEF TypeOK
    <3> QED BY <1>4, <3>1 DEF ImuFails, TypeOK
  <2> QED BY <1>4, <2>1 DEF ImuFails, TypeOK
<1>5. CASE ImuAnswers
  BY <1>5 DEF ImuAnswers, TypeOK
<1>6. CASE FlashFails
  BY <1>6 DEF FlashFails, TypeOK
<1>7. CASE UNCHANGED vars
  BY <1>7 DEF vars, TypeOK
<1> QED BY <1>1, <1>2, <1>3, <1>4, <1>5, <1>6, <1>7 DEF Next

\* The control task has taken its sample and has not yet ended its round.
MidRound == control.mode = "run" /\ control.left < Work["control"]

\* What the three tasks may be doing.
Modes ==
  /\ sensor.mode \in {"delay", "run", "off"} /\ radioRx.mode \in {"delay", "run"}
  /\ sensor.mode = "off" <=> control.mode = "off"
  /\ sensor.mode = "off" => age = NoSample /\ "imu" \in dead
  /\ control.mode = "run" => age # NoSample /\ control.left <= Work["control"]
  /\ control.mode = "delay" => control.left <= Delay["control"]
  /\ age # NoSample => stage = "loop" /\ control.mode \in {"delay", "run"}
  /\ radioRx.mode = "run" => radioRx.left <= Work["radioRx"]
  /\ age = NoSample => uses = 0

\* After the second sample that follows a failure, samples are in time again.
SamplesInTime ==
  outage <= 2 =>
    /\ "imu" \notin dead \/ sensor.mode = "off"
    /\ age # NoSample =>
         age + sensor.left = IF sensor.mode = "delay" THEN Delay["sensor"]
                             ELSE Delay["sensor"] + Work["sensor"]

\* From one use of a sample to the next takes a round and its delay.
UsesApart ==
  /\ \A n \in {1, 2} :
       uses = n =>
         /\ MidRound => age > (n - 1) * (Delay["control"] + 1)
         /\ control.mode = "run" /\ ~MidRound => age >= n * (Delay["control"] + 1)
         /\ control.mode = "delay" => age + control.left >= n * (Delay["control"] + 1)
  /\ outage <= 2 => uses <= 2

\* A sample that the control task works on is the last one, or the last but one, and then
\* there is not much left of its round.
RoundInTime ==
  /\ ServosFollowSensors
  /\ outage = 0 /\ MidRound =>
       \/ used = age
       \/ /\ sensor.mode = "delay" /\ used <= Delay["sensor"] + Work["sensor"] + age
          /\ \/ radioRx.mode = "run"
                /\ age + control.left + radioRx.left < Work["control"] + Work["radioRx"]
             \/ radioRx.mode = "delay" /\ age + control.left < Work["control"]
             \/ /\ radioRx.mode = "delay" /\ control.left <= radioRx.left
                /\ age + control.left < Work["control"] + Work["radioRx"]

\* A task that does not run: one tick later.
LEMMA LaterCases ==
  ASSUME TypeOK, NEW t \in Tasks
  PROVE  /\ task[t].mode \in {"run", "off"} => Later(t) = task[t]
         /\ task[t].mode \in {"wait", "delay"} /\ task[t].left # 1 =>
              Later(t).mode = task[t].mode /\ Later(t).left = task[t].left - 1
         /\ task[t].mode = "wait" /\ task[t].left = 1 =>
              Later(t).mode = "delay" /\ Later(t).left = Delay[t]
         /\ task[t].mode = "delay" /\ task[t].left = 1 => Later(t) = Wake(t)
<1>1. task[t] \in [mode : {"delay", "wait", "run", "off"}, left : Nat \ {0}]
  BY DEF TypeOK
<1>2. CASE task[t].mode \in {"run", "off"}
  BY <1>2 DEF Later
<1>3. CASE task[t].mode \in {"wait", "delay"} /\ task[t].left # 1
  <2> DEFINE next == [task[t] EXCEPT !.left = @ - 1]
  <2>1. next.mode = task[t].mode /\ next.left = task[t].left - 1
    BY <1>1
  <2>2. Later(t) = next
    BY <1>3 DEF Later
  <2> QED BY <1>3, <2>1, <2>2
<1>4. CASE task[t].mode = "wait" /\ task[t].left = 1
  BY <1>4 DEF Later, In
<1>5. CASE task[t].mode = "delay" /\ task[t].left = 1
  BY <1>5 DEF Later
<1> QED BY <1>1, <1>2, <1>3, <1>4, <1>5

\* The same of the three tasks.
LEMMA SensorLater ==
  ASSUME TypeOK, Modes
  PROVE  LET later == Later("sensor") IN
         /\ sensor.mode \in {"run", "off"} => later = sensor
         /\ sensor.mode = "delay" /\ sensor.left > 1 =>
              later.mode = "delay" /\ later.left = sensor.left - 1
         /\ sensor.mode = "delay" /\ sensor.left = 1 =>
              /\ later.mode = "run"
              /\ stage = "loop" /\ "imu" \notin dead => later.left = Work["sensor"]
<1> USE Ticks
<1>1. CASE sensor.mode = "delay" /\ sensor.left = 1
  <2>1. Later("sensor") = Wake("sensor")
    BY <1>1, LaterCases DEF sensor
  <2>2. Wake("sensor").mode = "run"
    BY DEF Wake, In, TypeOK
  <2>3. stage = "loop" /\ "imu" \notin dead => Wake("sensor").left = Work["sensor"]
    BY DEF Wake, In
  <2> QED BY <1>1, <2>1, <2>2, <2>3
<1>2. CASE ~(sensor.mode = "delay" /\ sensor.left = 1)
  BY <1>2, LaterCases DEF sensor
<1> QED BY <1>1, <1>2

LEMMA RadioLater ==
  ASSUME TypeOK, Modes
  PROVE  LET later == Later("radioRx") IN
         /\ radioRx.mode = "run" => later = radioRx
         /\ radioRx.mode = "delay" /\ radioRx.left > 1 =>
              later.mode = "delay" /\ later.left = radioRx.left - 1
         /\ radioRx.mode = "delay" /\ radioRx.left = 1 =>
              later.mode = "run" /\ later.left = Work["radioRx"]
<1> USE Ticks
<1>1. CASE radioRx.mode = "delay" /\ radioRx.left = 1
  <2>1. Later("radioRx") = Wake("radioRx")
    BY <1>1, LaterCases DEF radioRx
  <2>2. Wake("radioRx").mode = "run" /\ Wake("radioRx").left = Work["radioRx"]
    BY DEF Wake, In
  <2> QED BY <1>1, <2>1, <2>2
<1>2. CASE ~(radioRx.mode = "delay" /\ radioRx.left = 1)
  BY <1>2, LaterCases DEF radioRx
<1> QED BY <1>1, <1>2

LEMMA ControlLater ==
  ASSUME TypeOK
  PROVE  LET later == Later("control") IN
         /\ control.mode \in {"run", "off"} => later = control
         /\ control.mode \in {"wait", "delay"} /\ control.left > 1 =>
              later.mode = control.mode /\ later.left = control.left - 1
         /\ control.mode = "wait" /\ control.left = 1 =>
              later.mode = "delay" /\ later.left = Delay["control"]
         /\ control.mode = "delay" /\ control.left = 1 =>
              IF age' = NoSample THEN later.mode = "wait"
                                      ELSE later.mode = "run" /\ later.left = Work["control"]
<1> USE Ticks
<1>1. CASE control.mode = "delay" /\ control.left = 1
  <2>1. Later("control") = Wake("control")
    BY <1>1, LaterCases DEF control
  <2>2. IF age' = NoSample THEN Wake("control").mode = "wait"
          ELSE Wake("control").mode = "run" /\ Wake("control").left = Work["control"]
    BY DEF Wake, In
  <2> QED BY <1>1, <2>1, <2>2
<1>2. CASE ~(control.mode = "delay" /\ control.left = 1)
  BY <1>2, LaterCases DEF control
<1> QED BY <1>1, <1>2


\* The inductive invariant.
LoopInv == Modes /\ SamplesInTime /\ UsesApart /\ RoundInTime

\* The types of what the invariant is about.
LEMMA Typed ==
  ASSUME TypeOK
  PROVE  /\ \A t \in {sensor, control, radioRx} :
              t.mode \in {"delay", "wait", "run", "off"} /\ t.left \in Nat /\ 1 <= t.left
         /\ age \in Int /\ -1 <= age /\ (age # NoSample => 0 <= age)
         /\ used \in Nat /\ uses \in 0 .. 3 /\ outage \in 0 .. 3
<1>1. \A t \in {"sensor", "control", "radioRx"} :
        task[t] \in [mode : {"delay", "wait", "run", "off"}, left : Nat \ {0}]
  BY DEF TypeOK, Tasks
<1> QED BY <1>1 DEF TypeOK, NoSample, ManyUses, sensor, control, radioRx

\* A tick in which the control task runs.
LEMMA ControlTick ==
  ASSUME Timely, TypeOK, LoopInv, UNCHANGED <<dead, stage>>, control.mode = "run",
         NEW after \in [mode : {"run", "delay"}, left : Nat \ {0}], Runs("control", after),
         \/ after.mode = "delay" /\ after.left = Delay["control"]
         \/ after.mode = "run" /\ after.left = control.left - 1
  PROVE  LoopInv'
<1>2. /\ sensor.mode = "delay" /\ radioRx.mode \in {"delay", "run"} /\ age # NoSample
      /\ stage = "loop" /\ control.left <= Work["control"]
  <2>1. "sensor" \in Ready <=> sensor.mode = "run"
    BY DEF Ready, sensor, Tasks
  <2>2. sensor.mode # "run"
    BY <2>1 DEF Runs, Scheduled, Priority
  <2> QED BY <2>2 DEF LoopInv, Modes
<1>3. /\ sensor' = Later("sensor") /\ radioRx' = Later("radioRx") /\ control' = after
      /\ age' = age + 1 /\ outage' = outage
      /\ used' = IF control.left = Work["control"] THEN age + 1 ELSE used + 1
      /\ uses' = IF control.left = Work["control"] /\ uses < 3 THEN uses + 1 ELSE uses
  BY <1>2 DEF Runs, Publishes, Begins, Tasks, ManyUses, LoopInv, Modes,
              sensor, radioRx, control
<1>4. /\ sensor.left > 1 => sensor'.mode = "delay" /\ sensor'.left = sensor.left - 1
      /\ sensor.left = 1 => /\ sensor'.mode = "run"
                            /\ "imu" \notin dead => sensor'.left = Work["sensor"]
  BY <1>2, <1>3, SensorLater DEF LoopInv
<1>5. /\ radioRx.mode = "run" => radioRx' = radioRx
      /\ radioRx.mode = "delay" /\ radioRx.left > 1 =>
           radioRx'.mode = "delay" /\ radioRx'.left = radioRx.left - 1
      /\ radioRx.mode = "delay" /\ radioRx.left = 1 =>
           radioRx'.mode = "run" /\ radioRx'.left = Work["radioRx"]
  BY <1>3, RadioLater DEF LoopInv
<1>6. \/ control'.mode = "delay" /\ control'.left = Delay["control"]
      \/ control'.mode = "run" /\ control'.left = control.left - 1 /\ 1 < control.left
  BY <1>3, Typed
<1> USE <1>2, <1>3, <1>4, <1>5, <1>6, Ticks, Typed DEF NoSample
<1> HIDE DEF sensor, control, radioRx
<1>7. Modes'
  BY DEF LoopInv, Modes
<1>8. SamplesInTime'
  BY DEF LoopInv, Modes, SamplesInTime
<1>9. UsesApart'
  <2>1. (outage <= 2 => uses <= 2)'
    BY DEF LoopInv, Modes, SamplesInTime, UsesApart, MidRound, Timely
  <2>2. ASSUME NEW n \in {1, 2}, uses' = n
        PROVE  /\ MidRound' => age' > (n - 1) * (Delay["control"] + 1)
               /\ control'.mode = "run" /\ ~MidRound' => age' >= n * (Delay["control"] + 1)
               /\ control'.mode = "delay" => age' + control'.left >= n * (Delay["control"] + 1)
    BY <2>2 DEF LoopInv, Modes, UsesApart, MidRound
  <2> QED BY <2>1, <2>2 DEF UsesApart
<1>10. RoundInTime'
  <2> USE DEF LoopInv, Modes, SamplesInTime, RoundInTime, MidRound, Timely
  <2>1. CASE outage # 0
    BY <2>1 DEF ServosFollowSensors
  <2>2. CASE outage = 0 /\ control.left = Work["control"]
    BY <2>2 DEF ServosFollowSensors
  <2>3. CASE outage = 0 /\ MidRound /\ used = age
    BY <2>3 DEF ServosFollowSensors
  <2>4. CASE outage = 0 /\ MidRound /\ used # age
    <3>1. /\ used <= Delay["sensor"] + Work["sensor"] + age
          /\ age + control.left < Work["control"] + Work["radioRx"]
      BY <2>4
    <3>2. ServosFollowSensors'
      BY <2>4, <3>1 DEF ServosFollowSensors
    <3>3. sensor'.mode = "delay" /\ used' = used + 1
      BY <2>4, <3>1
    <3>4. CASE control'.mode = "delay"
      BY <3>2, <3>4
    <3> HIDE DEF Timely
    <3>5. CASE control'.mode = "run" /\ radioRx.mode = "run"
      <4>1. age' + control'.left + radioRx'.left < Work["control"] + Work["radioRx"]
        BY <2>4, <3>5
      <4> QED BY <3>1, <3>2, <3>3, <3>5, <4>1
    <3>6. CASE control'.mode = "run" /\ radioRx.mode = "delay" /\ radioRx.left > 1
      <4>1. \/ age' + control'.left < Work["control"]
            \/ /\ control'.left <= radioRx'.left
               /\ age' + control'.left < Work["control"] + Work["radioRx"]
        BY <2>4, <3>6
      <4> QED BY <3>1, <3>2, <3>3, <3>6, <4>1
    <3>7. CASE control'.mode = "run" /\ radioRx.mode = "delay" /\ radioRx.left = 1
      <4>1. age' + control'.left + radioRx'.left < Work["control"] + Work["radioRx"]
        BY <2>4, <3>7
      <4> QED BY <3>1, <3>2, <3>3, <3>7, <4>1
    <3> QED BY <3>4, <3>5, <3>6, <3>7
  <2> QED BY <2>1, <2>2, <2>3, <2>4
<1> QED BY <1>7, <1>8, <1>9, <1>10 DEF LoopInv

\* A tick in which the receiver runs.
LEMMA RadioTick ==
  ASSUME Timely, TypeOK, LoopInv, UNCHANGED <<dead, stage>>, radioRx.mode = "run",
         NEW after \in [mode : {"run", "delay"}, left : Nat \ {0}], Runs("radioRx", after),
         \/ after.mode = "delay" /\ after.left = Delay["radioRx"]
         \/ after.mode = "run" /\ after.left = radioRx.left - 1
  PROVE  LoopInv'
<1>2. sensor.mode \in {"delay", "off"} /\ radioRx.left <= Work["radioRx"]
  <2>1. "sensor" \in Ready <=> sensor.mode = "run"
    BY DEF Ready, sensor, Tasks
  <2>2. sensor.mode # "run"
    BY <2>1 DEF Runs, Scheduled, Priority
  <2> QED BY <2>2 DEF LoopInv, Modes
<1>3. /\ sensor' = Later("sensor") /\ control' = Later("control") /\ radioRx' = after
      /\ age' = IF age = NoSample THEN NoSample ELSE age + 1
      /\ outage' = outage /\ uses' = uses
      /\ used' = IF control.mode = "run" /\ control.left # Work["control"] THEN used + 1 ELSE 0
  BY <1>2 DEF Runs, Publishes, Begins, Tasks, ManyUses,
              sensor, radioRx, control
<1>4. /\ sensor.mode = "off" => sensor' = sensor
      /\ sensor.mode = "delay" /\ sensor.left > 1 =>
           sensor'.mode = "delay" /\ sensor'.left = sensor.left - 1
      /\ sensor.mode = "delay" /\ sensor.left = 1 =>
           /\ sensor'.mode = "run"
           /\ stage = "loop" /\ "imu" \notin dead => sensor'.left = Work["sensor"]
  BY <1>2, <1>3, SensorLater DEF LoopInv
<1>5. /\ control.mode \in {"run", "off"} => control' = control
      /\ control.mode \in {"wait", "delay"} /\ control.left > 1 =>
           control'.mode = control.mode /\ control'.left = control.left - 1
      /\ control.mode = "wait" /\ control.left = 1 =>
           control'.mode = "delay" /\ control'.left = Delay["control"]
      /\ control.mode = "delay" /\ control.left = 1 =>
           IF age' = NoSample THEN control'.mode = "wait"
             ELSE control'.mode = "run" /\ control'.left = Work["control"]
  BY <1>3, ControlLater
<1>6. \/ radioRx'.mode = "delay" /\ radioRx'.left = Delay["radioRx"]
      \/ radioRx'.mode = "run" /\ radioRx'.left = radioRx.left - 1 /\ 1 < radioRx.left
  BY <1>3, Typed
<1> USE <1>2, <1>3, <1>4, <1>5, <1>6, Ticks, Typed DEF NoSample
<1> HIDE DEF sensor, control, radioRx
<1>7. Modes'
  BY DEF LoopInv, Modes
<1>8. SamplesInTime'
  BY DEF LoopInv, Modes, SamplesInTime
<1>9. UsesApart'
  BY DEF LoopInv, Modes, UsesApart, MidRound
<1>10. RoundInTime'
  <2> USE DEF LoopInv, Modes, SamplesInTime, RoundInTime, MidRound, Timely
  <2>1. CASE outage # 0 \/ ~MidRound
    BY <2>1 DEF ServosFollowSensors
  <2>2. CASE outage = 0 /\ MidRound /\ used = age
    BY <2>2 DEF ServosFollowSensors
  <2>3. CASE outage = 0 /\ MidRound /\ used # age
    BY <2>3 DEF ServosFollowSensors
  <2> QED BY <2>1, <2>2, <2>3
<1> QED BY <1>7, <1>8, <1>9, <1>10 DEF LoopInv

\* A tick in which none of the three runs.
LEMMA QuietTick ==
  ASSUME Timely, TypeOK, LoopInv, UNCHANGED <<dead, stage>>,
         "run" \notin {sensor.mode, control.mode, radioRx.mode},
         /\ sensor' = Later("sensor") /\ control' = Later("control")
         /\ radioRx' = Later("radioRx")
         /\ age' = (IF age = NoSample THEN NoSample ELSE age + 1)
         /\ used' = 0 /\ uses' = uses,
         outage' = outage \/ (outage = 1 /\ outage' = 0)
  PROVE  LoopInv'
<1>4. /\ sensor.mode = "off" => sensor' = sensor
      /\ sensor.mode = "delay" /\ sensor.left > 1 =>
           sensor'.mode = "delay" /\ sensor'.left = sensor.left - 1
      /\ sensor.mode = "delay" /\ sensor.left = 1 =>
           /\ sensor'.mode = "run"
           /\ stage = "loop" /\ "imu" \notin dead => sensor'.left = Work["sensor"]
  BY SensorLater DEF LoopInv
<1>5. /\ control.mode = "off" => control' = control
      /\ control.mode \in {"wait", "delay"} /\ control.left > 1 =>
           control'.mode = control.mode /\ control'.left = control.left - 1
      /\ control.mode = "wait" /\ control.left = 1 =>
           control'.mode = "delay" /\ control'.left = Delay["control"]
      /\ control.mode = "delay" /\ control.left = 1 =>
           IF age' = NoSample THEN control'.mode = "wait"
             ELSE control'.mode = "run" /\ control'.left = Work["control"]
  BY ControlLater
<1>6. /\ radioRx.mode = "delay" /\ radioRx.left > 1 =>
           radioRx'.mode = "delay" /\ radioRx'.left = radioRx.left - 1
      /\ radioRx.mode = "delay" /\ radioRx.left = 1 =>
           radioRx'.mode = "run" /\ radioRx'.left = Work["radioRx"]
  BY RadioLater DEF LoopInv
<1> USE <1>4, <1>5, <1>6, Ticks, Typed DEF NoSample
<1> HIDE DEF sensor, control, radioRx
<1>7. Modes'
  BY DEF LoopInv, Modes
<1>8. SamplesInTime'
  BY DEF LoopInv, Modes, SamplesInTime
<1>9. UsesApart'
  BY DEF LoopInv, Modes, UsesApart, MidRound
<1>10. RoundInTime'
  BY DEF LoopInv, Modes, RoundInTime, MidRound, ServosFollowSensors
<1> QED BY <1>7, <1>8, <1>9, <1>10 DEF LoopInv

\* A tick in which the sensor task runs, of a round that publishes its sample at its end.
LEMMA SensorTick ==
  ASSUME Timely, TypeOK, LoopInv, UNCHANGED dead, sensor.mode = "run",
         NEW after \in [mode : {"run", "delay"}, left : Nat \ {0}], Runs("sensor", after),
         \/ after.mode = "delay" /\ after.left = Delay["sensor"] /\ stage = "loop" /\ stage' = stage
         \/ after.mode = "run" /\ after.left = sensor.left - 1 /\ stage' = stage
         \/ after.mode = "run" /\ stage = "start"
  PROVE  LoopInv'
<1> DEFINE published == stage = "loop" /\ after.mode = "delay"
<1>2. /\ sensor' = after
      /\ control' = IF control.mode = "wait" /\ published THEN In("run", Work["control"])
                    ELSE Later("control")
      /\ radioRx' = Later("radioRx")
      /\ age' = IF published THEN 0 ELSE IF age = NoSample THEN NoSample ELSE age + 1
      /\ outage' = IF published /\ "imu" \notin dead /\ outage > 1 THEN outage - 1 ELSE outage
      /\ uses' = IF published THEN 0 ELSE uses
      /\ used' = IF control.mode = "run" /\ control.left # Work["control"] THEN used + 1 ELSE 0
  <2>1. Publishes("sensor", after) <=> published
    BY DEF Publishes
  <2>2. radioRx.mode # "wait"
    BY DEF LoopInv, Modes
  <2> HIDE DEF published
  <2> QED BY <2>1, <2>2 DEF Runs, Begins, Tasks, sensor, radioRx, control
<1>3. /\ control.mode \in {"run", "off"} => control' = control
      /\ control.left > 1 /\ (control.mode = "delay" \/ (control.mode = "wait" /\ ~published)) =>
           control'.mode = control.mode /\ control'.left = control.left - 1
      /\ control.mode = "wait" /\ published =>
           control'.mode = "run" /\ control'.left = Work["control"]
      /\ control.mode = "wait" /\ ~published /\ control.left = 1 =>
           control'.mode = "delay" /\ control'.left = Delay["control"]
      /\ control.mode = "delay" /\ control.left = 1 =>
           IF age' = NoSample THEN control'.mode = "wait"
             ELSE control'.mode = "run" /\ control'.left = Work["control"]
  <2> HIDE DEF published
  <2> QED BY <1>2, ControlLater DEF In
<1>4. /\ radioRx.mode = "run" => radioRx' = radioRx
      /\ radioRx.mode = "delay" /\ radioRx.left > 1 =>
           radioRx'.mode = "delay" /\ radioRx'.left = radioRx.left - 1
      /\ radioRx.mode = "delay" /\ radioRx.left = 1 =>
           radioRx'.mode = "run" /\ radioRx'.left = Work["radioRx"]
  BY <1>2, RadioLater DEF LoopInv
<1>5. \/ sensor'.mode = "delay" /\ sensor'.left = Delay["sensor"] /\ stage = "loop"
         /\ stage' = stage
      \/ sensor'.mode = "run" /\ sensor'.left = sensor.left - 1 /\ stage' = stage
      \/ sensor'.mode = "run" /\ stage = "start"
  BY <1>2
<1>6. (published <=> sensor'.mode = "delay") /\ (published => stage = "loop")
  BY <1>2
<1> USE <1>2, <1>3, <1>4, <1>5, <1>6, Ticks, Typed DEF NoSample
<1> HIDE DEF sensor, control, radioRx, published
<1>7. Modes'
  BY DEF LoopInv, Modes, TypeOK
<1>8. SamplesInTime'
  BY DEF LoopInv, Modes, SamplesInTime
<1>9. UsesApart'
  BY DEF LoopInv, Modes, UsesApart, MidRound
<1>10. RoundInTime'
  <2> USE DEF LoopInv, Modes, SamplesInTime, RoundInTime, MidRound
  <2>1. CASE published
    BY <2>1 DEF ServosFollowSensors
  <2>2. CASE ~published
    BY <2>2 DEF ServosFollowSensors
  <2> QED BY <2>1, <2>2
<1> QED BY <1>7, <1>8, <1>9, <1>10 DEF LoopInv

\* The invariant holds when the scheduler starts.
LEMMA LoopInvInit == Timely /\ Init => TypeOK /\ LoopInv
<1> SUFFICES ASSUME Timely, Init PROVE TypeOK /\ LoopInv
  OBVIOUS
<1>1. TypeOK
  BY InitTypes
<1>2. /\ radioRx.mode = "run" /\ radioRx.left = Work["radioRx"]
      /\ "imu" \in dead => sensor.mode = "off" /\ control.mode = "off"
      /\ "imu" \notin dead => sensor.mode = "delay" /\ control.mode = "wait"
  BY Ticks DEF Init, Start, ImuFound, In, sensor, control, radioRx
<1>3. age = NoSample /\ uses = 0 /\ used = 0 /\ outage = 0
  BY DEF Init
<1> HIDE DEF sensor, control, radioRx
<1>4. ServosFollowSensors
  BY <1>3, Ticks DEF ServosFollowSensors
<1>5. Work["radioRx"] <= Work["radioRx"]
  BY Ticks
<1>6. Modes
  BY <1>2, <1>3, <1>5 DEF Modes
<1>7. SamplesInTime /\ UsesApart /\ RoundInTime
  BY <1>2, <1>3, <1>4 DEF SamplesInTime, UsesApart, RoundInTime, MidRound
<1> QED BY <1>1, <1>6, <1>7 DEF LoopInv

\* Every step keeps it.
LEMMA LoopInvNext ==
  ASSUME Timely, TypeOK, LoopInv, [Next]_vars
  PROVE  TypeOK' /\ LoopInv'
<1>0. TypeOK'
  BY NextTypes
<1>1. CASE Tick /\ ~Idle /\ ~Reset
  <2>1. PICK t \in Tasks, after \in [mode : {"run", "delay"}, left : Nat \ {0}] :
           /\ Runs(t, after) /\ UNCHANGED dead /\ task[t].mode = "run"
           /\ \/ after.mode = "delay" /\ after.left = Delay[t] /\ stage' = stage
                 /\ ~Hangs(t) /\ (t = "sensor" => stage = "loop")
              \/ after.mode = "run" /\ after.left = task[t].left - 1 /\ stage' = stage
                 /\ ~Hangs(t)
              \/ after = task[t] /\ stage' = stage /\ Hangs(t)
              \/ t = "sensor" /\ stage = "start" /\ stage' = "loop" /\ ~Hangs(t)
                 /\ after.mode = "run" /\ after.left = Work[t]
    BY <1>0, <1>1, TickKinds
  <2>2. CASE t = "sensor"
    <3>1. Hangs(t) => stage = "start"
      BY <2>2 DEF Hangs
    <3>2. \/ after.mode = "delay" /\ after.left = Delay["sensor"] /\ stage = "loop"
             /\ stage' = stage
          \/ after.mode = "run" /\ after.left = sensor.left - 1 /\ stage' = stage
          \/ after.mode = "run" /\ stage = "start"
      BY <2>1, <2>2, <3>1 DEF sensor
    <3> QED BY <1>0, <2>1, <2>2, <3>2, SensorTick DEF sensor
  <2>3. CASE t = "control"
    <3>1. ~Hangs(t)
      BY <2>3 DEF Hangs
    <3> QED BY <1>0, <2>1, <2>3, <3>1, ControlTick DEF control
  <2>4. CASE t = "radioRx"
    <3>1. ~Hangs(t)
      BY <2>4 DEF Hangs
    <3> QED BY <1>0, <2>1, <2>4, <3>1, RadioTick DEF radioRx
  <2>5. CASE t \notin {"sensor", "control", "radioRx"}
    <3>1. \A u \in {"sensor", "control", "radioRx"} : u \in Ready <=> task[u].mode = "run"
      BY DEF Ready, Tasks
    <3>2. "run" \notin {sensor.mode, control.mode, radioRx.mode}
      BY <2>1, <2>5, <3>1 DEF Runs, Scheduled, Priority, sensor, control, radioRx
    <3>3. /\ sensor' = Later("sensor") /\ control' = Later("control")
          /\ radioRx' = Later("radioRx")
          /\ age' = (IF age = NoSample THEN NoSample ELSE age + 1)
          /\ used' = 0 /\ uses' = uses /\ outage' = outage
      BY <2>1, <2>5, <3>2 DEF Runs, Publishes, Begins, Tasks,
                              sensor, control, radioRx
    <3>4. UNCHANGED <<dead, stage>>
      BY <2>1, <2>5
    <3> QED BY <1>0, <2>1, <3>2, <3>3, <3>4, QuietTick
  <2> QED BY <1>0, <2>2, <2>3, <2>4, <2>5
<1>2. CASE Idle
  <2>1. \A u \in {"sensor", "control", "radioRx"} : u \in Ready <=> task[u].mode = "run"
    BY DEF Ready, Tasks
  <2>2. "run" \notin {sensor.mode, control.mode, radioRx.mode}
    BY <1>2, <2>1 DEF Idle, sensor, control, radioRx
  <2>3. /\ sensor' = Later("sensor") /\ control' = Later("control")
        /\ radioRx' = Later("radioRx")
        /\ age' = (IF age = NoSample THEN NoSample ELSE age + 1)
        /\ used' = 0 /\ uses' = uses /\ UNCHANGED <<dead, stage>>
    BY <1>2 DEF Idle, Tasks, sensor, control, radioRx
  <2>4. outage' = outage \/ (outage = 1 /\ outage' = 0)
    BY <1>2 DEF Idle
  <2> QED BY <1>0, <2>2, <2>3, <2>4, QuietTick
<1>3. CASE Reset
  <2>1. /\ radioRx'.mode = "run" /\ radioRx'.left = Work["radioRx"]
        /\ "imu" \in dead' => sensor'.mode = "off" /\ control'.mode = "off"
        /\ "imu" \notin dead' => sensor'.mode = "delay" /\ control'.mode = "wait"
    BY <1>3, Ticks DEF Reset, Start, ImuFound, In,
                       sensor, control, radioRx
  <2>2. age' = NoSample /\ uses' = 0 /\ used' = 0 /\ outage' = 0
    BY <1>3 DEF Reset
  <2> HIDE DEF sensor, control, radioRx
  <2>3. ServosFollowSensors'
    BY <1>0, <2>2, Ticks DEF ServosFollowSensors
  <2>4. Work["radioRx"] <= Work["radioRx"]
    BY <1>0, Ticks
  <2>5. Modes'
    BY <2>1, <2>2, <2>4 DEF Modes, NoSample
  <2>6. SamplesInTime'
    BY <2>1, <2>2 DEF SamplesInTime
  <2>7. UsesApart'
    BY <2>2 DEF UsesApart
  <2>8. RoundInTime'
    BY <2>1, <2>3 DEF RoundInTime, MidRound
  <2> QED BY <1>0, <2>5, <2>6, <2>7, <2>8 DEF LoopInv
<1>4. CASE ImuFails
  <2>1. /\ sensor'.mode = sensor.mode /\ control' = control /\ radioRx' = radioRx
        /\ outage' = 3 /\ dead \subseteq dead' /\ UNCHANGED <<stage, age, used, uses>>
    BY <1>4 DEF ImuFails, TypeOK, Tasks, sensor, control, radioRx
  <2> HIDE DEF sensor, control, radioRx
  <2> QED BY <1>0, <2>1
          DEF LoopInv, Modes, SamplesInTime, UsesApart, RoundInTime, MidRound,
              ServosFollowSensors
<1>5. CASE ImuAnswers
  <2>1. /\ sensor' = sensor /\ control' = control /\ radioRx' = radioRx /\ sensor.mode # "off"
        /\ UNCHANGED <<stage, age, used, uses, outage>> /\ "imu" \in dead
    BY <1>5 DEF ImuAnswers, sensor, control, radioRx
  <2> HIDE DEF sensor, control, radioRx
  <2> QED BY <1>0, <2>1
          DEF LoopInv, Modes, SamplesInTime, UsesApart, RoundInTime, MidRound,
              ServosFollowSensors
<1>6. CASE FlashFails \/ UNCHANGED vars
  <2>1. /\ sensor' = sensor /\ control' = control /\ radioRx' = radioRx
        /\ UNCHANGED <<stage, age, used, uses, outage>> /\ ("imu" \in dead <=> "imu" \in dead')
    BY <1>6 DEF FlashFails, vars, sensor, control, radioRx
  <2> HIDE DEF sensor, control, radioRx
  <2> QED BY <1>0, <2>1
          DEF LoopInv, Modes, SamplesInTime, UsesApart, RoundInTime, MidRound,
              ServosFollowSensors
<1> QED BY <1>1, <1>2, <1>3, <1>4, <1>5, <1>6 DEF Next

\* Every task has a mode and ticks left, the sample and its uses are counted.
THEOREM TypeCorrect == Spec => []TypeOK
BY InitTypes, NextTypes, PTL DEF Spec

\* While the IMU answers, the positions that the control task publishes answer a sample
\* no older than the period of the sensor task and what the control task and the
\* receiver compute in a round (sensor_task.hpp:43-73, control_task.hpp:30-57), for all
\* delays and all computing times that are timely.
THEOREM AnswersInTime ==
  ASSUME Timely
  PROVE  Spec => []ServosFollowSensors
<1>1. TypeOK /\ LoopInv => ServosFollowSensors
  BY DEF LoopInv, RoundInTime
<1> QED BY <1>1, LoopInvInit, LoopInvNext, PTL DEF Spec

\* While the IMU answers, the control task integrates no sample more than twice, though
\* the slot it takes samples from is never emptied (bus.hpp:39-41).
THEOREM ReusedOnce ==
  ASSUME Timely
  PROVE  Spec => []SamplesReusedOnce
<1>1. TypeOK /\ LoopInv => SamplesReusedOnce
  BY DEF LoopInv, UsesApart, SamplesReusedOnce
<1> QED BY <1>1, LoopInvInit, LoopInvNext, PTL DEF Spec

=============================================================================
