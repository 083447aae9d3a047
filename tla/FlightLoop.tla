----------------------------- MODULE FlightLoop -----------------------------
(***************************************************************************)
(* The five tasks of the aircraft on their processor: the scheduler runs a *)
(* ready task of the highest priority, the idle task feeds the watchdog    *)
(* when none is ready, SensorTask calibrates the IMU by polling it and     *)
(* then publishes samples, and ControlTask turns the last sample into      *)
(* servo positions.  The IMU and the flash may stop answering at any time: *)
(* the reads of a loop time out one by one, the polls of the set-up and of *)
(* the flash never end.  A step of time is one tick of the processor; what *)
(* a task computes between its delays takes a number of ticks.             *)
(***************************************************************************)
EXTENDS Integers, FiniteSets

CONSTANTS
  Delay,        (* for each task, the ticks of the delay at its loop's end *)
  Work,         (* for each task, the ticks its loop computes at most      *)
  DeadWork,     (* the same of a sensor loop whose every read times out    *)
  StartDelay,   (* the delay before the sensor task starts (100 ms)        *)
  Calibrate,    (* the ticks that calibrate(500) polls the IMU             *)
  WaitTimeout,  (* the ticks that Bus::wait waits (100 ms)                 *)
  Timeout       (* the ticks of the watchdog (2 s)                         *)

Tasks == {"sensor", "control", "radioRx", "debug", "logger"}

ASSUME FlightLoopAssumption ==
  /\ Delay \in [Tasks -> Nat \ {0}] /\ Work \in [Tasks -> Nat \ {0}]
  /\ {DeadWork, StartDelay, Calibrate, WaitTimeout, Timeout} \subseteq Nat \ {0}

VARIABLES
  task,    (* for each task, whether it is in a "delay", waits for a       *)
           (* sample ("wait"), may "run" or is not started ("off"), and    *)
           (* the ticks left of that: of a computation, at most            *)
  stage,   (* of the sensor task: "start" until it has calibrated, "loop"  *)
  dead,    (* the devices that do not answer                               *)
  dog,     (* the ticks since the watchdog was fed                         *)
  age,     (* the age of the sample on the bus, NoSample before the first  *)
  used,    (* the age of the sample that the control task works on         *)
  uses,    (* history: how often it has worked on it, at most ManyUses     *)
  outage   (* history: what the last failure of the IMU may still delay:   *)
           (* two samples, and after them the idle task                    *)

vars == <<task, stage, dead, dog, age, used, uses, outage>>

NoSample == -1
ManyUses == 3

In(mode, ticks) == [mode |-> mode, left |-> ticks]

TypeOK ==
  /\ task \in [Tasks -> [mode : {"delay", "wait", "run", "off"}, left : Nat \ {0}]]
  /\ stage \in {"start", "loop"}
  /\ dead \subseteq {"imu", "flash"}
  /\ dog \in 0 .. Timeout
  /\ age \in {NoSample} \cup Nat
  /\ used \in Nat
  /\ uses \in 0 .. ManyUses
  /\ outage \in 0 .. 3

\* The self test has read the IMU's WHO_AM_I.
ImuFound(absent) == "imu" \notin absent

\* When the scheduler starts, the sensor task sleeps first and the control task
\* waits for a sample; without the IMU neither is started.
Start(absent) ==
  [t \in Tasks |->
     CASE t \in {"sensor", "control"} /\ ~ImuFound(absent) -> In("off", 1)
       [] t = "sensor" /\ ImuFound(absent)                 -> In("delay", StartDelay)
       [] t = "control" /\ ImuFound(absent)                -> In("wait", WaitTimeout)
       [] OTHER                                            -> In("run", Work[t])]

Init ==
  /\ dead \in SUBSET {"imu", "flash"}
  /\ task = Start(dead)
  /\ stage = "start"
  /\ dog = 0 /\ age = NoSample /\ used = 0 /\ uses = 0 /\ outage = 0

\* Mutant: the control task shares the priority of the debug task and the logger.
PriorityControlLow(t) == CASE t = "sensor" -> 3 [] t = "radioRx" -> 2 [] OTHER -> 1

Priority(t) == CASE t = "sensor" -> 3 [] t \in {"control", "radioRx"} -> 2 [] OTHER -> 1

Ready == {t \in Tasks : task[t].mode = "run"}

\* The scheduler gives the tick to a ready task of the highest priority; among
\* equals it takes turns, which the model leaves open.
Scheduled(t) == t \in Ready /\ \A u \in Ready : Priority(u) <= Priority(t)

\* A task that polls a device that does not answer, without a limit or, in the
\* calibration, for far longer than the watchdog waits.
Hangs(t) ==
  /\ task[t].mode = "run"
  /\ \/ t = "logger" /\ "flash" \in dead
     \/ t = "sensor" /\ "imu" \in dead /\ stage = "start"

Hung == {t \in Tasks : Hangs(t)}

\* The next round of a task, when its delay is over.  The control task waits for a
\* sample only if none has come, up to now.
Wake(t) ==
  CASE t = "sensor" /\ stage = "start"     -> In("run", Calibrate)
    [] t = "sensor" /\ stage = "loop" /\ "imu" \in dead -> In("run", DeadWork)
    [] t = "control" /\ age' = NoSample    -> In("wait", WaitTimeout)
    [] OTHER                               -> In("run", Work[t])

\* A task that does not run, one tick later.
Later(t) ==
  LET due == task[t].left = 1
  IN  CASE task[t].mode \in {"run", "off"}             -> task[t]
        [] task[t].mode \in {"delay", "wait"} /\ ~due -> [task[t] EXCEPT !.left = @ - 1]
        [] task[t].mode = "wait" /\ due               -> In("delay", Delay[t])
        [] task[t].mode = "delay" /\ due              -> Wake(t)

\* The sensor task ends a round by publishing its sample.
Publishes(t, after) == t = "sensor" /\ stage = "loop" /\ after.mode = "delay"

\* The control task takes the sample from the bus as it begins a round.
Begins(t) == t = "control" /\ task[t].left = Work[t]

\* A tick in which t runs and is then in state after.
Runs(t, after) ==
  /\ dog < Timeout /\ Scheduled(t)
  /\ age' = IF Publishes(t, after) THEN 0 ELSE IF age = NoSample THEN NoSample ELSE age + 1
  /\ task' = [u \in Tasks |->
               IF u = t THEN after
               ELSE IF task[u].mode = "wait" /\ Publishes(t, after) THEN In("run", Work[u])
               ELSE Later(u)]
  /\ dog' = dog + 1
  /\ used' = IF Begins(t) THEN age + 1
             ELSE IF task["control"].mode = "run" /\ ~Begins("control") THEN used + 1 ELSE 0
  /\ uses' = CASE Publishes(t, after)          -> 0
               [] Begins(t) /\ uses < ManyUses -> uses + 1
               [] OTHER                        -> uses
  /\ outage' = IF Publishes(t, after) /\ "imu" \notin dead /\ outage > 1 THEN outage - 1 ELSE outage

Compute(t) ==
  /\ ~Hangs(t) /\ task[t].left > 1
  /\ Runs(t, In("run", task[t].left - 1))
  /\ UNCHANGED <<stage, dead>>

\* The poll of a device that does not answer.
Spin(t) ==
  /\ Hangs(t)
  /\ Runs(t, task[t])
  /\ UNCHANGED <<stage, dead>>

\* The end of the calibration, which begins the loop.
Calibrated ==
  /\ stage = "start" /\ ~Hangs("sensor") /\ task["sensor"].left = 1
  /\ Runs("sensor", In("run", Work["sensor"]))
  /\ stage' = "loop"
  /\ UNCHANGED dead

\* Mutant: the control task does not sleep between its rounds.
EndRoundAwake(t) ==
  /\ ~Hangs(t) /\ ~(t = "sensor" /\ stage = "start")
  /\ Runs(t, IF t = "control" THEN In("run", Work[t]) ELSE In("delay", Delay[t]))
  /\ UNCHANGED <<stage, dead>>

\* The end of a round, up to the delay; it may come before the most it can take.
EndRound(t) ==
  /\ ~Hangs(t) /\ ~(t = "sensor" /\ stage = "start")
  /\ Runs(t, In("delay", Delay[t]))
  /\ UNCHANGED <<stage, dead>>

\* The IMU stops answering, at any time: a read that has begun and those after it
\* time out.
ImuFails ==
  /\ dog < Timeout /\ "imu" \notin dead
  /\ dead' = dead \cup {"imu"}
  /\ task' = IF stage = "loop" /\ task["sensor"].mode = "run"
               THEN [task EXCEPT !["sensor"].left = DeadWork] ELSE task
  /\ outage' = 3
  /\ UNCHANGED <<stage, dog, age, used, uses>>

\* It answers again, in time for a task that does not hang.
ImuAnswers ==
  /\ dog < Timeout /\ "imu" \in dead /\ task["sensor"].mode # "off" /\ ~Hangs("sensor")
  /\ dead' = dead \ {"imu"}
  /\ UNCHANGED <<task, stage, dog, age, used, uses, outage>>

\* The flash stops answering, while the logger polls it.
FlashFails ==
  /\ dog < Timeout /\ "flash" \notin dead /\ Scheduled("logger")
  /\ dead' = dead \cup {"flash"}
  /\ UNCHANGED <<task, stage, dog, age, used, uses, outage>>

\* Mutant: the watchdog is fed from the tick hook.
IdleAtAnyTick ==
  /\ dog < Timeout
  /\ dog' = 0
  /\ UNCHANGED <<task, stage, dead, age, used, uses, outage>>

\* Mutant: the idle hook does not feed the watchdog.
IdleKeepsCount ==
  /\ dog < Timeout /\ Ready = {}
  /\ age' = IF age = NoSample THEN NoSample ELSE age + 1
  /\ task' = [t \in Tasks |-> Later(t)]
  /\ dog' = dog + 1
  /\ used' = 0
  /\ UNCHANGED <<stage, dead, uses, outage>>

\* No task is ready: the idle task runs its hook.
Idle ==
  /\ dog < Timeout /\ Ready = {}
  /\ age' = IF age = NoSample THEN NoSample ELSE age + 1
  /\ task' = [t \in Tasks |-> Later(t)]
  /\ dog' = 0
  /\ used' = 0
  /\ outage' = IF outage = 1 THEN 0 ELSE outage
  /\ UNCHANGED <<stage, dead, uses>>

\* The watchdog resets the processor; a device may answer again after that.
Reset ==
  /\ dog = Timeout
  /\ dead' \in SUBSET dead
  /\ task' = Start(dead')
  /\ stage' = "start"
  /\ dog' = 0 /\ age' = NoSample /\ used' = 0 /\ uses' = 0 /\ outage' = 0

Tick ==
  \/ \E t \in Tasks : Compute(t) \/ Spin(t) \/ EndRound(t)
  \/ Calibrated \/ Idle \/ Reset

Next == Tick \/ ImuFails \/ ImuAnswers \/ FlashFails

\* Time passes.
Spec == Init /\ [][Next]_vars /\ WF_vars(Tick)

-----------------------------------------------------------------------------
(***************************************************************************)
(* Properties.                                                             *)
(***************************************************************************)

\* What the times are taken to be where samples are concerned: the control task and the
\* receiver compute less than the sensor task sleeps, the control task less than the
\* receiver does, and it sleeps at least half as long as the sensor task.
Timely ==
  /\ Work["control"] + Work["radioRx"] <= Delay["sensor"]
  /\ Work["control"] <= Delay["radioRx"]
  /\ Delay["sensor"] <= 2 * Delay["control"]

\* The positions that the control task publishes answer a sample no older than one
\* period of the sensor task, also when it is preempted after it has taken the
\* sample: what it and the task of its own priority compute comes on top, and
\* nothing else.  Only an IMU that fails delays samples.
ServosFollowSensors ==
  outage = 0 => used < Delay["sensor"] + Work["sensor"] + Work["control"] + Work["radioRx"]

\* As the slot of the bus is never emptied, the control task may take a sample again
\* and integrate it once more; while the IMU answers that happens once at most.
SamplesReusedOnce == outage = 0 => uses <= 2

\* The watchdog bites only when a task has stopped making progress (TODO.md:6 "Hardware
\* watchdog (IWDG — auto-reset on hang)"), or when the IMU has failed in flight: its
\* reads then keep the processor so long that the idle task may not run in time.  That
\* is under every load of at most Work in a round of each task; of a greater one, such
\* as a round of the logger that erases a sector, it says nothing.
ResetsOnlyHang == dog = Timeout => Hung # {} \/ outage > 0

\* A task that polls a dead device for ever is noticed, at any priority: the
\* watchdog resets the processor.
HangEndsInReset == Hung # {} ~> dog = Timeout

\* Known deviation, which no run checks.
\* "const float dt = 0.01f;  // 10ms loop = 100Hz" (sensor_task.hpp:39): samples
\* are as far apart as the delay of the loop, which is what the filter integrates
\* over.  The code breaks it: the delay comes on top of the time the IMU is read.
SamplesAreDtApart == [][age # NoSample /\ age' = 0 => age + 1 = Delay["sensor"]]_vars

=============================================================================
