# Formal models of the UAV-FreeRTOS firmware

TLA+ modules of the firmware in `src/`: an STM32F411 flight controller with
FreeRTOS tasks, an NRF24L01 radio link from a ground station, and a W25Q64 NOR
flash for configuration, crash log and flight recorder. TLC checks the modules on
small instances; TLAPS proves theorems about seven of them for every value of their
constants. `PROJECT.json` ties every definition to the lines it models, and lists
the runs, the mutants of the code that each property must catch, the hazards of
the code, and the theorems.

Contents: [the system](#1-the-system), [the modules](#2-the-modules),
[the runs](#3-the-runs), [the proofs](#4-the-proofs),
[what the code gets wrong](#5-findings-and-known-deviations),
[what is left out](#6-what-is-not-modelled), [the plan](#7-plan).

Paths below leave out `src/`; `core/` and `tasks/` are under `firmware/src/`,
`drivers/` under `shared/`.

## 1. The system

### Components

| component | source | state it keeps | operations | modelled by |
|---|---|---|---|---|
| flight state machine | `core/state_machine.hpp` | mode, the flight mode to resume, times of last radio and of arming, throttle seen | calibration, arm, disarm, setManual, setStabilize, updateRadio, emergency, notifyThrottle, checkAutoDisarm | `StateMachine`, `MotorPower`, `Arithmetic` |
| radio link | `firmware/src/ground/radio_tx_task.hpp`, `tasks/radio_rx_task.hpp`, `drivers/nrf24l01.hpp` | the chip's queue of three and its RX_DR flag; time of the last valid packet; link up | transmit, available, receive, parse, report | `RadioLink`, `LinkStatus` |
| packets and CRC | `shared/packet.h`, `shared/crc.h`, `shared/protocol.h` | none | buildPacket, parsePacket, crc16 | `Packet` |
| message bus | `core/bus.hpp`, `core/messages.hpp` | four mailboxes of one slot | overwrite, peek, wait: reading never consumes | the radio mailbox in `RadioLink`, the sensor mailbox in `FlightLoop` |
| tasks, scheduler, watchdog | `firmware/src/uav/main.cpp`, `core/system.hpp`, `tasks/*.hpp`, `firmware/include/` | each task's place in its loop, the watchdog's counter | delay, wait, the idle hook that feeds the watchdog | `FlightLoop`; mutex and priorities in `Console` |
| control task and PID | `tasks/control_task.hpp`, `core/pid.hpp`, `shared/utils.hpp` | integral and previous error of two controllers | compute, publish servo positions | `ControlTask` |
| flash driver | `drivers/w25q64.hpp`, `shared/flash_map.hpp` | the flash, its write latch and busy bit | read, writePage (wraps within a page), eraseSector, waitBusy | `NorFlash` as whole calls, `SpiBus` as bytes, `FlashRegions` the map |
| configuration store | `shared/config_store.hpp` | a record in flash sector 0 | load, save, defaults | `ConfigStore`, `FlashRegions` |
| crash log | `shared/crash_log.hpp`, `core/fault_handler.hpp` | entries in one sector | write (in the hard-fault handler), dump (at boot), clear | `CrashLog`, `CrashReport`, `FlashRegions` |
| boot reason | `core/system.hpp` | the reset flags of the processor | read, clear, decode, print | `BootReason`, `CrashReport` |
| flight recorder | `tasks/logger_task.hpp` | write address, count, logging; entries in the rest of the flash | run, writeEntry, alignToPage, dumpLog | `Blackbox`, `FlashRegions` |
| IMU and I2C drivers | `drivers/mpu6050.hpp`, `drivers/i2c.hpp` | the IMU's registers | init, calibrate, read | their time, time-outs and polls, in `FlightLoop` |
| SPI bus | `drivers/spi.hpp` | the chip select, a byte whose reply is not read yet | transfer, csLow, csHigh | `SpiBus` |
| console log | `shared/log.hpp`, `drivers/uart.hpp` | a mutex, the line begun | log, printFmt, fault reports | `Console` |
| self test | `core/bist.hpp` | a verdict on each device | probes of IMU, radio, flash | its verdict on the IMU, in `FlightLoop` |
| debug task | `tasks/debug_task.hpp` | none | prints what is on the bus | its load, in `FlightLoop` |
| PWM, bench tests, startup | `drivers/pwm.hpp`, `tasks/test/`, `firmware/startup/` | none to speak of | | not modelled, see section 6 |

### How they interact

* **Boot.** `main` prints the reason of the boot, sets the crash log up and dumps
  it, loads the configuration, runs the self test, creates the tasks, starts the
  watchdog and then the scheduler.
* **Bus.** SensorTask (priority 3) publishes samples; ControlTask (2) waits for
  them and publishes servo positions; RadioRxTask (2) publishes radio messages;
  DebugTask and LoggerTask (1) peek at all of it. A slot is overwritten, and a
  read leaves it as it is, so a reader may see a message twice or of any age.
* **Watchdog.** Only the idle hook feeds it. It bites when no tick of two seconds
  has been idle, whichever task is to blame.
* **Flash.** One chip, three owners: sector 0 the configuration, sector 1 the
  crash log, the rest the recorder. The hard-fault handler writes to it from
  outside the scheduler.
* **SPI1.** Radio and flash share the bus and the chip select, without a lock: a frame
  of one is heard by the other, and RadioRxTask preempts LoggerTask within a byte.
* **Console.** Every task prints its lines under a mutex with priority inheritance;
  the fault handlers print without it.
* The state machine is a class of its own which no task drives yet: its only
  callers are `tests/test_state_machine.cpp`, so `StateMachine` lets any method be
  called at any time.

### What is hard, and what must hold

| hard | correctness |
|---|---|
| a millisecond tick that wraps, timers that compare unsigned differences | no failsafe, auto-disarm or loss report before its time, and none missed, over any number of wraps |
| long sequences of calls on the state machine | recovery resumes the mode last selected; a cut motor stays cut |
| a packet that arrives between two register accesses of the driver | no read of an empty queue; a mailbox that is never valid and stale; a reported loss has a cause, and a real loss is reported |
| damage in the air, in the length field too | what parsePacket accepts is what buildPacket built |
| resets between two flash operations and within one | a configuration loads whole or not at all; crashes recorded are shown, in order and undamaged; the recorder never programs a used cell |
| page wrap, sector boundaries, a full sector, the end of the flash | the regions stay apart, a log is erased or stopped only when it is full |
| flags of resets that add up | the boot names the watchdog and its own resets, once each |
| two devices and a fault handler on one bus without a lock | an undisturbed call does what it is for; a disturbed one, as nearly every erase is, does no more damage than it must |
| three drivers of one flash, kept apart by addresses | each does to the flash what it would do to one of its own |
| a mutex across priorities, a handler that ignores it, a hand-made format | lines come out whole, no inversion, no starvation, every fault is reported |
| priorities, busy polling at high priority, devices that fail in flight, a watchdog fed when idle | the watchdog resets a hang and nothing else; servos answer a fresh sample, used twice at most |
| saturation of integral, correction and servos | positions within the limits, ailerons mirrored, no drift between the axes |

The hazards in `PROJECT.json` give each its line, and the properties that cover it.

## 2. The modules

Every module says in its header what a step stands for and what is abstracted.
Definitions keep the names of the code where they can. Operators called "Mutant"
are the plausible bugs that the properties are tried against; no specification
uses them. `MC...` modules give values to constants that are functions or sets.

* **`StateMachine`** — the members of the class are variables, a method is an
  action. `clock` is real time, and the methods see it modulo `TimeMod`, as the
  tick wraps at 2^32. `called` remembers the last polling method, so that properties
  can speak of what a call leaves behind. `radioSeen`, `armedSince`, `throttled` and
  `selected` are history. `Arithmetic` has the modular arithmetic, and the lemmas of
  several proofs: on it, on division, and on functions defined step after step
  (`Induction`, `Recursion`).
  **`MotorPower`** is the abstract promise (off, on, cut for good), implemented
  under the mapping `power <- Power(state)`.
* **`RadioLink`** — transmitter, air, chip and receiving task. The task is split
  where the chip can come between: the status register, the payload, the clearing
  of RX_DR, the parsing, the check of the timeout, the delay. Packets are
  heartbeats or noise (what `parsePacket` rejects, see `Packet`). **`LinkStatus`** is
  the abstract promise to readers of the mailbox, implemented under
  `status <- radioQ`.
* **`Packet`** — `crc16`, `buildPacket` and `parsePacket` bit for bit; the air flips
  bits one after the other. The check vector of `tests/test_crc.cpp` is an `ASSUME`.
* **`FlightLoop`** — a step is one tick of the processor, given to a ready task of
  the highest priority, or to the idle hook. A task computes, delays or waits. What
  it computes is a number of ticks of which `Work` is the most, so all shorter
  rounds are included. `dead` is the set of devices that do not answer, now IMU or
  flash: `ImuFails` may come at any tick, in the middle of a round too, which then
  takes `DeadWork` ticks of reads that time out one by one; `ImuAnswers` ends that;
  `FlashFails` comes within the logger's poll. Unlimited polls (the flash; the IMU
  during its set-up) spin. A reset runs the self test, which leaves sensor and control
  task "off" when it finds no IMU. `age` is the age of the sample on the bus, `used`
  that of the one ControlTask works on; `uses`, how often it has, and `outage`, what a
  failure may still delay, are history.
* **`ControlTask`** — a step is one round on a sample: two PID controllers, clamping,
  truncation, servo positions. Exact arithmetic in `Rate`-ths stands for the code's
  floats.
* **`NorFlash`** — operators, not a machine: erase sets, program only clears, so a
  cell is the set of the words programmed since it was erased, and a cell with two
  words reads as neither. Programs wrap within a page. The four flash components
  are built on it.
* **`ConfigStore`** — `save` is four actions (call, erase, program, read back), `load`
  one; a reset comes between any two, and within the program it leaves any subset
  of the words, as a loss of power may.
* **`CrashLog`** — `write` from the hard-fault handler: find a slot, erase when there
  is none, program; a reset may cut it short after any word. `Dumped` is what
  `dump` prints and counts: every entry up to the first without a magic, those cut
  short behind theirs included. `records` is history: what has reached the flash of
  each record begun since the sector was erased.
* **`BootReason`** — `getBootReason` in its steps, with resets in between, each with
  the flags it sets.
* **`CrashReport`** — composes `CrashLog` and `BootReason` (an instance): the handler's
  reset sets the flags, the boot prints the reason and then dumps the log, a fault
  before that has no log to go to, and other resets may come in the handler or in
  the boot.
* **`Blackbox`** — the recorder: an entry is aligned, then the sector is erased if it
  is a new one, then the entry programmed; a reset anywhere makes it start over
  over what is in the flash. `Dump(first)` is the walk of `dumpLog`.
* **`FlashRegions`** — composes `ConfigStore`, `CrashLog` and `Blackbox` (three instances)
  on one flash with the addresses of `flash_map.hpp`: a boot loads the configuration
  before the recorder starts, a hard fault stops both and runs the handler, a reset
  starts all over and may cut any program short. The abstract specifications are the
  same three modules, each on the part of the flash that is its own
  (`ConfigAlone`, `CrashAlone`, `RecorderAlone`): `EachAsIfAlone` says that the
  composition implements all three.
* **`SpiBus`** — below the calls of `NorFlash`: a driver call is a script of chip select
  and bytes, a frame is what was on the bus while the select was low, and the flash
  takes an instruction when the select rises after its last byte. `Spi::transfer` has
  two halves, `Put` and `Get`, and `RadioRound` or `HardFault` may come between any two
  steps. `disturbed` and `want` are history: whether anybody came into a frame of the
  call, and the memory it is to leave.
* **`Console`** — `Logger::log` piece by piece under the mutex, the scheduler's choice
  with the inherited priority of the mutex's owner (`Ranks`), fault reports in the
  middle of anything. `Printed` is `printFmt`, as a recursive function over the
  characters of the format; `Rendered` is what the format asks for, item by item.
* **`StateMachineProofs`, `RadioAndBusProofs`, `FlightLoopProofs`, `ControlTaskProofs`,
  `CrashReportProofs`, `ConsoleProofs`, `FlashRegionsProofs`** — the theorems.

## 3. The runs

To repeat one: `tlc -config <cfg> <module>`.

| run | module | distinct states | shows |
|---|---|---|---|
| `StateMachine` | `StateMachine` | 95,151 | every interleaving of calls and time, over two wraps of the tick |
| `RadioLink` | `RadioLink` | 217,665 | safety of the mailbox, justified and eventual loss reports, `LinkStatus` |
| `CrashReport` | `CrashReport` | 146,227 | boot reason and dump tell what happened, over resets in handler and boot and a log that fills |
| `FlashRegions` | `FlashRegions` | 509,883 | each user of the flash is as if alone; the recorder reads back and stops only when full; a boot loads what was last stored, or what was being stored, or defaults |
| `SpiBus` | `SpiBus` | 1,824,831 | undisturbed calls are whole and end, stray instructions stay within bounds |
| `Console` | `MCConsole` | 29,546 | whole lines, arguments in place, no inversion, no starvation, faults reported |
| `Packet` | `Packet` | 233,072 | no accepted packet differs in header, length or payload |
| `FlightLoop` | `MCFlightLoop` | 1,704,146 | under loads of up to `MCWork`, the watchdog resets every hang and nothing else, servos follow sensors, samples are used twice at most, with devices that fail and recover |
| `ControlTask` | `MCControlTask` | 173,430 | limits, mirrored ailerons, opposite answers to opposite histories |
| `StateMachineLongLoss` | `StateMachine` | violation | section 5 |
| `RadioLinkDeaf` | `RadioLink` | violation | section 5 |
| `FlightLoopCalibration` | `MCFlightLoop` | violation | section 5 |

### Bounds, and why they are enough

* `StateMachine`: `TimeMod` 7 and delays of 1, 2 and 3 keep the order of 100 ms, 60 s
  and 10 s against the period only in that all are shorter than it and distinct; the
  code compares a time with nothing but these delays, so what matters is which of
  them have passed. `MaxClock` 15 lets the tick wrap twice. The proofs drop all of
  these bounds.
* `RadioLink`: a unit is 100 ms, so the timeout is 5, heartbeats come every 2 or 3,
  a round of the receiving task takes at most 1. The queue has its real depth of 3.
  `LoopMax` and `TxMax` are the scheduling assumption: neither task is kept from its
  loop longer. Everything is finite without further bounds; `silent` stops counting
  past the last value that any comparison tells apart.
* `CrashReport`: a sector of one page with three entries, five crashes: the log fills,
  is erased and starts over. No entry crosses a page, which the properties on the
  dump ask for; section 5 tells what happens when one does. The tail of the sector,
  the word before the entries and an entry that does not divide the sector are there
  as in the code.
* `FlashRegions`: a page holds a configuration (magic, two of body, CRC), or two entries
  of the recorder and a rest (five and a rest in the code). The recorder has two
  sectors of two pages, the other two one sector each, all side by side as in
  `flash_map.hpp`, so that an address one too far is a neighbour's. Two saves, two
  crashes and three boots: a boot can find every region erased, filled by the last
  boot, half filled over an older one, or cut short, and a save after that. What
  matters for longer runs is proved without bounds.
* `SpiBus`: the real addresses, page and sector lengths (`SectorWords = 4096` is assumed,
  as the places of the crash log and of the blocks are written as numbers). Of the 8 MB only the cells are
  there on which a call or a stray one can act: configuration, two slots of the crash
  log, the recorder's first sector, the start of the second block of 64 KB, and a
  sector behind it. Entries of two bytes, so that an interruption can come before,
  within and after the data; two entries, so that an erase and a program follow each
  other; one hard fault, which finds none, one or both of the slots taken.
* `Console`: three tasks of the three priorities, formats of up to two items, and two
  longer ones with the arguments the firmware prints; a message below the least
  level. Priority inversion needs three tasks and no more.
* `Packet`: packets of eight bytes with up to three of payload over two values,
  against 32 and 27 in the code; all damage of one or two bits. CRC-16-CCITT
  detects all such damage of what it covers also in the code's length; what the run
  is about is the length field, whose damage moves the end of what is covered.
  Heavier damage passes with a probability of 2^-16, so no property excludes it.
* `FlightLoop`: a tick is about two milliseconds for the loops; the watchdog is
  scaled down to 40 ticks, five rounds of the sensor task instead of a hundred. In
  the code's proportion to it are `DeadWork`, 14 (twelve reads that time out take some 56 ms each,
  0.7 s against 2 s), and the calibration of `FlightLoopCalibration`, 46. That of the
  passing run is 16, less than the watchdog. The four loops of 10 ms have the same delay.
  `MCWork` is the load: rounds of up to two ticks, one in the receiver and in the
  debug task. So the run says nothing of a round of the logger that erases a sector, which by
  the datasheet of the chip may take 400 ms of the watchdog's 2 s: in ticks of this
  watchdog that is a whole period of the other tasks, whose work, exaggerated beside it,
  would leave too little for the idle hook, as it does not in the code.
* `ControlTask`: angles -2..2, gains and limits chosen so that integral, corrections
  and servos all saturate. The proofs drop these bounds.

`CHECK_DEADLOCK FALSE` stands where the program may really stop: `Packet` ends with
a verdict, and in `FlashRegions` a full recorder stays idle, in the last boot for good.
`StateMachine` cannot stop even at `MaxClock`, as methods can still be called.

### Fairness

* `RadioLink`: weak fairness of the receiving task's steps, of the transmitter
  (`HeartbeatArrives \/ HeartbeatLost`, so that every heartbeat may be lost) and of
  the tick. Both tasks loop for ever with a delay, and the second priority is not
  starved as the sensor task sleeps between samples (`FlightLoop` checks that). The
  air and the chip owe nothing. `LossIsReported` and `LinkComesBack` use it.
* `FlightLoop`: weak fairness of `Tick`: time passes, while devices owe nothing. That is
  enough for `HangEndsInReset`, as the watchdog counts in hardware.
* `SpiBus`: weak fairness of the logger's and the handler's steps and of the flash's end
  of work. The logger has the lowest priority, but `FlightLoop` shows idle time, in
  which it runs; the datasheet bounds the time of an erase. The radio owes nothing.
  `CallsEnd` and `UndisturbedIsWhole` are about undisturbed calls and say nothing of
  others. In flight nearly every erase is one of the others: `waitBusy` holds the select
  low until the erase is done, typically 45 ms (w25q64.hpp:27), and the radio polls every 10 ms or
  so and raises it. The flash finishes the erase, but the driver returns early or goes on
  reading a line that nobody drives. What a disturbed call may do to the flash is the
  subject of `StrayErasesHitBlockStarts` and `StrayProgramsStayInEntry`.
* `Console`: strong fairness of a task's steps and of its delay: a task that is let run
  again and again goes on, and every task's loop has a delay in it. The handlers are
  not preempted, so weak fairness is enough for them.
* Everything else is safety and needs none.

## 4. The proofs

`tlapm <module>.tla` checks them all. Their assumptions are the named `ASSUME`s of the
modules: positive periods and delays, timeouts shorter than the tick's period
(`LinkAssumption`, which also says that a heartbeat and two rounds fit in the
timeout), limits in order (`servoMin <= servoMax`, which the code does not check,
see TODO.md:28).

**`StateMachineProofs`**: `TypeOK`, `LossIsNoticed`, `IdleArmingExpires`,
`RecoveryResumesSelectedMode`, `NoSpuriousFailsafe`, `AutoDisarmIsJustified`, and that
`StateMachine` implements `MotorPower`, for every tick period, every delay and every
`MaxClock`, however many wraps it allows. The inductive invariant is

    IInv == TypeOK /\ Remembers /\ LossIsNoticed /\ IdleArmingExpires

`Remembers` links members to history: `lastRadioMs` and `armedAtMs` are the real times
modulo the period, `throttleWasUsed` is `throttled`, `prevFlightMode` is `selected`. Without it nothing relates the wrapped
times the code compares to the times the properties speak of. `SinceMsFacts` is the
arithmetic: the wrapped difference never exceeds the real one, and is equal to it
within a period; hence no timer fires early after any number of wraps, and none
is missed within one.

**`RadioAndBusProofs`**: `TypeOK`, `NoEmptyRead`, `ValidIsFresh`, `LossHasACause`, and that `RadioLink`
implements `LinkStatus`, for every queue depth, period and timeout. The invariant is

    IInv == TypeOK /\ FlagMeansPacket /\ TimeIsKnown

`FlagMeansPacket`: RX_DR implies a packet in the queue, but for the moment between the
read of the payload and the clearing of the flag. `TimeIsKnown`: the task's `linkUp` is
what the mailbox says, and while the link is up, `lastValidMs` is the tick `silent` ago, and
`silent` is bounded by the timeout and the time since the last check, which is what
keeps the wrapped subtraction right although noise never refreshes it. `SilenceHasACause`
is for `LossHasACause`: while the link is up and undisturbed, either the silence is no
longer than the time since the last heartbeat was sent, or a heartbeat is in the
queue and the task publishes it within the rest of this round and one more.

The second part of the module is about `SpiBus`, on whose chip select the radio polls:
`StrayErasesHitBlockStarts`, `StrayProgramsStayInEntry` and `UndisturbedIsWhole`, for
every set of cells, page length, starts of entries, and number of entries and crashes that
`BusAssumption` and `RoomAssumption` allow. The second says what leaving out `alignToPage` takes: the
entries end in the page they begin in, with two bytes or more left, as five of 48 bytes do
in 256. The invariant, `BusIsSound`, is

    BusInv == Types /\ InPlace /\ InACall

`InACall`: the rest of the script is whole frames of the call being made, `Frames`,
after the rest of the current one; and of that the flash has heard just the bytes that were
sent, or ignores it, or is being polled (`Heard`). The driver writes a call as one
concatenation, which the lemmas up to `ReadFramed` regroup into frames (`CallOf`). `InPlace`: the
logger's address is a whole number of entries on, and an erase or program has it.
Then the first two properties are about one frame: if the logger raises the chip select, the
instruction is the one of the call, whole (`HeardWhole`); if the radio does, a beginning
of it with two bytes, 7 and 255 (`HeardPart`). An erase then has three bytes of
address only if the logger sent one or three, which gives the two sectors (`ErasedAstray`); a
program writes the beginning of the entry and those two bytes.

`UndisturbedIsWhole` needs an invariant of its own on top, `CallsWhole`, which says of a
call that nobody has come into, position by position (`AtStep`, `Carries`), whether the
chip select is low, what the flash has heard (`Has`), that its latch is set and it is not
busy when the instruction ends, and that what the instruction is to make of the memory,
and then the memory itself, is what is wanted. The record in a full log is two such calls,
the second of which begins where the first ends (`FirstOf`, `LastOf`, `SecondBegins`).
Before, the handler looks for a slot (`Looking`): the slots before this one are taken,
and after the byte of the magic is read, `hasMagic` tells of this one (`ReadHeard`). So it
records in the first free slot (`RecordsFirst`). Between two frames the radio's own
frames are too short to be an instruction of the flash (`RadioOn`), and the flash's end
of work only clears the busy bit for which the call waits (`DoneOn`).

**`ControlTaskProofs`**: `TypeOK` (the integrals stay within their limits),
`ServosInLimits`, `AileronsMirror`, `OppositeSamplesAgree`, for all gains, limits and samples.
`IInv` adds that under opposite samples the two controllers hold opposite state; the
lemmas `ClampOdd`, `TruncateOdd` and `ComputeOdd` say that every operation on the way is
odd, saturation and truncation towards zero included.

**`FlightLoopProofs`**: `TypeOK`, `ServosFollowSensors` and `SamplesReusedOnce`,
whichever devices fail when, the last two for all delays and computing times that are
`Timely`: control task and receiver compute less than the sensor task sleeps, the
control task less than the receiver sleeps, and it sleeps at least half as long as the
sensor task. In the code all three sleep 10 ms (control_task.hpp:56,
radio_rx_task.hpp:74, sensor_task.hpp:72) and the two compute far less; TLC evaluates
`Timely` for the times of `MCFlightLoop`. The invariant is

    LoopInv == Modes /\ SamplesInTime /\ UsesApart /\ RoundInTime

`Modes` says what each of the three tasks may be doing. `SamplesInTime`: the age of the last
sample and what is left of the sensor task's delay or round add up to one period, but
for a failure. `UsesApart`: from one use of a sample to the next the control task's delay
passes. `RoundInTime` is for a control task preempted by a new sample, which still
works on the old one: what is left of its round is bounded by what it and the
receiver, its equal, compute, and each tick that passes makes it less. No fairness is
needed.

**`CrashReportProofs`**: `WatchdogIsNamed` and `SoftwareIsNamed` of the composition, for every
geometry of the flash and any number of crashes. `FlagsTell` is the invariant: the
flags tell of the resets since the last report, until they are cleared those that are
set, and from their reading on those that were read. `BootStep` says that no other
step of the composition touches them. `ErasedOnlyWhenFull` is proved from `LogInv`: the slots
are filled in order, unless an entry that crossed a page has wrapped onto a slot's
magic. Then that slot counts as free until the sector is erased, so the log is never
full again, and the history is not erased before its time: it is only damaged, which is
the deviation `CrashHistoryIsDumped` of section 5.

`EarlyCrashesAreDumped` is for any number of slots and any geometry. `DumpInv` says what every
slot holds: as long as no entry has crossed the end of its page, each slot written
holds what was received of its record, whole or cut short, and erased words behind it
(`AsFarAsReceived`), and the slots behind are erased. A record has at least its magic, so the first
slot without one is the first not written, and the dump has as many entries as there
are records. The theorem says nothing of whether a record was whole: that a torn one is
printed as a crash is the deviation `OnlyRecordedCrashesAreDumped` of section 5. `FaultIsShown`
is proved of the composition: `AnswerDue` says that from the end of a fault's handler to
the dump that answers it, its record stays the last one, and whole, whatever other
resets come.

**`ConsoleProofs`**: `TypeOK`, `WritersHaveTheMutex`, `NoPriorityInversion` and `LinesAreWhole`, for
any tasks, priorities and messages. The invariant is

    ConsoleInv == TypeOK /\ WritersHaveTheMutex /\ WaitersAreRepresented

A task that waits while the mutex is held lends its priority to the owner, so the
tasks in between stay; the gap is the moment after the mutex is given back, when the
waiters lend it to nobody. `WaitersAreRepresented` closes it: whoever still waits then
has been passed over for a task of no lower priority, which is ready and about to
take the mutex.

`WholeLines` is for any formats too: `LinesInv` says that, until a fault, what is on
the console since the last line end is what the owner of the mutex has written of its
line, and nothing while there is no owner; and that a report, once told, leaves no
line begun. Behind it is `LineEnds`: the last piece of a message, and no other, is a
line end. What `Printed` yields is recursive, so its type is shown first: `Recursion`
exhibits the function, as a walk of steps, and `Induction` over the walk types it.
`MessagesAssumption` is what it takes: no task has the name of a line's end, and no
message has more than the four arguments that are named.

`ArgumentsInPlace` is proved by following the two recursions in step. `Rendered` goes
from item to item of a format, `printFmt` from character to character; `CharsPlaces` says
where in the characters each item comes to lie, and `NamedCounts` that the conversions
before it are as many as the arguments taken so far, so that `printFmt`, at the item,
prints what `Rendered` asks for (`PrintedOn`, `PrintedIsRendered`). That holds of `Regular`
formats, in which every percent sign is named in full and comes before the last
argument; the two messages of the code that end in a lone one are the deviation
`LastPercentPrints` of section 5.

**`FlashRegionsProofs`**: `EachAsIfAlone`, `LoadsOneConfig`, `StopsOnlyWhenFull` and
`LogReadsBack` for every page and sector length, every record length and every place
of the regions that `RegionsAssumption` allows (records fit in pages, pages divide
sectors, regions do not overlap). `Placed` is the invariant: the crash log's slot and
the recorder's address lie in their regions. From it, `ConfigLocal`, `CrashLocal` and
`RecorderLocal` say that a call of each of the three leaves the others' cells alone;
the key is that a program wraps within its page (`ProgramStaysInSector`) and an erase
stays in its sector, which rests on the arithmetic of division in the first lemmas.
Then each step of the composition is a step of each user alone, or leaves all that is
that user's unchanged (`ConfigStep`, `CrashStep`, `RecorderStep`).

So it is enough to prove of the configuration alone that `FlashIsSound`,
`SavedConfigStays` and `LoadsOneConfig` hold. The invariant `ConfigInv` says where
`save` is, that a save cut short leaves a part of its record and nothing else
(`TornIsPart`), and that otherwise the flash holds what was stored, or nothing a boot
would take (`WholeOrDefaults`). `AcceptedPartIsWhole` is the lemma behind it: a part
that a boot accepts is the whole record.

`FillsPages` is for `StopsOnlyWhenFull`: the recorder's address is so many full pages
and so many entries on, and its count says the same. The theorem assumes that an entry
does not divide a page, as 48 bytes do not divide 256: if it did, the `>=` that finds
the region full (logger_task.hpp:34) would refuse the entry that ends where the region
ends.

`RecorderInv` is for `LogReadsBack`: the entries of this boot are in the flash, the
n-th at `Place(n)` and nothing else in its cells, and the next one finds its sector
erased from there on, or begins a sector, which is then erased. So an entry goes to
erased cells and disturbs none before it. That the walk of `dumpLog` comes to
`Place(n)` after n entries is an induction along the walk (`Walk`).

Only model-checked: liveness (`LossIsReported`, `HangEndsInReset`, `CallsEnd`,
`WaitersGetTheConsole`, `FaultsAreReported`), which the prover does not do; `ResetsOnlyHang`,
which needs a bound on the load of all tasks over the watchdog's 2 s, where single
rounds of the logger and of a calibration come close to it. (The library's induction
theorems cannot be cited, as they take an operator; `Induction` of `Arithmetic` is over a
set, and can be.) `Packet` stays with TLC for good, as it computes with the bits of a
recursive CRC. Type
invariants are in the runs of `StateMachine` and `ControlTask` only; those of `RadioLink` and
`Console` are proved, and in the other modules `TypeOK` is there for the reader.

## 5. Findings and known deviations

Three runs end in a violation, each of what the repository says of itself:

* **`StateMachineLongLoss`** — `updateRadio` looks at the silence only in MANUAL and
  STABILIZE (state_machine.hpp:123). Polled as it should be, a loss passes through
  FAILSAFE_SHORT, where the time is not looked at any more, so FAILSAFE_LONG is never
  reached and the motor stays enabled. The tests reach it by jumping 10 s at once.
* **`RadioLinkDeaf`** — `receive` reads one payload and then clears RX_DR
  (nrf24l01.hpp:160). A packet that came in between stays in the queue without a
  flag; three of them fill the queue, the chip drops the rest and raises no flag,
  and the link stays down with perfect reception.
* **`FlightLoopCalibration`** — `calibrate(500)` polls the IMU 6000 times at the highest
  priority, some 0.39 ms each at 100 kHz: 2.3 s in which the idle hook never runs,
  against a watchdog of 2 s (sensor_task.hpp:36).

Known deviations that no run is spent on. Where a property is named, it is stated in
the module and TLC refutes it when added to the module's configuration
(`SPECIFICATION Spec` alone for `BootReason`, and the constants of `FlashRegions.cfg` for
`ConfigStore`, `CrashLog` and `Blackbox`, unless others are given):

* `PendingPacketIsSignalled` (`RadioLink`): the race under `RadioLinkDeaf`.
* `DumpReturnsLog` (`Blackbox`): `dumpLog` starts at address 0, the configuration sector,
  not where the entries are (logger_task.hpp:126). Nothing calls it yet.
* `SettingsPersist` (`ConfigStore`): `save` erases the only copy before it programs the
  new one (config_store.hpp:80); a reset in between leaves the defaults.
* `AcceptedIsAsSent` (`Packet`): the padding of a packet is not under the CRC, but
  RadioRxTask publishes it.
* `PowerOnIsClean` (`BootReason`): every reset of the chip sets the flag of the reset pin,
  which is looked at before the brownout's (system.hpp:27), and CLEAN stands for
  the low-power flag; so a power-on is a "pin reset".
* `SamplesAreDtApart` (`FlightLoop`): the delay of 10 ms comes on top of reading the IMU,
  about 4.7 ms, while the filter integrates over 10 ms (sensor_task.hpp:72).
* `CrashHistoryIsDumped` (`CrashLog`): entries are 48 bytes from offset 4 of the sector, so
  the sixth crosses a page; `writePage` does not split it, its end wraps to the start
  of the page and destroys the first entry's magic (crash_log.hpp:62), and the dump
  ends before the first crash. With pages of 11 words, sectors of 22 at 22, entries of
  three words and `MaxCrashes` 4, the fourth crash shows it.
* `OnlyRecordedCrashesAreDumped` (`CrashLog`): `dump` looks at an entry's magic and nothing
  else (crash_log.hpp:74). A record that a reset cuts short behind its magic is printed as
  "CRASH #i", with the ones that erased flash reads as for registers, and is counted in "crash(es)
  recorded" (crash_log.hpp:104). `CrashReport.cfg` shows it.
* `ConfigSurvives` (`SpiBus`): RadioRxTask polls the radio within the logger's frames. A
  poll after the first address byte of a sector erase raises the select after four
  bytes, and the erase hits the first sector of its block, which is the
  configuration's while the recorder is in the first 64 KB (spi.hpp:55, w25q64.hpp:93).
* `CrashIsRecorded` (`SpiBus`): the fault handler writes to a flash that may be busy with
  the recorder's erase, or is in the middle of its frame (fault_handler.hpp:75).
* `RadioStaysConfigured` (`SpiBus`): to the radio, a sector erase is a write of its CONFIG
  register, on the same chip select.
* `LastPercentPrints` (`Console`): "NRF init ch=%" and "TX seq=%" end in a lone percent sign,
  which `printFmt` prints as it is, dropping the argument (log.hpp:95).
* A read of the IMU that times out returns 0xFF (i2c.hpp:96), which is published as a
  measurement and reaches the servos.
* The two bytes of a word of the IMU are read in two transactions (mpu6050.hpp:26); when
  a new sample comes in between, the high byte is the old sample's and the low byte
  the new one's, which is up to 255 units from the old value.
* An IMU that fails in flight makes a round of SensorTask last some 0.7 s; the others
  run in the 10 ms between, and when they need all of it the watchdog bites
  (`outage` in `ResetsOnlyHang`).
* The logger is started also without a flash, and then polls for ever: reset after
  reset (main.cpp:45; `Hangs("logger")` in `FlightLoop`).
* `save` compares only magic and CRC field of what it reads back
  (config_store.hpp:87), which shows only with flash cells that fail; `load` never looks
  at the version it stores (config_store.hpp:68), which shows only after an update of
  the firmware. The models have neither.
* A task blocked for ever is not noticed by the watchdog, as the idle hook still runs
  (system.hpp:105); `WaitersGetTheConsole` shows that the mutex, the one thing a task can
  block on without a time-out, blocks nobody for ever.

## 6. What is not modelled

* FreeRTOS and the chips: external, modelled from how the code uses them (the
  ready list, the queue of the NRF24L01, NOR programming, reset flags).
* Self test: its probes of radio and flash, whose verdicts are printed and change
  nothing. Debug task: what it prints; its load is in `FlightLoop`.
* PWM driver: register set-up that only a bench test uses. Bench tests: in no build of
  the firmware's `main`. Startup code: assembly.
* What the bytes of an IMU register hold, torn words included: the filter works on
  them with floats.
* Floats: the rounding of PID and filter. Heap, stacks, interrupts.
* Power lost while the crash log or the recorder programs a page: the words could
  then be programmed in any order. `ConfigStore` does model it.
* Within a round of the radio in `SpiBus`, the flash's own end of work and hard faults.
* PID::reset and setGains, eraseChip, readId: no task calls them, or they change nothing.

## 7. Plan

Done so far is everything in section 2. What would come next:

1. `ControlLoop`: bus, sensor task and control task with the arithmetic of
   `ControlTask`: what a sample used twice adds to the integral.
2. Proofs: in `FlightLoop`, `ResetsOnlyHang`, with a bound on the load.
