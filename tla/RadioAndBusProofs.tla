------------------------- MODULE RadioAndBusProofs -------------------------
(***************************************************************************)
(* Theorems about RadioLink, for every depth of the queue, every timeout   *)
(* and every period of the tick that LinkAssumption allows; and, in the    *)
(* second part, about the SPI bus the radio shares with the flash          *)
(* (SpiBus), for every geometry and number of entries and crashes that its *)
(* assumptions allow.                                                      *)
(***************************************************************************)
EXTENDS RadioLink, Arithmetic

\* RX_DR is raised only over a queue that holds something, but for the moment
\* between reading the payload and clearing the flag.
FlagMeansPacket ==
  /\ rxDr /\ pc # "clear" => fifo # <<>>
  /\ pc = "readPayload" => rxDr

\* The task's idea of the link is what it has published, and while the link is
\* up the wrapped difference it computes is the time that has passed.
TimeIsKnown ==
  /\ linkUp <=> radioQ = "valid"
  /\ linkUp => (now - lastValidMs) % TimeMod = silent
  /\ linkUp => silent <= TimeoutMs + sinceCheck

IInv == TypeOK /\ FlagMeansPacket /\ TimeIsKnown

\* A heartbeat that has come since the last one was published, and what is left until
\* the task publishes it: the rest of a round, and one more round.
HeartbeatOnItsWay ==
  \/ /\ pc \in {"readPayload", "clear", "parse"} \/ (pc \in {"delay", "available"} /\ rxDr)
     /\ silent <= TxMax + LoopMax + sinceCheck
  \/ /\ pc = "check" /\ rxDr
     /\ silent <= TxMax + sinceCheck

\* While the link is up and undisturbed, a heartbeat has come, or none was due yet.
SilenceHasACause ==
  linkUp /\ ~disturbed => silent <= sinceTx \/ HeartbeatOnItsWay

LEMMA InitInvariant == Init => IInv
<1> SUFFICES ASSUME Init PROVE IInv
  OBVIOUS
<1>1. 0 \in 0 .. TimeMod - 1 /\ 0 \in 0 .. LoopMax /\ 0 \in 0 .. TxMax /\ 0 \in 0 .. Long
  BY LinkAssumption DEF Long
<1>2. fifo \in Seq(Packets) /\ Len(fifo) <= FifoDepth
  BY LinkAssumption DEF Init
<1>3. rxDr \in BOOLEAN /\ linkUp \in BOOLEAN /\ disturbed \in BOOLEAN
  BY DEF Init
<1>4. TypeOK
  BY <1>1, <1>2, <1>3, Zenon DEF Init, TypeOK, Packets
<1>5. FlagMeansPacket /\ TimeIsKnown
  BY DEF Init, FlagMeansPacket, TimeIsKnown
<1> QED BY <1>4, <1>5 DEF IInv

\* What the chip does with a packet.
LEMMA ReceiveFacts ==
  ASSUME NEW p \in Packets, Receive(p), fifo \in Seq(Packets), Len(fifo) <= FifoDepth,
         rxDr \in BOOLEAN
  PROVE  /\ fifo' \in Seq(Packets) /\ Len(fifo') <= FifoDepth
         /\ rxDr' \in BOOLEAN
         /\ rxDr => rxDr'
         /\ fifo # <<>> \/ (rxDr' /\ ~rxDr) => fifo' # <<>>
<1>1. CASE HasRoom
  <2>1. fifo' = Append(fifo, p) /\ rxDr'
    BY <1>1 DEF Receive
  <2>2. fifo' \in Seq(Packets) /\ Len(fifo') = Len(fifo) + 1 /\ Len(fifo) \in Nat
    BY <2>1
  <2>3. fifo' # <<>>
    BY <2>2
  <2> QED BY <1>1, <2>1, <2>2, <2>3, LinkAssumption DEF HasRoom, Receive
<1>2. CASE ~HasRoom
  BY <1>2 DEF Receive
<1> QED BY <1>1, <1>2

LEMMA StepKeepsTypes == TypeOK /\ [Next]_vars => TypeOK'
<1> SUFFICES ASSUME TypeOK, [Next]_vars PROVE TypeOK'
  OBVIOUS
<1> USE DEF TypeOK
<1>1. CASE Noise
  BY <1>1, ReceiveFacts DEF Noise, Packets, task, timers
<1>2. CASE HeartbeatArrives
  <2>1. "heartbeat" \in Packets /\ Receive("heartbeat")
    BY <1>2 DEF HeartbeatArrives, Packets
  <2>2. fifo' \in Seq(Packets) /\ Len(fifo') <= FifoDepth /\ rxDr' \in BOOLEAN
    BY <2>1, ReceiveFacts
  <2>3. sinceTx' \in 0 .. TxMax
    BY <1>2, LinkAssumption DEF HeartbeatArrives
  <2>4. disturbed' \in BOOLEAN
    BY <1>2 DEF HeartbeatArrives
  <2> QED BY <1>2, <2>2, <2>3, <2>4, Zenon DEF HeartbeatArrives, task
<1>3. CASE HeartbeatLost
  <2>1. sinceTx' \in 0 .. TxMax
    BY <1>3, LinkAssumption DEF HeartbeatLost
  <2> QED BY <1>3, <2>1, Zenon DEF HeartbeatLost, task, chip
<1>4. CASE Available
  BY <1>4 DEF Available, chip, timers, history
<1>5. CASE ReadPayload
  <2>1. fifo' \in Seq(Packets) /\ Len(fifo') <= FifoDepth
    <3>1. CASE fifo = <<>>
      BY <1>5, <3>1 DEF ReadPayload
    <3>2. CASE fifo # <<>>
      <4>1. fifo' = Tail(fifo)
        BY <1>5, <3>2 DEF ReadPayload
      <4>2. Tail(fifo) \in Seq(Packets) /\ Len(Tail(fifo)) = Len(fifo) - 1 /\ Len(fifo) \in Nat
        BY <3>2
      <4> QED BY <4>1, <4>2, LinkAssumption
    <3> QED BY <3>1, <3>2
  <2>2. buffer' \in Packets
    BY <1>5 DEF ReadPayload
  <2> QED BY <1>5, <2>1, <2>2, Zenon DEF ReadPayload, timers, history
<1>6. CASE Clear
  <2>1. rxDr' \in BOOLEAN
    BY <1>6 DEF Clear
  <2> QED BY <1>6, <2>1, Zenon DEF Clear, timers, history
<1>7. CASE Parse
  <2>1. silent' \in 0 .. Long
    BY <1>7, LinkAssumption DEF Parse, Long
  <2>2. linkUp' \in BOOLEAN /\ disturbed' \in BOOLEAN
    BY <1>7, Zenon DEF Parse
  <2> QED BY <1>7, <2>1, <2>2, Zenon DEF Parse, timers, chip
<1>8. CASE Check
  <2>1. sinceCheck' \in 0 .. LoopMax
    BY <1>8, LinkAssumption DEF Check
  <2>2. linkUp' \in BOOLEAN
    BY <1>8, Zenon DEF Check
  <2> QED BY <1>8, <2>1, <2>2, Zenon DEF Check, chip, history
<1>9. CASE Wake
  BY <1>9 DEF Wake, chip, timers, history
<1>10. CASE Tick
  <2>1. now' \in 0 .. TimeMod - 1
    <3>1. TimeMod \in Nat /\ TimeMod > 0 /\ now + 1 \in Int
      BY LinkAssumption
    <3> QED BY <1>10, <3>1, ModFacts DEF Tick
  <2>2. sinceCheck' \in 0 .. LoopMax /\ sinceTx' \in 0 .. TxMax
    BY <1>10, LinkAssumption DEF Tick
  <2>3. silent' \in 0 .. Long
    BY <1>10, LinkAssumption DEF Tick, Long
  <2> QED BY <1>10, <2>1, <2>2, <2>3, Zenon DEF Tick, chip, task
<1>11. CASE UNCHANGED vars
  BY <1>11 DEF vars, chip, task, timers, history
<1> QED
  BY <1>1, <1>2, <1>3, <1>4, <1>5, <1>6, <1>7, <1>8, <1>9, <1>10, <1>11 DEF Next, RxStep

LEMMA StepKeepsFlag == TypeOK /\ FlagMeansPacket /\ [Next]_vars => FlagMeansPacket'
<1> SUFFICES ASSUME TypeOK, FlagMeansPacket, [Next]_vars PROVE FlagMeansPacket'
  OBVIOUS
<1> USE DEF FlagMeansPacket
<1>1. ASSUME NEW p \in Packets, Receive(p), UNCHANGED pc PROVE FlagMeansPacket'
  <2>1. (rxDr => rxDr') /\ (fifo # <<>> \/ (rxDr' /\ ~rxDr) => fifo' # <<>>)
    BY <1>1, ReceiveFacts DEF TypeOK
  <2> QED BY <1>1, <2>1, Zenon
<1>2. CASE Noise \/ HeartbeatArrives
  BY <1>1, <1>2 DEF Noise, HeartbeatArrives, Packets, task
<1>3. CASE HeartbeatLost \/ Tick \/ UNCHANGED vars
  BY <1>3 DEF HeartbeatLost, Tick, vars, chip, task
<1>4. CASE Available
  BY <1>4, Zenon DEF Available, chip
<1>5. CASE ReadPayload \/ Clear
  BY <1>5 DEF ReadPayload, Clear
<1>6. CASE Parse
  BY <1>6 DEF Parse, chip
<1>7. CASE Check \/ Wake
  BY <1>7 DEF Check, Wake, chip
<1> QED BY <1>2, <1>3, <1>4, <1>5, <1>6, <1>7 DEF Next, RxStep

LEMMA StepKeepsTime == TypeOK /\ TimeIsKnown /\ [Next]_vars => TimeIsKnown'
<1> SUFFICES ASSUME TypeOK, TimeIsKnown, [Next]_vars PROVE TimeIsKnown'
  OBVIOUS
<1> USE DEF TimeIsKnown
<1>1. CASE UNCHANGED <<linkUp, radioQ, now, lastValidMs, silent, sinceCheck>>
  BY <1>1
<1>2. CASE Parse
  <2>1. CASE buffer = "heartbeat"
    <3>1. linkUp' /\ radioQ' = "valid" /\ silent' = 0 /\ sinceCheck' = sinceCheck
      BY <1>2, <2>1 DEF Parse, timers
    <3>2. (now' - lastValidMs') % TimeMod = 0
      <4>1. now' = now /\ lastValidMs' = now
        BY <1>2, <2>1 DEF Parse, timers
      <4>2. TimeMod \in Nat /\ TimeMod > 0 /\ now \in Int
        BY LinkAssumption DEF TypeOK
      <4> QED BY <4>1, <4>2, WrappedZero
    <3>3. 0 <= TimeoutMs + sinceCheck
      BY LinkAssumption DEF TypeOK
    <3> QED BY <3>1, <3>2, <3>3
  <2>2. CASE buffer = "noise"
    BY <1>2, <2>2 DEF Parse, timers
  <2> QED BY <2>1, <2>2 DEF TypeOK, Packets
<1>3. CASE Check
  <2>1. CASE TimedOut
    <3>1. linkUp' = FALSE /\ radioQ' = "invalid"
      BY <1>3, <2>1 DEF Check
    <3> QED BY <3>1
  <2>2. CASE ~TimedOut
    <3>1. /\ linkUp' <=> linkUp
          /\ UNCHANGED <<radioQ, now, lastValidMs, silent>> /\ sinceCheck' = 0
      BY <1>3, <2>2 DEF Check, history
    <3>2. linkUp => silent <= TimeoutMs
      <4>1. linkUp => ~((now - lastValidMs) % TimeMod > TimeoutMs)
        BY <2>2 DEF TimedOut
      <4> QED BY <4>1, LinkAssumption DEF TypeOK, Long
    <3> QED BY <3>1, <3>2, LinkAssumption
  <2> QED BY <2>1, <2>2
<1>4. CASE Tick
  <2>1. UNCHANGED <<linkUp, radioQ, lastValidMs>>
    BY <1>4 DEF Tick, task
  <2>2. CASE linkUp
    <3>1. silent <= TimeoutMs + sinceCheck /\ sinceCheck < LoopMax
      BY <1>4, <2>2 DEF Tick
    <3>2. silent \in Nat /\ sinceCheck \in Nat /\ silent + 1 < TimeMod /\ silent < Long
      BY <3>1, LinkAssumption DEF TypeOK, Long
    <3>3. silent' = silent + 1 /\ sinceCheck' = sinceCheck + 1 /\ now' = (now + 1) % TimeMod
      BY <1>4, <3>2 DEF Tick
    <3>4. (((now + 1) % TimeMod) - lastValidMs) % TimeMod = silent + 1
      <4>1. TimeMod \in Nat /\ TimeMod > 0 /\ now \in Int /\ lastValidMs \in Int
        BY LinkAssumption DEF TypeOK
      <4>2. (now - lastValidMs) % TimeMod = silent
        BY <2>2
      <4>3. ((now - lastValidMs) % TimeMod) + 1 < TimeMod
        BY <3>2, <4>2
      <4>4. (((now + 1) % TimeMod) - lastValidMs) % TimeMod
              = ((now - lastValidMs) % TimeMod) + 1
        BY <4>1, <4>3, WrappedTick
      <4> QED BY <4>2, <4>4
    <3>5. (now' - lastValidMs') % TimeMod = silent'
      BY <2>1, <3>3, <3>4
    <3>6. silent' <= TimeoutMs + sinceCheck'
      BY <3>1, <3>2, <3>3, LinkAssumption
    <3> QED BY <2>1, <3>5, <3>6
  <2>3. CASE ~linkUp
    BY <2>1, <2>3
  <2> QED BY <2>2, <2>3
<1> QED
  BY <1>1, <1>2, <1>3, <1>4
  DEF Next, RxStep, Noise, HeartbeatArrives, HeartbeatLost, Available, ReadPayload, Clear,
      Wake, vars, task, timers, history

LEMMA InitCause == Init => SilenceHasACause
BY DEF Init, SilenceHasACause

LEMMA StepKeepsCause == TypeOK /\ SilenceHasACause /\ [Next]_vars => SilenceHasACause'
<1> SUFFICES ASSUME TypeOK, SilenceHasACause, [Next]_vars, linkUp', ~disturbed'
             PROVE  silent' <= sinceTx' \/ HeartbeatOnItsWay'
  BY DEF SilenceHasACause
<1> USE DEF HeartbeatOnItsWay
<1>1. /\ LoopMax \in Nat /\ TxMax \in Nat /\ TimeoutMs \in Nat /\ TxMax < Long
      /\ silent \in Nat /\ sinceTx \in 0 .. TxMax /\ sinceCheck \in 0 .. LoopMax
  BY LinkAssumption DEF TypeOK, Long
<1>2. ASSUME linkUp, ~disturbed PROVE silent <= sinceTx \/ HeartbeatOnItsWay
  BY <1>2 DEF SilenceHasACause
<1>3. CASE Parse
  <2>1. silent' = 0 /\ sinceTx' = sinceTx
    BY <1>3 DEF Parse, timers
  <2> QED BY <2>1, <1>1
<1>4. CASE HeartbeatArrives
  <2>1. linkUp /\ ~disturbed /\ rxDr' /\ UNCHANGED <<pc, silent, sinceCheck>>
    BY <1>4 DEF HeartbeatArrives, Receive, HasRoom, task
  <2>2. silent <= TxMax \/ HeartbeatOnItsWay
    BY <2>1, <1>1, <1>2
  <2>3. pc \in {"available", "readPayload", "clear", "parse", "check", "delay"}
    BY DEF TypeOK
  <2> QED BY <2>1, <2>2, <2>3, <1>1
<1>5. CASE HeartbeatLost
  BY <1>5 DEF HeartbeatLost
<1>6. CASE Noise
  <2>1. /\ linkUp /\ ~disturbed /\ (rxDr => rxDr')
        /\ UNCHANGED <<pc, silent, sinceCheck, sinceTx>>
    BY <1>6 DEF Noise, Receive, HasRoom, task, timers, TypeOK
  <2> QED BY <2>1, <1>1, <1>2
<1>7. CASE Tick
  <2>1. /\ linkUp /\ ~disturbed /\ UNCHANGED <<pc, rxDr>>
        /\ sinceCheck' = sinceCheck + 1 /\ sinceTx' = sinceTx + 1 /\ silent' <= silent + 1
        /\ silent' \in Nat
    BY <1>7, <1>1 DEF Tick, task, chip
  <2> QED BY <2>1, <1>1, <1>2
<1>8. CASE Check
  <2>1. linkUp /\ ~disturbed /\ pc = "check" /\ pc' = "delay"
        /\ sinceCheck' = 0 /\ UNCHANGED <<rxDr, silent, sinceTx>>
    BY <1>8, Zenon DEF Check, chip, history
  <2> QED BY <2>1, <1>1, <1>2
<1>9. CASE Available
  BY <1>9, <1>1, <1>2 DEF Available, chip, timers, history
<1>10. CASE ReadPayload
  BY <1>10, <1>1, <1>2 DEF ReadPayload, timers, history
<1>11. CASE Clear
  BY <1>11, <1>1, <1>2 DEF Clear, timers, history
<1>12. CASE Wake
  BY <1>12, <1>1, <1>2 DEF Wake, chip, timers, history
<1>13. CASE UNCHANGED vars
  BY <1>13, <1>1, <1>2 DEF vars, chip, task, timers, history
<1> QED
  BY <1>3, <1>4, <1>5, <1>6, <1>7, <1>8, <1>9, <1>10, <1>11, <1>12, <1>13 DEF Next, RxStep

-----------------------------------------------------------------------------
\* The inductive invariant holds of every behaviour.
THEOREM Invariance == Spec => []IInv
<1>1. IInv /\ [Next]_vars => IInv'
  BY StepKeepsTypes, StepKeepsFlag, StepKeepsTime DEF IInv
<1> QED BY InitInvariant, <1>1, PTL DEF Spec

\* The chip, the task and the mailbox keep their types.
THEOREM TypeCorrect == Spec => []TypeOK
<1>1. IInv => TypeOK
  BY DEF IInv
<1> QED BY <1>1, Invariance, PTL

\* receive() never reads from an empty queue, whatever arrives while it runs.
THEOREM ReadsPackets == Spec => []NoEmptyRead
<1>1. IInv => NoEmptyRead
  BY DEF IInv, FlagMeansPacket, NoEmptyRead
<1> QED BY <1>1, Invariance, PTL

\* A valid message in the mailbox is never older than the timeout and one round
\* of the task's loop.
THEOREM Freshness == Spec => []ValidIsFresh
<1>1. IInv => ValidIsFresh
  <2> SUFFICES ASSUME IInv, radioQ = "valid" PROVE silent <= TimeoutMs + LoopMax
    BY DEF ValidIsFresh
  <2>1. silent <= TimeoutMs + sinceCheck
    BY DEF IInv, TimeIsKnown
  <2> QED BY <2>1, LinkAssumption DEF IInv, TypeOK, Long
<1> QED BY <1>1, Invariance, PTL

\* The link is reported lost only when, since the last heartbeat was published,
\* another was lost or noise was read (RadioRxTask::run, radio_rx_task.hpp:64).
THEOREM LossIsCaused == Spec => LossHasACause
<1>1. ASSUME IInv, SilenceHasACause, [Next]_vars, linkUp, ~linkUp'
      PROVE  disturbed
  <2>1. Check /\ TimedOut
    BY <1>1 DEF Next, RxStep, Noise, HeartbeatArrives, HeartbeatLost, Available, ReadPayload,
                Clear, Parse, Check, Wake, Tick, vars, task
  <2>2. silent > TimeoutMs /\ pc = "check"
    BY <1>1, <2>1 DEF IInv, TimeIsKnown, TimedOut, Check
  <2> SUFFICES ASSUME ~disturbed PROVE FALSE
    OBVIOUS
  <2>3. silent <= sinceTx \/ silent <= TxMax + sinceCheck
    BY <1>1, <2>2 DEF SilenceHasACause, HeartbeatOnItsWay
  <2>4. silent \in Nat /\ sinceTx \in 0 .. TxMax /\ sinceCheck \in 0 .. LoopMax
    BY <1>1, LinkAssumption DEF IInv, TypeOK, Long
  <2> QED BY <2>2, <2>3, <2>4, LinkAssumption
<1>2. IInv /\ SilenceHasACause /\ [Next]_vars => [linkUp /\ ~linkUp' => disturbed]_vars
  BY <1>1
<1>3. IInv /\ SilenceHasACause /\ [Next]_vars => SilenceHasACause'
  BY StepKeepsCause DEF IInv
<1> QED BY <1>2, <1>3, InitCause, Invariance, PTL DEF Spec, LossHasACause

\* The mailbox implements LinkStatus.
THEOREM ImplementsLinkStatus == Spec => LinkStatusSpec
<1>1. Init => Link!Init
  BY DEF Init, Link!Init
<1>2. IInv /\ [Next]_vars => [Link!Next]_radioQ
  <2> SUFFICES ASSUME IInv, Next, radioQ' # radioQ PROVE Link!Next
    BY DEF vars
  <2> USE DEF Link!Next, Link!LinkUp, Link!LinkLost
  <2>1. CASE Parse
    BY <2>1 DEF Parse, IInv, TypeOK
  <2>2. CASE Check
    BY <2>2 DEF Check, TimedOut, IInv, TimeIsKnown
  <2> QED
    BY <2>1, <2>2
    DEF Next, RxStep, Noise, HeartbeatArrives, HeartbeatLost, Available, ReadPayload, Clear,
        Wake, Tick, task
<1> QED BY <1>1, <1>2, Invariance, PTL DEF Spec, LinkStatusSpec, Link!Spec

-----------------------------------------------------------------------------
(***************************************************************************)
(* The bus the radio's polls share with the flash.  SpiBus has its own     *)
(* constants and variables; only the name of one, disturbed, is taken.     *)
(*                                                                         *)
(* The argument: the calls of the flash driver are sequences of frames, so *)
(* what is left of a call is always the rest of a frame and whole frames   *)
(* (InACall), and whoever else comes in between, the flash has heard at    *)
(* most the beginning of a frame of the call being made (Heard).  So an    *)
(* instruction with three bytes of address is one with this call's, and    *)
(* one with fewer has been completed by the radio's bytes.                 *)
(***************************************************************************)
CONSTANTS PageWords, SectorWords, Cells, Starts, EntryBytes, MaxEntries, MaxCrashes
VARIABLES flash, cs, frame, inFlight, op, script, hasMagic, writeAddr, entryCount, crash,
          cutIn, want
Bus == INSTANCE SpiBus WITH disturbed <- cutIn

Assumed == Bus!FlashAssumption /\ Bus!BusAssumption /\ Bus!RoomAssumption

\* What is sent between the fall and the rise of the chip select, and a frame with what
\* comes after it.
Enabling == <<Bus!transfer(Bus!WRITE_ENABLE)>>
Polling == <<Bus!transfer(Bus!READ_STATUS), Bus!untilReady>>
Erasing(addr) == <<Bus!transfer(Bus!SECTOR_ERASE)>> \o Bus!sendAddress(addr)
Programming(addr, data) ==
  <<Bus!transfer(Bus!PAGE_PROGRAM)>> \o Bus!sendAddress(addr)
    \o [i \in DOMAIN data |-> Bus!transfer(data[i])]
Reading(addr) == <<Bus!transfer(Bus!READ_DATA)>> \o Bus!sendAddress(addr) \o <<Bus!takeMagic>>

Transfers == [do : {"byte", "poll", "take"}, byte : Nat]
Steps == {Bus!csLow, Bus!csHigh} \cup Transfers

\* One sequence after another, and what that is, position by position.
Cat(x, y) == x \o y
Joins(w, x, y, T) ==
  /\ w \in Seq(T) /\ Len(w) = Len(x) + Len(y)
  /\ \A i \in 1 .. Len(x) : w[i] = x[i]
  /\ \A i \in 1 .. Len(y) : w[Len(x) + i] = y[i]

\* What the proofs use of concatenation: this, that it associates, and that a sequence
\* is what it holds.
LEMMA Cats ==
  ASSUME NEW T, NEW x \in Seq(T), NEW y \in Seq(T)
  PROVE  Cat(x, y) \in Seq(T) /\ Joins(Cat(x, y), x, y, T)
BY DEF Cat, Joins

LEMMA Associates ==
  ASSUME NEW T, NEW s \in Seq(T), NEW t \in Seq(T), NEW u \in Seq(T)
  PROVE  Cat(Cat(s, t), u) = Cat(s, Cat(t, u))
BY DEF Cat

LEMMA Same ==
  ASSUME NEW T, NEW x \in Seq(T), NEW y \in Seq(T), Len(x) = Len(y),
         \A i \in 1 .. Len(x) : x[i] = y[i]
  PROVE  x = y
<1>1. /\ DOMAIN x = 1 .. Len(x) /\ DOMAIN y = 1 .. Len(y)
      /\ x = [i \in DOMAIN x |-> x[i]] /\ y = [i \in DOMAIN y |-> y[i]]
  OBVIOUS
<1> QED BY <1>1

LEMMA Pair ==
  ASSUME NEW T, NEW a \in T, NEW b \in T
  PROVE  Cat(<<a>>, <<b>>) = <<a, b>>
<1> DEFINE x == Cat(<<a>>, <<b>>)
           y == <<a, b>>
<1>1. x \in Seq(T) /\ Len(x) = 2 /\ x[1] = a /\ x[2] = b
  BY DEF Cat
<1>2. y \in Seq(T) /\ Len(y) = 2 /\ y[1] = a /\ y[2] = b
  OBVIOUS
<1> HIDE DEF x, y
<1>3. x = y
  BY <1>1, <1>2, Same
<1> QED BY <1>3 DEF x, y

\* A transfer of a byte, a poll and the reading of a reply are transfers.
LEMMA Constituents ==
  /\ \A byte \in Nat : Bus!transfer(byte) \in Transfers
  /\ Bus!untilReady \in Transfers /\ Bus!takeMagic \in Transfers
BY DEF Transfers, Bus!transfer, Bus!untilReady, Bus!takeMagic

\* The three bytes of an address give the address back.
LEMMA AddressParts ==
  ASSUME NEW addr \in Nat
  PROVE  /\ addr \div 65536 \in Nat /\ (addr \div 256) % 256 \in 0 .. 255 /\ addr % 256 \in 0 .. 255
         /\ ((addr \div 65536) * 65536) + (((addr \div 256) % 256) * 256) + (addr % 256) = addr
<1> DEFINE q == addr \div 256
           k == q \div 256
<1>1. q \in Nat /\ addr % 256 \in Nat /\ addr % 256 < 256 /\ addr = q * 256 + (addr % 256)
  BY Division
<1>2. k \in Nat /\ q % 256 \in Nat /\ q % 256 < 256 /\ q = k * 256 + (q % 256)
  BY <1>1, Division
<1> DEFINE r == q % 256
           z == addr % 256
<1>3. addr \div 65536 = k
  <2>1. k * 65536 <= addr /\ addr < (k + 1) * 65536
    <3> HIDE DEF q, k, r, z
    <3> QED BY <1>1, <1>2 DEF r, z
  <2> QED BY <1>2, <2>1, Quotient
<1> HIDE DEF k
<1>4. (k * 65536) + (r * 256) + z = addr
  <2> HIDE DEF q, r, z
  <2> QED BY <1>1, <1>2 DEF r, z
<1> QED BY <1>1, <1>2, <1>3, <1>4

\* A sequence that is the bytes of an address.
ThreeBytes(s, addr) ==
  /\ s \in Seq(Transfers) /\ Len(s) = 3
  /\ s[1] = Bus!transfer(addr \div 65536)
  /\ s[2] = Bus!transfer((addr \div 256) % 256)
  /\ s[3] = Bus!transfer(addr % 256)

LEMMA AddressSent ==
  ASSUME NEW addr \in Nat
  PROVE  ThreeBytes(Bus!sendAddress(addr), addr)
<1> DEFINE A == <<addr \div 65536, (addr \div 256) % 256, addr % 256>>
<1>1. addr \div 65536 \in Nat /\ (addr \div 256) % 256 \in Nat /\ addr % 256 \in Nat
  BY AddressParts
<1>2. Bus!sendAddress(addr) = [i \in 1 .. 3 |-> Bus!transfer(A[i])]
  BY DEF Bus!sendAddress, Bus!AddressBytes
<1>3. \A i \in 1 .. 3 : Bus!transfer(A[i]) \in Transfers
  <2>1. \A i \in 1 .. 3 : A[i] \in Nat
    BY <1>1
  <2> QED BY <2>1, Constituents
<1> QED BY <1>2, <1>3 DEF ThreeBytes

\* What is sent in a frame.
LEMMA Sent ==
  /\ Enabling \in Seq(Transfers) /\ Len(Enabling) = 1
  /\ Enabling[1] = Bus!transfer(Bus!WRITE_ENABLE)
  /\ Polling \in Seq(Transfers) /\ Len(Polling) = 2
  /\ Polling[1] = Bus!transfer(Bus!READ_STATUS)
<1>1. Bus!WRITE_ENABLE \in Nat /\ Bus!READ_STATUS \in Nat
  BY DEF Bus!WRITE_ENABLE, Bus!READ_STATUS
<1> QED BY <1>1, Constituents DEF Enabling, Polling

\* A sequence that begins with an instruction and its address.
Instructs(w, t, addr) ==
  /\ w \in Seq(Transfers) /\ 4 <= Len(w)
  /\ w[1] = t
  /\ w[2] = Bus!transfer(addr \div 65536)
  /\ w[3] = Bus!transfer((addr \div 256) % 256)
  /\ w[4] = Bus!transfer(addr % 256)

Addressed(t, addr) == Cat(<<t>>, Bus!sendAddress(addr))

LEMMA AddressedSent ==
  ASSUME NEW t \in Transfers, NEW addr \in Nat
  PROVE  Instructs(Addressed(t, addr), t, addr) /\ Len(Addressed(t, addr)) = 4
<1> DEFINE a == Bus!sendAddress(addr)
           w == Cat(<<t>>, a)
<1>0. ThreeBytes(a, addr)
  BY AddressSent
<1> HIDE DEF a
<1>1. a \in Seq(Transfers)
  BY <1>0 DEF ThreeBytes
<1>2. /\ w \in Seq(Transfers) /\ Len(w) = 1 + Len(a) /\ w[1] = t
      /\ \A i \in 1 .. Len(a) : w[1 + i] = a[i]
  <2> DEFINE u == <<t>>
             x == Cat(u, a)
  <2>1. u \in Seq(Transfers) /\ Len(u) = 1 /\ u[1] = t
    OBVIOUS
  <2> HIDE DEF u
  <2>2. x \in Seq(Transfers) /\ Joins(x, u, a, Transfers)
    BY <1>1, <2>1, Cats
  <2> HIDE DEF x
  <2>3. /\ x \in Seq(Transfers) /\ Len(x) = 1 + Len(a) /\ x[1] = t
        /\ \A i \in 1 .. Len(a) : x[1 + i] = a[i]
    BY <2>1, <2>2 DEF Joins
  <2> QED BY <2>3 DEF x, u
<1> HIDE DEF w
<1>3. /\ Len(a) = 3
      /\ a[1] = Bus!transfer(addr \div 65536)
      /\ a[2] = Bus!transfer((addr \div 256) % 256)
      /\ a[3] = Bus!transfer(addr % 256)
  BY <1>0 DEF ThreeBytes
<1>4. w[1 + 1] = a[1] /\ w[1 + 2] = a[2] /\ w[1 + 3] = a[3]
  BY <1>2, <1>3
<1>5. Instructs(w, t, addr) /\ Len(w) = 4
  BY <1>2, <1>3, <1>4 DEF Instructs
<1> QED BY <1>5 DEF w, a, Addressed

LEMMA ErasingSent ==
  ASSUME NEW addr \in Nat
  PROVE  /\ Instructs(Erasing(addr), Bus!transfer(Bus!SECTOR_ERASE), addr)
         /\ Len(Erasing(addr)) = 4
<1>1. Bus!transfer(Bus!SECTOR_ERASE) \in Transfers
  BY Constituents DEF Bus!SECTOR_ERASE
<1>2. Erasing(addr) = Addressed(Bus!transfer(Bus!SECTOR_ERASE), addr)
  BY DEF Erasing, Addressed, Cat
<1> QED BY <1>1, <1>2, AddressedSent

\* An instruction with its address, and something behind it.
LEMMA Continued ==
  ASSUME NEW t \in Transfers, NEW addr \in Nat, NEW z \in Seq(Transfers)
  PROVE  /\ Instructs(Cat(Addressed(t, addr), z), t, addr)
         /\ Len(Cat(Addressed(t, addr), z)) = 4 + Len(z)
         /\ \A j \in 1 .. Len(z) : Cat(Addressed(t, addr), z)[4 + j] = z[j]
<1> DEFINE head == Addressed(t, addr)
           w == Cat(head, z)
<1>1. Instructs(head, t, addr) /\ Len(head) = 4
  BY AddressedSent
<1> HIDE DEF head
<1>2. head \in Seq(Transfers)
  BY <1>1 DEF Instructs
<1>3. Joins(w, head, z, Transfers)
  BY <1>2, Cats
<1> HIDE DEF w
<1>4. Len(head) = 4 /\ Len(z) \in Nat
  BY <1>1
<1>5. w[1] = head[1] /\ w[2] = head[2] /\ w[3] = head[3] /\ w[4] = head[4]
  BY <1>3, <1>4 DEF Joins
<1>6. Instructs(w, t, addr)
  BY <1>1, <1>3, <1>4, <1>5 DEF Instructs, Joins
<1>7. Len(w) = 4 + Len(z) /\ \A j \in 1 .. Len(z) : w[4 + j] = z[j]
  BY <1>3, <1>4 DEF Joins
<1> QED BY <1>6, <1>7 DEF w, head

\* A read is an instruction, its address, and the byte that is taken.
LEMMA ReadingSent ==
  ASSUME NEW addr \in Nat
  PROVE  /\ Instructs(Reading(addr), Bus!transfer(Bus!READ_DATA), addr)
         /\ Len(Reading(addr)) = 5 /\ Reading(addr)[5] = Bus!takeMagic
<1> DEFINE t == Bus!transfer(Bus!READ_DATA)
           last == <<Bus!takeMagic>>
<1>1. t \in Transfers /\ last \in Seq(Transfers)
  BY Constituents DEF Bus!READ_DATA
<1>2. Len(last) = 1 /\ last[1] = Bus!takeMagic
  OBVIOUS
<1>3. Reading(addr) = Cat(Addressed(t, addr), last)
  BY DEF Reading, Addressed, Cat
<1> HIDE DEF t, last
<1>4. Instructs(Cat(Addressed(t, addr), last), t, addr)
      /\ Len(Cat(Addressed(t, addr), last)) = 4 + Len(last)
      /\ \A j \in 1 .. Len(last) : Cat(Addressed(t, addr), last)[4 + j] = last[j]
  BY <1>1, Continued
<1>5. Cat(Addressed(t, addr), last)[4 + 1] = last[1]
  BY <1>2, <1>4
<1> QED BY <1>2, <1>3, <1>4, <1>5 DEF t

LEMMA ProgrammingSent ==
  ASSUME NEW addr \in Nat, NEW data \in Seq(Nat)
  PROVE  /\ Instructs(Programming(addr, data), Bus!transfer(Bus!PAGE_PROGRAM), addr)
         /\ Len(Programming(addr, data)) = 4 + Len(data)
         /\ \A j \in 1 .. Len(data) : Programming(addr, data)[4 + j] = Bus!transfer(data[j])
<1> DEFINE t == Bus!transfer(Bus!PAGE_PROGRAM)
           bytes == [i \in DOMAIN data |-> Bus!transfer(data[i])]
<1>1. t \in Transfers
  BY Constituents DEF Bus!PAGE_PROGRAM
<1>2. bytes \in Seq(Transfers) /\ Len(bytes) = Len(data)
      /\ \A j \in 1 .. Len(data) : bytes[j] = Bus!transfer(data[j])
  <2>1. DOMAIN data = 1 .. Len(data) /\ Len(data) \in Nat
    OBVIOUS
  <2>2. \A i \in 1 .. Len(data) : Bus!transfer(data[i]) \in Transfers
    BY Constituents
  <2> QED BY <2>1, <2>2
<1>3. Programming(addr, data) = Cat(Addressed(t, addr), bytes)
  BY DEF Programming, Addressed, Cat
<1> HIDE DEF t, bytes
<1>4. bytes \in Seq(Transfers)
  BY <1>2
<1>5. /\ Instructs(Cat(Addressed(t, addr), bytes), t, addr)
      /\ Len(Cat(Addressed(t, addr), bytes)) = 4 + Len(bytes)
      /\ \A j \in 1 .. Len(bytes) : Cat(Addressed(t, addr), bytes)[4 + j] = bytes[j]
  BY <1>1, <1>4, Continued
<1> QED BY <1>2, <1>3, <1>5 DEF t

\* The driver's calls, as frames.
Regrouped(a, l, t, s, d, h, b) ==
  Cat(Cat(Cat(Cat(Cat(a, Cat(l, t)), s), d), h), b)
    = Cat(a, Cat(Cat(Cat(l, Cat(Cat(t, s), d)), h), b))

\* A call written as the driver writes it, regrouped into three frames.
LEMMA InFrames ==
  ASSUME NEW T, NEW a \in Seq(T), NEW l \in Seq(T), NEW t \in Seq(T), NEW s \in Seq(T),
         NEW d \in Seq(T), NEW h \in Seq(T), NEW b \in Seq(T)
  PROVE  Regrouped(a, l, t, s, d, h, b)
<1> DEFINE ts == Cat(t, s)
           w == Cat(ts, d)
           lw == Cat(l, w)
           f == Cat(lw, h)
<1>1. ts \in Seq(T) /\ Cat(l, t) \in Seq(T) /\ Cat(l, ts) \in Seq(T)
  BY Cats
<1>2. Cat(Cat(a, Cat(l, t)), s) = Cat(a, Cat(l, ts))
  <2>1. Cat(Cat(a, Cat(l, t)), s) = Cat(a, Cat(Cat(l, t), s))
    BY <1>1, Associates
  <2>2. Cat(Cat(l, t), s) = Cat(l, ts)
    BY Associates
  <2> QED BY <2>1, <2>2
<1> HIDE DEF ts
<1>3. w \in Seq(T) /\ lw \in Seq(T)
  BY <1>1, Cats
<1>4. Cat(Cat(a, Cat(l, ts)), d) = Cat(a, lw)
  <2>1. Cat(Cat(a, Cat(l, ts)), d) = Cat(a, Cat(Cat(l, ts), d))
    BY <1>1, Associates
  <2>2. Cat(Cat(l, ts), d) = lw
    BY <1>1, Associates
  <2> QED BY <2>1, <2>2
<1> HIDE DEF lw
<1>5. f \in Seq(T) /\ Cat(Cat(a, lw), h) = Cat(a, f)
  BY <1>3, Associates, Cats
<1> HIDE DEF f
<1>6. Cat(Cat(a, f), b) = Cat(a, Cat(f, b))
  BY <1>5, Associates
<1> QED BY <1>2, <1>4, <1>5, <1>6 DEF ts, lw, f, Regrouped


Begins(x, a, y, T) == x \in Seq(T) /\ x # <<>> /\ Head(x) = a /\ Tail(x) = y

\* A step is one of the chip select or a transfer, and not both.
LEMMA StepTypes ==
  /\ Transfers \subseteq Steps /\ Bus!csLow \in Steps /\ Bus!csHigh \in Steps
  /\ Seq(Transfers) \subseteq Seq(Steps) /\ <<>> \in Seq(Steps)
BY DEF Steps

LEMMA StepKinds ==
  /\ \A t \in Transfers : t # Bus!csLow /\ t # Bus!csHigh /\ t.byte \in Nat
  /\ \A t \in Transfers : t.do \in {"byte", "poll", "take"}
  /\ Bus!csLow.do = "low" /\ Bus!csHigh.do = "high" /\ Bus!csLow # Bus!csHigh
  /\ \A byte : Bus!transfer(byte).do = "byte" /\ Bus!transfer(byte).byte = byte
<1>1. \A t \in Transfers : t.byte \in Nat /\ t.do \in {"byte", "poll", "take"}
  BY DEF Transfers
<1>2. Bus!csLow.do = "low" /\ Bus!csHigh.do = "high"
  BY DEF Bus!csLow, Bus!csHigh
<1> QED BY <1>1, <1>2 DEF Bus!transfer

-----------------------------------------------------------------------------
\* What is left of a call: each fall of the chip select is followed by what one of W
\* has to send, and its rise, and each rise by a fall or the end.
WholeAt(s, f, w) ==
  /\ f + Len(w) + 1 <= Len(s)
  /\ \A i \in 1 .. Len(w) : s[f + i] = w[i]
  /\ s[f + Len(w) + 1] = Bus!csHigh

Framed(s, W) ==
  /\ s \in Seq(Steps)
  /\ \A f \in 1 .. Len(s) : s[f] = Bus!csLow => \E w \in W : WholeAt(s, f, w)
  /\ \A f \in 1 .. Len(s) - 1 : s[f] = Bus!csHigh => s[f + 1] = Bus!csLow

\* Between two frames, and within one, with k of w sent.
Between(s, W) == Framed(s, W) /\ (s # <<>> => s[1] = Bus!csLow)

Within(s, W, w, k) ==
  /\ Framed(s, W) /\ w \in W /\ k \in 0 .. Len(w)
  /\ (Len(w) - k) + 1 <= Len(s)
  /\ \A i \in k + 1 .. Len(w) : s[i - k] = w[i]
  /\ s[(Len(w) - k) + 1] = Bus!csHigh

\* One frame.
FrameOf(w) == Cat(Cat(<<Bus!csLow>>, w), <<Bus!csHigh>>)

\* A frame is the fall, what is sent, and the rise; it is whole.
LEMMA FrameParts ==
  ASSUME NEW w \in Seq(Transfers)
  PROVE  /\ FrameOf(w) \in Seq(Steps) /\ Len(FrameOf(w)) = Len(w) + 2
         /\ FrameOf(w)[1] = Bus!csLow /\ FrameOf(w)[Len(w) + 2] = Bus!csHigh
         /\ \A i \in 1 .. Len(w) : FrameOf(w)[1 + i] = w[i]
<1> DEFINE l == <<Bus!csLow>>
           h == <<Bus!csHigh>>
           x == Cat(l, w)
           s == Cat(x, h)
<1>1. l \in Seq(Steps) /\ h \in Seq(Steps) /\ w \in Seq(Steps)
  BY StepTypes
<1>2. Len(l) = 1 /\ l[1] = Bus!csLow /\ Len(h) = 1 /\ h[1] = Bus!csHigh
  OBVIOUS
<1> HIDE DEF l, h
<1>3. x \in Seq(Steps) /\ Joins(x, l, w, Steps)
  BY <1>1, Cats
<1> HIDE DEF x
<1>4. s \in Seq(Steps) /\ Joins(s, x, h, Steps)
  BY <1>1, <1>3, Cats
<1> HIDE DEF s
<1>5. /\ Len(s) = Len(w) + 2 /\ s[1] = Bus!csLow
      /\ s[Len(w) + 2] = Bus!csHigh /\ \A i \in 1 .. Len(w) : s[1 + i] = w[i]
  BY <1>1, <1>2, <1>3, <1>4 DEF Joins
<1> QED BY <1>4, <1>5 DEF FrameOf, s, x, l, h

LEMMA OneFrame ==
  ASSUME NEW w \in Seq(Transfers), NEW W, w \in W
  PROVE  Between(FrameOf(w), W)
<1> DEFINE s == FrameOf(w)
<1>5. /\ s \in Seq(Steps) /\ Len(w) \in Nat /\ Len(s) = Len(w) + 2 /\ s[1] = Bus!csLow
      /\ s[Len(w) + 2] = Bus!csHigh /\ \A i \in 1 .. Len(w) : s[1 + i] = w[i]
  BY FrameParts
<1> HIDE DEF s
<1>6. WholeAt(s, 1, w)
  BY <1>5 DEF WholeAt
<1>7. \A f \in 1 .. Len(s) : s[f] = Bus!csLow => f = 1
  <2> SUFFICES ASSUME NEW f \in 1 .. Len(s), s[f] = Bus!csLow, f # 1 PROVE FALSE
    OBVIOUS
  <2>1. CASE f = Len(w) + 2
    BY <1>5, <2>1, StepKinds
  <2>2. CASE f - 1 \in 1 .. Len(w)
    <3>1. s[1 + (f - 1)] = w[f - 1] /\ w[f - 1] \in Transfers /\ 1 + (f - 1) = f
      BY <1>5, <2>2
    <3> QED BY <3>1, StepKinds
  <2> QED BY <1>5, <2>1, <2>2
<1>8. \A f \in 1 .. Len(s) - 1 : s[f] # Bus!csHigh
  <2> SUFFICES ASSUME NEW f \in 1 .. Len(s) - 1, s[f] = Bus!csHigh PROVE FALSE
    OBVIOUS
  <2>1. CASE f = 1
    BY <1>5, <2>1, StepKinds
  <2>2. CASE f - 1 \in 1 .. Len(w)
    <3>1. s[1 + (f - 1)] = w[f - 1] /\ w[f - 1] \in Transfers /\ 1 + (f - 1) = f
      BY <1>5, <2>2
    <3> QED BY <3>1, StepKinds
  <2> QED BY <1>5, <2>1, <2>2
<1>9. Framed(s, W)
  BY <1>5, <1>6, <1>7, <1>8 DEF Framed
<1> QED BY <1>5, <1>9 DEF Between, s

\* One after another.
LEMMA MoreFrames ==
  ASSUME NEW W, NEW s, NEW t, W \subseteq Seq(Transfers), Between(s, W), Between(t, W)
  PROVE  Between(Cat(s, t), W)
<1> DEFINE x == Cat(s, t)
           m == Len(s)
           n == Len(t)
<1>1. s \in Seq(Steps) /\ t \in Seq(Steps) /\ m \in Nat /\ n \in Nat
  BY DEF Between, Framed
<1>2. x \in Seq(Steps) /\ Joins(x, s, t, Steps)
  BY <1>1, Cats
<1> HIDE DEF x
<1>3. /\ Len(x) = m + n /\ \A i \in 1 .. m : x[i] = s[i]
      /\ \A i \in 1 .. n : x[m + i] = t[i]
  BY <1>2 DEF Joins
<1>4. ASSUME NEW f \in 1 .. Len(x), x[f] = Bus!csLow
      PROVE  \E w \in W : WholeAt(x, f, w)
  <2>1. CASE f <= m
    <3>1. PICK w \in W : WholeAt(s, f, w)
      BY <1>3, <1>4, <2>1, <1>1 DEF Between, Framed
    <3>2. Len(w) \in Nat
      BY <1>1
    <3>3. /\ f + Len(w) + 1 \in 1 .. m /\ s[f + Len(w) + 1] = Bus!csHigh
          /\ \A i \in 1 .. Len(w) : f + i \in 1 .. m /\ s[f + i] = w[i]
      BY <1>1, <3>1, <3>2 DEF WholeAt
    <3>4. f + Len(w) + 1 <= Len(x)
      BY <1>1, <1>3, <3>3
    <3>5. WholeAt(x, f, w)
      BY <1>3, <3>3, <3>4 DEF WholeAt
    <3> QED BY <3>5
  <2>2. CASE f > m
    <3> DEFINE g == f - m
    <3>1. g \in 1 .. n /\ f = m + g
      BY <1>1, <1>3, <2>2
    <3>2. t[g] = Bus!csLow
      BY <1>3, <1>4, <3>1
    <3>3. PICK w \in W : WholeAt(t, g, w)
      BY <3>1, <3>2 DEF Between, Framed
    <3>4. Len(w) \in Nat
      BY <1>1
    <3> HIDE DEF g
    <3>5. \A i \in 1 .. Len(w) : x[f + i] = w[i]
      <4> TAKE i \in 1 .. Len(w)
      <4>1. g + i \in 1 .. n /\ f + i = m + (g + i) /\ t[g + i] = w[i]
        BY <1>1, <3>1, <3>3, <3>4 DEF WholeAt
      <4> QED BY <1>3, <4>1
    <3>6. x[f + Len(w) + 1] = Bus!csHigh /\ f + Len(w) + 1 <= Len(x)
      <4>1. /\ g + Len(w) + 1 \in 1 .. n /\ t[g + Len(w) + 1] = Bus!csHigh
            /\ f + Len(w) + 1 = m + (g + Len(w) + 1)
        BY <1>1, <3>1, <3>3, <3>4 DEF WholeAt
      <4> QED BY <1>1, <1>3, <4>1
    <3>7. WholeAt(x, f, w)
      BY <3>5, <3>6 DEF WholeAt
    <3> QED BY <3>7
  <2> QED BY <1>1, <1>3, <2>1, <2>2
<1>5. ASSUME NEW f \in 1 .. Len(x) - 1, x[f] = Bus!csHigh
      PROVE  x[f + 1] = Bus!csLow
  <2>1. CASE f < m
    <3>1. f \in 1 .. m - 1 /\ f \in 1 .. m /\ f + 1 \in 1 .. m
      BY <1>1, <1>3, <2>1
    <3>2. s[f] = Bus!csHigh
      BY <1>3, <1>5, <3>1
    <3>3. s[f + 1] = Bus!csLow
      BY <3>1, <3>2 DEF Between, Framed
    <3> QED BY <1>3, <3>1, <3>3
  <2>2. CASE f = m
    <3>1. 1 \in 1 .. n /\ t # <<>>
      BY <1>1, <1>3, <2>2
    <3> QED BY <1>1, <1>3, <2>2, <3>1 DEF Between
  <2>3. CASE f > m
    <3> DEFINE g == f - m
    <3>1. g \in 1 .. n - 1 /\ g \in 1 .. n /\ g + 1 \in 1 .. n /\ f = m + g /\ f + 1 = m + (g + 1)
      BY <1>1, <1>3, <2>3
    <3> HIDE DEF g
    <3>2. t[g] = Bus!csHigh
      BY <1>3, <1>5, <3>1
    <3>3. t[g + 1] = Bus!csLow
      BY <3>1, <3>2 DEF Between, Framed
    <3> QED BY <1>3, <3>1, <3>3
  <2> QED BY <1>1, <1>3, <2>1, <2>2, <2>3
<1>6. Framed(x, W)
  BY <1>2, <1>4, <1>5 DEF Framed
<1>7. x # <<>> => x[1] = Bus!csLow
  <2>1. CASE m = 0
    BY <1>1, <1>2, <1>3, <2>1 DEF Between
  <2>2. CASE m > 0
    BY <1>1, <1>3, <2>2 DEF Between
  <2> QED BY <1>1, <2>1, <2>2
<1> QED BY <1>6, <1>7 DEF Between, x

\* What is left of whole frames is made of the rest of one and of whole frames.
LEMMA Shorter ==
  ASSUME NEW W, NEW s, W \subseteq Seq(Transfers), Framed(s, W), s # <<>>
  PROVE  Framed(Tail(s), W)
<1> DEFINE t == Tail(s)
<1>1. /\ s \in Seq(Steps) /\ t \in Seq(Steps) /\ Len(s) \in Nat /\ Len(t) = Len(s) - 1
      /\ \A i \in 1 .. Len(s) - 1 : t[i] = s[i + 1]
  BY DEF Framed
<1> HIDE DEF t
<1>2. ASSUME NEW f \in 1 .. Len(t), t[f] = Bus!csLow
      PROVE  \E w \in W : WholeAt(t, f, w)
  <2>1. f + 1 \in 1 .. Len(s) /\ s[f + 1] = Bus!csLow
    BY <1>1, <1>2
  <2>2. PICK w \in W : WholeAt(s, f + 1, w)
    BY <2>1 DEF Framed
  <2>3. Len(w) \in Nat
    OBVIOUS
  <2>4. /\ f + Len(w) + 1 \in 1 .. Len(s) - 1 /\ s[(f + Len(w) + 1) + 1] = Bus!csHigh
        /\ \A i \in 1 .. Len(w) : f + i \in 1 .. Len(s) - 1 /\ s[(f + i) + 1] = w[i]
    <3>1. \A i \in 1 .. Len(w) : (f + 1) + i = (f + i) + 1 /\ f + i \in 1 .. Len(s) - 1
      BY <1>1, <2>2, <2>3 DEF WholeAt
    <3>2. (f + 1) + Len(w) + 1 = (f + Len(w) + 1) + 1 /\ f + Len(w) + 1 \in 1 .. Len(s) - 1
      BY <1>1, <2>2, <2>3 DEF WholeAt
    <3> QED BY <2>2, <3>1, <3>2 DEF WholeAt
  <2>5. WholeAt(t, f, w)
    BY <1>1, <2>4 DEF WholeAt
  <2> QED BY <2>5
<1>3. ASSUME NEW f \in 1 .. Len(t) - 1, t[f] = Bus!csHigh
      PROVE  t[f + 1] = Bus!csLow
  <2>1. f + 1 \in 1 .. Len(s) - 1 /\ s[f + 1] = Bus!csHigh /\ t[f + 1] = s[(f + 1) + 1]
    BY <1>1, <1>3
  <2> QED BY <2>1 DEF Framed
<1> QED BY <1>1, <1>2, <1>3 DEF Framed, t

\* The chip select falls, a byte is sent, and the chip select rises.
LEMMA Falls ==
  ASSUME NEW W, NEW s, W \subseteq Seq(Transfers), Between(s, W), s # <<>>
  PROVE  Head(s) = Bus!csLow /\ \E w \in W : Within(Tail(s), W, w, 0)
<1>1. s \in Seq(Steps) /\ Len(s) \in Nat /\ Len(s) >= 1 /\ s[1] = Bus!csLow
  BY DEF Between, Framed
<1>2. Framed(Tail(s), W)
  BY Shorter DEF Between
<1>3. PICK w \in W : WholeAt(s, 1, w)
  BY <1>1 DEF Between, Framed
<1>4. Len(w) \in Nat
  OBVIOUS
<1>5. /\ Len(w) + 2 <= Len(s) /\ s[Len(w) + 2] = Bus!csHigh
      /\ \A i \in 1 .. Len(w) : s[i + 1] = w[i]
  BY <1>3, <1>4 DEF WholeAt
<1> DEFINE t == Tail(s)
<1>6. Len(t) = Len(s) - 1 /\ \A i \in 1 .. Len(s) - 1 : t[i] = s[i + 1]
  BY <1>1
<1> HIDE DEF t
<1>7. /\ (Len(w) - 0) + 1 <= Len(t) /\ t[(Len(w) - 0) + 1] = Bus!csHigh
      /\ \A i \in 0 + 1 .. Len(w) : t[i - 0] = w[i]
  <2>1. (Len(w) - 0) + 1 = Len(w) + 1 /\ Len(w) + 1 \in 1 .. Len(s) - 1
        /\ (Len(w) + 1) + 1 = Len(w) + 2
    BY <1>1, <1>4, <1>5
  <2>2. \A i \in 0 + 1 .. Len(w) : i - 0 = i /\ i \in 1 .. Len(w) /\ i \in 1 .. Len(s) - 1
    BY <1>1, <1>4, <1>5
  <2> QED BY <1>5, <1>6, <2>1, <2>2
<1>8. Within(t, W, w, 0)
  BY <1>2, <1>3, <1>4, <1>7 DEF Within, t
<1> QED BY <1>1, <1>3, <1>8 DEF t

\* Within a frame the next step is the next transfer, and after the last the rise.
LEMMA Sends ==
  ASSUME NEW W, NEW s, NEW w, NEW k, W \subseteq Seq(Transfers), Within(s, W, w, k),
         k < Len(w)
  PROVE  /\ s # <<>> /\ Head(s) = w[k + 1] /\ Head(s) \in Transfers
         /\ Within(Tail(s), W, w, k + 1)
<1>1. /\ w \in Seq(Transfers) /\ w \in W /\ Len(w) \in Nat /\ k \in 0 .. Len(w)
      /\ s \in Seq(Steps) /\ Len(s) \in Nat /\ (Len(w) - k) + 1 <= Len(s) /\ Framed(s, W)
  BY DEF Within, Framed
<1>2. Framed(Tail(s), W)
  BY <1>1, Shorter
<1> DEFINE t == Tail(s)
<1>3. /\ s # <<>> /\ Head(s) = s[1] /\ Len(t) = Len(s) - 1
      /\ \A i \in 1 .. Len(s) - 1 : t[i] = s[i + 1]
  BY <1>1
<1> HIDE DEF t
<1>4. s[(k + 1) - k] = w[k + 1]
  BY <1>1 DEF Within
<1>5. s[1] = w[k + 1] /\ w[k + 1] \in Transfers
  BY <1>1, <1>4
<1>6. (Len(w) - (k + 1)) + 1 <= Len(t) /\ k + 1 \in 0 .. Len(w)
  BY <1>1, <1>3
<1>7. t[(Len(w) - (k + 1)) + 1] = Bus!csHigh
  <2>1. s[(Len(w) - k) + 1] = Bus!csHigh
    BY DEF Within
  <2>2. (Len(w) - (k + 1)) + 1 \in 1 .. Len(s) - 1
        /\ ((Len(w) - (k + 1)) + 1) + 1 = (Len(w) - k) + 1
    BY <1>1
  <2> QED BY <1>3, <2>1, <2>2
<1>8. \A i \in (k + 1) + 1 .. Len(w) : t[i - (k + 1)] = w[i]
  <2> TAKE i \in (k + 1) + 1 .. Len(w)
  <2>1. i - (k + 1) \in 1 .. Len(s) - 1 /\ (i - (k + 1)) + 1 = i - k /\ i \in k + 1 .. Len(w)
    BY <1>1
  <2>2. s[i - k] = w[i]
    BY <2>1 DEF Within
  <2> QED BY <1>3, <2>1, <2>2
<1>9. Within(t, W, w, k + 1)
  BY <1>1, <1>2, <1>6, <1>7, <1>8 DEF Within, t
<1> QED BY <1>3, <1>5, <1>9 DEF t

LEMMA Rises ==
  ASSUME NEW W, NEW s, NEW w, NEW k, W \subseteq Seq(Transfers), Within(s, W, w, k),
         k = Len(w)
  PROVE  s # <<>> /\ Head(s) = Bus!csHigh /\ Between(Tail(s), W)
<1>1. w \in Seq(Transfers) /\ Len(w) \in Nat /\ s \in Seq(Steps) /\ Framed(s, W)
  BY DEF Within, Framed
<1>2. (Len(w) - k) + 1 = 1
  BY <1>1
<1>3. s[1] = Bus!csHigh /\ 1 <= Len(s)
  BY <1>2 DEF Within
<1>4. Framed(Tail(s), W)
  BY <1>1, <1>3, Shorter
<1> DEFINE t == Tail(s)
<1>5. /\ s # <<>> /\ Head(s) = s[1] /\ t \in Seq(Steps) /\ Len(t) = Len(s) - 1
      /\ \A i \in 1 .. Len(s) - 1 : t[i] = s[i + 1]
  BY <1>1, <1>3
<1> HIDE DEF t
<1>6. t # <<>> => t[1] = Bus!csLow
  <2> SUFFICES ASSUME t # <<>> PROVE t[1] = Bus!csLow
    OBVIOUS
  <2>1. 1 \in 1 .. Len(s) - 1 /\ t[1] = s[1 + 1]
    BY <1>1, <1>3, <1>5
  <2> QED BY <1>1, <1>3, <2>1 DEF Framed
<1> QED BY <1>3, <1>4, <1>5, <1>6 DEF Between, t

-----------------------------------------------------------------------------
\* The calls of the driver are frames.
LEMMA Polled == Bus!waitBusy = FrameOf(Polling) /\ Bus!waitBusy \in Seq(Steps)
<1> DEFINE x == Bus!waitBusy
           y == FrameOf(Polling)
           t == Bus!transfer(Bus!READ_STATUS)
           u == Bus!untilReady
           l == Bus!csLow
           h == Bus!csHigh
           p == <<t, u>>
<1>1. t \in Steps /\ u \in Steps /\ l \in Steps /\ h \in Steps
  BY Constituents, StepTypes DEF Bus!READ_STATUS
<1>2. Polling = p /\ x = <<l, t, u, h>>
  BY DEF Polling, Bus!waitBusy
<1>3. /\ y \in Seq(Steps) /\ Len(y) = Len(Polling) + 2 /\ y[1] = l
      /\ y[Len(Polling) + 2] = h /\ \A i \in 1 .. Len(Polling) : y[1 + i] = Polling[i]
  BY Sent, FrameParts
<1> HIDE DEF x, y, t, u, l, h
<1>4. Len(p) = 2 /\ p[1] = t /\ p[2] = u
  OBVIOUS
<1> HIDE DEF p
<1>5. y[1 + 1] = t /\ y[1 + 2] = u /\ Len(y) = 4 /\ y[1] = l /\ y[4] = h
  BY <1>2, <1>3, <1>4
<1>6. x \in Seq(Steps) /\ Len(x) = 4 /\ x[1] = l /\ x[2] = t /\ x[3] = u /\ x[4] = h
  BY <1>1, <1>2
<1>7. \A i \in 1 .. Len(x) : x[i] = y[i]
  BY <1>5, <1>6
<1>8. x = y
  BY <1>3, <1>5, <1>6, <1>7, Same
<1> QED BY <1>6, <1>8 DEF x, y

LEMMA Enabled == Bus!writeEnable = FrameOf(Enabling) /\ Bus!writeEnable \in Seq(Steps)
<1> DEFINE x == Bus!writeEnable
           y == FrameOf(Enabling)
           t == Bus!transfer(Bus!WRITE_ENABLE)
           l == Bus!csLow
           h == Bus!csHigh
<1>1. t \in Steps /\ l \in Steps /\ h \in Steps
  BY Constituents, StepTypes DEF Bus!WRITE_ENABLE
<1>2. x = <<l, t, h>>
  BY DEF Bus!writeEnable
<1>3. /\ y \in Seq(Steps) /\ Len(y) = Len(Enabling) + 2 /\ y[1] = l
      /\ y[Len(Enabling) + 2] = h /\ \A i \in 1 .. Len(Enabling) : y[1 + i] = Enabling[i]
      /\ Len(Enabling) = 1 /\ Enabling[1] = t
  BY Sent, FrameParts
<1> HIDE DEF x, y, t, l, h
<1>4. y[1 + 1] = t /\ Len(y) = 3 /\ y[1] = l /\ y[3] = h
  BY <1>3
<1>5. x \in Seq(Steps) /\ Len(x) = 3 /\ x[1] = l /\ x[2] = t /\ x[3] = h
  BY <1>1, <1>2
<1>6. \A i \in 1 .. Len(x) : x[i] = y[i]
  BY <1>4, <1>5
<1>7. x = y
  BY <1>3, <1>4, <1>5, <1>6, Same
<1> QED BY <1>5, <1>7 DEF x, y

\* A write enabled, an instruction in parts, and a wait.
Instruction(t, s, d) ==
  Cat(Cat(Cat(Cat(Cat(Bus!writeEnable, <<Bus!csLow, t>>), s), d), <<Bus!csHigh>>), Bus!waitBusy)

\* Write enable, an instruction and a wait are frames: so each call is.
CallOf(w) == Cat(FrameOf(Enabling), Cat(FrameOf(w), FrameOf(Polling)))

LEMMA CallFramed ==
  ASSUME NEW w \in Seq(Transfers), NEW W, {Enabling, Polling, w} \subseteq W,
         W \subseteq Seq(Transfers)
  PROVE  Between(CallOf(w), W)
<1>1. /\ Between(FrameOf(Enabling), W) /\ Between(FrameOf(Polling), W)
      /\ Between(FrameOf(w), W)
  BY Sent, OneFrame
<1>2. Between(Cat(FrameOf(w), FrameOf(Polling)), W)
  BY <1>1, MoreFrames
<1> QED BY <1>1, <1>2, MoreFrames DEF CallOf

LEMMA InstructionIsCall ==
  ASSUME NEW t \in Transfers, NEW s \in Seq(Transfers), NEW d \in Seq(Transfers)
  PROVE  Instruction(t, s, d) = CallOf(Cat(Cat(<<t>>, s), d))
<1> DEFINE a == Bus!writeEnable
           l == <<Bus!csLow>>
           h == <<Bus!csHigh>>
           b == Bus!waitBusy
           u == <<t>>
           w == Cat(Cat(u, s), d)
<1>1. /\ a \in Seq(Steps) /\ b \in Seq(Steps) /\ l \in Seq(Steps) /\ h \in Seq(Steps)
      /\ u \in Seq(Steps) /\ s \in Seq(Steps) /\ d \in Seq(Steps)
  BY StepTypes, Enabled, Polled
<1>2. Cat(l, u) = <<Bus!csLow, t>>
  <2>1. t \in Steps /\ Bus!csLow \in Steps
    BY StepTypes
  <2> QED BY <2>1, Pair
<1>3. Instruction(t, s, d) = Cat(Cat(Cat(Cat(Cat(a, Cat(l, u)), s), d), h), b)
  BY <1>2 DEF Instruction
<1>4. FrameOf(w) = Cat(Cat(l, w), h)
  BY DEF FrameOf
<1> HIDE DEF a, b, l, h, u
<1>5. Cat(Cat(Cat(Cat(Cat(a, Cat(l, u)), s), d), h), b) = Cat(a, Cat(Cat(Cat(l, w), h), b))
  <2>1. Regrouped(a, l, u, s, d, h, b)
    BY <1>1, InFrames
  <2> QED BY <2>1 DEF Regrouped
<1>6. a = FrameOf(Enabling) /\ b = FrameOf(Polling)
  BY Enabled, Polled DEF a, b
<1> HIDE DEF w
<1>7. CallOf(w) = Cat(a, Cat(Cat(Cat(l, w), h), b))
  BY <1>4, <1>6 DEF CallOf
<1> QED BY <1>3, <1>5, <1>7 DEF w, u

LEMMA PageProgramIsCall ==
  ASSUME NEW addr \in Nat, NEW data \in Seq(Nat)
  PROVE  Bus!writePage(addr, data) = CallOf(Programming(addr, data))
<1> DEFINE t == Bus!transfer(Bus!PAGE_PROGRAM)
           s == Bus!sendAddress(addr)
           d == [i \in DOMAIN data |-> Bus!transfer(data[i])]
<1>1. t \in Transfers /\ s \in Seq(Transfers)
  BY AddressSent, Constituents DEF ThreeBytes, Bus!PAGE_PROGRAM
<1>2. d \in Seq(Transfers)
  <2>1. DOMAIN data = 1 .. Len(data) /\ Len(data) \in Nat
    OBVIOUS
  <2>2. \A i \in 1 .. Len(data) : Bus!transfer(data[i]) \in Transfers
    BY Constituents
  <2> QED BY <2>1, <2>2
<1>3. Programming(addr, data) = Cat(Cat(<<t>>, s), d)
  BY DEF Programming, Cat
<1>4. Bus!writePage(addr, data) = Instruction(t, s, d)
  BY DEF Bus!writePage, Instruction, Cat
<1> HIDE DEF t, s, d
<1> QED BY <1>1, <1>2, <1>3, <1>4, InstructionIsCall

LEMMA EraseIsCall ==
  ASSUME NEW addr \in Nat
  PROVE  Bus!eraseSector(addr) = CallOf(Erasing(addr))
<1> DEFINE t == Bus!transfer(Bus!SECTOR_ERASE)
           s == Bus!sendAddress(addr)
           e == <<>>
           x == Cat(Cat(Bus!writeEnable, <<Bus!csLow, t>>), s)
<1>1. t \in Transfers /\ s \in Seq(Transfers) /\ e \in Seq(Transfers)
  BY AddressSent, Constituents DEF ThreeBytes, Bus!SECTOR_ERASE
<1>2. Erasing(addr) = Cat(<<t>>, s)
  BY DEF Erasing, Cat
<1>3. Bus!eraseSector(addr) = Cat(Cat(x, <<Bus!csHigh>>), Bus!waitBusy)
  BY DEF Bus!eraseSector, Cat
<1>4. Instruction(t, s, e) = Cat(Cat(Cat(x, e), <<Bus!csHigh>>), Bus!waitBusy)
  BY DEF Instruction
<1>5. Cat(x, e) = x /\ Cat(Cat(<<t>>, s), e) = Cat(<<t>>, s)
  <2>1. \A z \in Seq(Steps) : Cat(z, e) = z
    BY DEF Cat
  <2>2. <<t>> \in Seq(Steps) /\ <<Bus!csLow, t>> \in Seq(Steps) /\ s \in Seq(Steps)
    BY <1>1, StepTypes
  <2> DEFINE u == <<t>>
             v == <<Bus!csLow, t>>
  <2> HIDE DEF s, e, u, v
  <2>3. Cat(Bus!writeEnable, v) \in Seq(Steps) /\ Cat(u, s) \in Seq(Steps)
    BY <2>2, Enabled, Cats DEF u, v
  <2>4. Cat(Cat(Bus!writeEnable, v), s) \in Seq(Steps)
    BY <2>2, <2>3, Cats
  <2> QED BY <2>1, <2>3, <2>4 DEF u, v
<1> HIDE DEF t, s, e, x
<1> QED BY <1>1, <1>2, <1>3, <1>4, <1>5, InstructionIsCall

LEMMA ReadIsFrame ==
  ASSUME NEW addr \in Nat
  PROVE  Bus!read(addr) = FrameOf(Reading(addr))
<1> DEFINE s == Bus!sendAddress(addr)
           t == Bus!transfer(Bus!READ_DATA)
           u == <<t>>
           l == <<Bus!csLow>>
           m == <<Bus!takeMagic>>
           h == <<Bus!csHigh>>
<1>1. /\ s \in Seq(Steps) /\ u \in Seq(Steps) /\ l \in Seq(Steps) /\ m \in Seq(Steps)
      /\ h \in Seq(Steps)
  <2>1. s \in Seq(Transfers)
    BY AddressSent DEF ThreeBytes
  <2>2. t \in Steps /\ Bus!takeMagic \in Steps
    BY Constituents, StepTypes DEF Bus!READ_DATA
  <2> HIDE DEF s, t
  <2> QED BY <2>1, <2>2, StepTypes
<1>2. Cat(l, u) = <<Bus!csLow, t>> /\ Cat(m, h) = <<Bus!takeMagic, Bus!csHigh>>
  <2>1. t \in Steps /\ Bus!takeMagic \in Steps /\ Bus!csLow \in Steps /\ Bus!csHigh \in Steps
    BY Constituents, StepTypes DEF Bus!READ_DATA
  <2> HIDE DEF t
  <2> QED BY <2>1, Pair
<1>3. Bus!read(addr) = Cat(Cat(Cat(l, u), s), Cat(m, h))
  BY <1>2 DEF Cat, Bus!read
<1>4. Reading(addr) = Cat(Cat(u, s), m)
  BY DEF Reading, Cat
<1>5. FrameOf(Reading(addr)) = Cat(Cat(l, Reading(addr)), h)
  BY DEF FrameOf
<1> HIDE DEF s, t, u, l, m, h
<1> DEFINE v == Cat(u, s)
<1>6. v \in Seq(Steps) /\ Cat(Cat(l, u), s) = Cat(l, v)
  BY <1>1, Associates, Cats
<1> HIDE DEF v
<1>7. Cat(l, v) \in Seq(Steps) /\ Cat(l, Cat(v, m)) = Cat(Cat(l, v), m)
  BY <1>1, <1>6, Associates, Cats
<1>8. Cat(Cat(l, v), Cat(m, h)) = Cat(Cat(Cat(l, v), m), h)
  BY <1>1, <1>7, Associates
<1> QED BY <1>3, <1>4, <1>5, <1>6, <1>7, <1>8 DEF v

LEMMA ReadFramed ==
  ASSUME NEW addr \in Nat, NEW W, W \subseteq Seq(Transfers), Reading(addr) \in W
  PROVE  Between(Bus!read(addr), W) /\ Bus!read(addr) # <<>>
<1>1. Reading(addr) \in Seq(Transfers)
  OBVIOUS
<1>2. FrameOf(Reading(addr)) # <<>>
  <2> DEFINE f == FrameOf(Reading(addr))
  <2>1. f \in Seq(Steps) /\ Len(f) = Len(Reading(addr)) + 2 /\ Len(Reading(addr)) \in Nat
    BY <1>1, FrameParts
  <2> HIDE DEF f
  <2>2. f # <<>>
    BY <2>1
  <2> QED BY <2>2 DEF f
<1> QED BY <1>1, <1>2, ReadIsFrame, OneFrame

-----------------------------------------------------------------------------
\* What the flash holds: no cell has a byte of ones programmed into it.
Flash == [mem : [Cells -> SUBSET (Nat \ {Bus!Ones})], wel : BOOLEAN, busy : BOOLEAN]

\* What the calls of an operation send.
Frames(o, n, c) ==
  {w \in Seq(Transfers) :
     \/ w \in {Enabling, Polling} /\ o.kind # "find"
     \/ o.kind = "erase" /\ w = Erasing(o.addr)
     \/ o.kind = "program" /\ w = Programming(o.addr, Bus!LogEntry(n))
     \/ o.kind = "find" /\ w = Reading(o.addr)
     \/ o.kind = "record" /\ w = Programming(o.addr, Bus!CrashEntry(c))
     \/ o.kind = "record" /\ o.addr = Bus!SlotAddr(0) /\ w = Erasing(Bus!CrashSector)}

\* The bytes of a frame, and what the flash has heard of it.
Bytes(w, n) == [i \in 1 .. n |-> w[i].byte]
Put1 == IF inFlight /\ ~Bus!InHandler THEN 1 ELSE 0
Follows(seen, w, n) ==
  \/ seen \in {Bus!Ignored, <<Bus!READ_STATUS>>}
  \/ seen = Bytes(w, n) /\ (w = Polling => n = 0)
Heard(w, k) == Follows(frame, w, k + Put1) \/ (op.kind = "find" /\ Len(frame) >= k)

Types ==
  /\ flash \in Flash /\ cs \in {"low", "high"} /\ frame \in Seq(Nat) /\ inFlight \in BOOLEAN
  /\ op \in [kind : {"none", "erase", "program", "find", "record"}, addr : Nat]
  /\ writeAddr \in Nat /\ entryCount \in Nat /\ crash \in Nat

InPlace ==
  /\ \E start \in Starts \cup {Bus!FLASH_BLACKBOX_ADDR} :
       writeAddr = start + (entryCount * EntryBytes)
  /\ op.kind = "none" => script = <<>>
  /\ op.kind \in {"erase", "program"} => op.addr = writeAddr /\ entryCount < MaxEntries

BetweenFrames ==
  /\ Between(script, Frames(op, entryCount, crash))
  /\ op.kind # "find" \/ script = <<>> => cs = "high"
  /\ ~Bus!InHandler => ~inFlight

WithinFrame(w, k) ==
  /\ Within(script, Frames(op, entryCount, crash), w, k)
  /\ k + Put1 <= Len(w)
  /\ cs = "low" => Heard(w, k)

InACall == BetweenFrames \/ \E w, k : WithinFrame(w, k)

BusInv == Types /\ InPlace /\ InACall

\* The numbers of the instructions and places.
LEMMA Numbers ==
  /\ Bus!Ones = 255 /\ Bus!READ_STATUS = 5 /\ Bus!WRITE_ENABLE = 6 /\ Bus!PAGE_PROGRAM = 2
  /\ Bus!READ_DATA = 3 /\ Bus!SECTOR_ERASE = 32 /\ Bus!Magic = 173
  /\ Bus!CrashSector = 4096 /\ Bus!FLASH_BLACKBOX_ADDR = 8192 /\ Bus!SlotAddr(0) = 4100
BY DEF Bus!Ones, Bus!READ_STATUS, Bus!WRITE_ENABLE, Bus!PAGE_PROGRAM, Bus!READ_DATA,
       Bus!SECTOR_ERASE, Bus!Magic, Bus!CrashSector, Bus!FLASH_BLACKBOX_ADDR, Bus!SlotAddr

\* What is written.
LEMMA Entries ==
  ASSUME Assumed
  PROVE  /\ \A n \in Nat : Bus!LogEntry(n) \in Seq(Nat) /\ Len(Bus!LogEntry(n)) = EntryBytes
         /\ \A c \in Nat : Bus!CrashEntry(c) \in Seq(Nat)
<1>1. EntryBytes \in Nat
  BY DEF Assumed, Bus!BusAssumption
<1>2. \A n \in Nat : Bus!LogEntry(n) \in Seq(Nat) /\ Len(Bus!LogEntry(n)) = EntryBytes
  BY <1>1 DEF Bus!LogEntry
<1>3. \A c \in Nat : Bus!CrashEntry(c) \in Seq(Nat)
  BY Numbers DEF Bus!CrashEntry
<1> QED BY <1>2, <1>3

\* What the flash does at the end of a frame.
LEMMA AddressHeard ==
  ASSUME NEW seen \in Seq(Nat), Len(seen) >= 4
  PROVE  Bus!AddressIn(seen) \in Nat
BY DEF Bus!AddressIn

\* A page program only adds bytes to cells, those of its data, and none that is all ones.
LEMMA StoredType ==
  ASSUME NEW mem \in [Cells -> SUBSET (Nat \ {Bus!Ones})], NEW addr \in Nat, NEW data \in Seq(Nat),
         Assumed
  PROVE  /\ Bus!Stored(mem, addr, data) \in [Cells -> SUBSET (Nat \ {Bus!Ones})]
         /\ \A a \in Cells : mem[a] \subseteq Bus!Stored(mem, addr, data)[a]
         /\ \A a \in Cells : \A x :
              x \in Bus!Stored(mem, addr, data)[a] /\ x \notin mem[a] =>
                \E i \in 0 .. Len(data) - 1 :
                  Bus!Target(addr, i) = a /\ data[i + 1] = x /\ x # Bus!Ones
<1> DEFINE len == IF Len(data) > PageWords THEN PageWords ELSE Len(data)
           words(a) == {data[i + 1] : i \in {j \in 0 .. len - 1 : Bus!Target(addr, j) = a}}
           s == Bus!Stored(mem, addr, data)
<1>1. len \in Nat /\ len <= Len(data)
  BY DEF Assumed, Bus!FlashAssumption
<1>2. \A a \in Cells : Bus!Program(mem, addr, data)[a] = mem[a] \cup words(a)
  BY DEF Bus!Program
<1>3. \A a \in Cells : words(a) \subseteq Nat
  BY <1>1
<1>4. s \in [Cells -> SUBSET (Nat \ {Bus!Ones})]
      /\ \A a \in Cells : s[a] = mem[a] \/ s[a] = (mem[a] \cup words(a)) \ {Bus!Ones}
  <2> DEFINE v(a) == IF \E i \in DOMAIN data : Bus!Target(addr, i - 1) = a
                       THEN Bus!Program(mem, addr, data)[a] \ {Bus!Ones} ELSE mem[a]
  <2>1. s = [a \in Cells |-> v(a)]
    BY DEF Bus!Stored
  <2>2. \A a \in Cells : v(a) = mem[a] \/ v(a) = (mem[a] \cup words(a)) \ {Bus!Ones}
    <3> HIDE DEF words
    <3> QED BY <1>2
  <2> HIDE DEF words, s, len, v
  <2>3. \A a \in Cells : mem[a] \in SUBSET (Nat \ {Bus!Ones})
    OBVIOUS
  <2>4. \A a \in Cells : v(a) \in SUBSET (Nat \ {Bus!Ones})
    BY <1>3, <2>2, <2>3
  <2> QED BY <2>1, <2>2, <2>4
<1>5. \A a \in Cells : mem[a] \subseteq s[a]
  <2> HIDE DEF words, s
  <2> QED BY <1>4
<1>6. ASSUME NEW a \in Cells, NEW x, x \in s[a], x \notin mem[a]
      PROVE  \E i \in 0 .. Len(data) - 1 :
               Bus!Target(addr, i) = a /\ data[i + 1] = x /\ x # Bus!Ones
  <2>1. x \in words(a) /\ x # Bus!Ones
    <3> HIDE DEF words, s
    <3> QED BY <1>4, <1>6
  <2>2. PICK i \in 0 .. len - 1 : Bus!Target(addr, i) = a /\ data[i + 1] = x
    BY <2>1
  <2>3. i \in 0 .. Len(data) - 1
    BY <1>1, <2>2
  <2> QED BY <2>1, <2>2, <2>3
<1> HIDE DEF s
<1> QED BY <1>4, <1>5, <1>6 DEF s

\* g is f after a frame with these bytes: only these sectors and cells have changed.
OnlyErases(f, g, seen) ==
  \A a \in Cells : g.mem[a] = Bus!Erased /\ f.mem[a] # Bus!Erased =>
    /\ Len(seen) = 4 /\ seen[1] = Bus!SECTOR_ERASE
    /\ a \div SectorWords = Bus!AddressIn(seen) \div SectorWords

OnlyPrograms(f, g, seen) ==
  \A a \in Cells : ~(g.mem[a] \subseteq f.mem[a]) =>
    /\ Len(seen) > 4 /\ seen[1] = Bus!PAGE_PROGRAM
    /\ \E i \in 0 .. Len(seen) - 5 :
         Bus!Target(Bus!AddressIn(seen), i) = a /\ seen[5 + i] # Bus!Ones

\* The end of a frame changes what these two say and nothing else.
LEMMA LatchedFacts ==
  ASSUME Assumed, NEW f \in Flash, NEW seen \in Seq(Nat)
  PROVE  /\ Bus!Latched(f, seen) \in Flash
         /\ OnlyErases(f, Bus!Latched(f, seen), seen)
         /\ OnlyPrograms(f, Bus!Latched(f, seen), seen)
<1> DEFINE g == Bus!Latched(f, seen)
           addr == Bus!AddressIn(seen)
           enables == seen = <<Bus!WRITE_ENABLE>>
           erases == f.wel /\ Len(seen) = 4 /\ seen[1] = Bus!SECTOR_ERASE
           programs == f.wel /\ Len(seen) > 4 /\ seen[1] = Bus!PAGE_PROGRAM
           data == SubSeq(seen, 5, Len(seen))
           Mem == [Cells -> SUBSET (Nat \ {Bus!Ones})]
<1>1. f.mem \in Mem /\ f.wel \in BOOLEAN /\ f.busy \in BOOLEAN
  BY DEF Flash
<1>2. CASE g.mem = f.mem /\ g \in Flash
  BY <1>2 DEF OnlyErases, OnlyPrograms
<1>3. CASE ~enables /\ erases
  <2>1. g = [mem |-> Bus!EraseSector(f.mem, addr), wel |-> FALSE, busy |-> TRUE]
    BY <1>3 DEF Bus!Latched
  <2> DEFINE m == Bus!EraseSector(f.mem, addr)
  <2>2. m \in Mem
        /\ \A a \in Cells : \/ m[a] = f.mem[a]
                            \/ m[a] = {} /\ a \div SectorWords = addr \div SectorWords
    BY <1>1 DEF Bus!EraseSector, Bus!Erased
  <2> HIDE DEF m, g, addr
  <2>3. g \in Flash /\ g.mem = m
    BY <2>1, <2>2 DEF Flash, m
  <2>4. OnlyErases(f, g, seen)
    BY <1>3, <2>2, <2>3 DEF OnlyErases, Bus!Erased, addr
  <2>5. OnlyPrograms(f, g, seen)
    BY <2>2, <2>3 DEF OnlyPrograms
  <2> QED BY <2>3, <2>4, <2>5 DEF g
<1>4. CASE ~enables /\ ~erases /\ programs
  <2>1. g = [mem |-> Bus!Stored(f.mem, addr, data), wel |-> FALSE, busy |-> TRUE]
    BY <1>4 DEF Bus!Latched
  <2>2. addr \in Nat
    BY <1>4, AddressHeard
  <2>3. data \in Seq(Nat) /\ Len(data) = Len(seen) - 4
        /\ \A i \in 0 .. Len(seen) - 5 : data[i + 1] = seen[5 + i]
    BY <1>4
  <2> DEFINE m == Bus!Stored(f.mem, addr, data)
  <2> HIDE DEF data
  <2>4. /\ m \in Mem /\ \A a \in Cells : f.mem[a] \subseteq m[a]
        /\ \A a \in Cells : \A x :
             x \in m[a] /\ x \notin f.mem[a] =>
               \E i \in 0 .. Len(data) - 1 :
                 Bus!Target(addr, i) = a /\ data[i + 1] = x /\ x # Bus!Ones
    BY <1>1, <2>2, <2>3, StoredType
  <2> HIDE DEF m, g
  <2>5. g \in Flash /\ g.mem = m
    BY <2>1, <2>4 DEF Flash, m
  <2>6. OnlyErases(f, g, seen)
    BY <2>4, <2>5 DEF OnlyErases, Bus!Erased
  <2>7. OnlyPrograms(f, g, seen)
    <3> SUFFICES ASSUME NEW a \in Cells, ~(g.mem[a] \subseteq f.mem[a])
                 PROVE  /\ Len(seen) > 4 /\ seen[1] = Bus!PAGE_PROGRAM
                        /\ \E i \in 0 .. Len(seen) - 5 :
                             Bus!Target(Bus!AddressIn(seen), i) = a /\ seen[5 + i] # Bus!Ones
      BY DEF OnlyPrograms
    <3>1. PICK x : x \in m[a] /\ x \notin f.mem[a]
      BY <2>5
    <3>2. PICK i \in 0 .. Len(data) - 1 :
            Bus!Target(addr, i) = a /\ data[i + 1] = x /\ x # Bus!Ones
      BY <2>4, <3>1
    <3>3. i \in 0 .. Len(seen) - 5 /\ seen[5 + i] # Bus!Ones
      BY <2>3, <3>2
    <3> QED BY <1>4, <3>2, <3>3
  <2> QED BY <2>5, <2>6, <2>7 DEF g
<1>5. CASE enables \/ (~erases /\ ~programs)
  <2>1. g = [f EXCEPT !.wel = TRUE] \/ g = f
    <3>1. CASE enables
      BY <3>1 DEF Bus!Latched
    <3>2. CASE ~enables /\ ~erases /\ ~programs
      BY <3>2 DEF Bus!Latched
    <3> QED BY <1>5, <3>1, <3>2
  <2> HIDE DEF g
  <2>2. g.mem = f.mem /\ g \in Flash
    BY <2>1 DEF Flash
  <2> QED BY <1>2, <2>2 DEF g
<1> QED BY <1>3, <1>4, <1>5

\* What the frames of an operation begin with, and which one polls.
LEMMA FrameKinds ==
  ASSUME Assumed, NEW o, NEW n \in Nat, NEW c \in Nat, NEW w \in Frames(o, n, c), o.addr \in Nat
  PROVE  /\ w \in Seq(Transfers) /\ Len(w) >= 1
         /\ \A i \in 1 .. Len(w) : w[i].do = "poll" => w = Polling /\ i = 2
         /\ w[1].byte = Bus!SECTOR_ERASE =>
              \/ o.kind = "erase" /\ w = Erasing(o.addr)
              \/ o.addr = Bus!SlotAddr(0) /\ o.kind = "record" /\ w = Erasing(Bus!CrashSector)
         /\ w[1].byte = Bus!PAGE_PROGRAM =>
              \/ o.kind = "program" /\ w = Programming(o.addr, Bus!LogEntry(n))
              \/ o.kind = "record"
         /\ o.kind = "find" => w = Reading(o.addr)
<1>1. w \in Seq(Transfers)
  BY DEF Frames
<1>2. CASE w = Enabling /\ o.kind # "find"
  BY <1>1, <1>2, Sent, StepKinds, Numbers
<1>3. CASE w = Polling /\ o.kind # "find"
  <2>1. Len(w) = 2 /\ w[1] = Bus!transfer(Bus!READ_STATUS)
    BY <1>3, Sent
  <2>2. w[1].do = "byte" /\ w[1].byte = 5
    BY <2>1, StepKinds, Numbers
  <2> QED BY <1>1, <1>3, <2>1, <2>2, Numbers
<1>4. ASSUME NEW addr \in Nat, w = Erasing(addr)
      PROVE  /\ Len(w) >= 1 /\ w[1].byte = Bus!SECTOR_ERASE
             /\ \A i \in 1 .. Len(w) : w[i].do = "byte"
  <2>1. Instructs(w, Bus!transfer(Bus!SECTOR_ERASE), addr) /\ Len(w) = 4
    BY <1>4, ErasingSent
  <2>2. w[1].byte = Bus!SECTOR_ERASE
        /\ w[1].do = "byte" /\ w[2].do = "byte" /\ w[3].do = "byte" /\ w[4].do = "byte"
    BY <2>1, StepKinds DEF Instructs
  <2> QED BY <2>1, <2>2
<1>5. ASSUME NEW addr \in Nat, NEW data \in Seq(Nat), w = Programming(addr, data)
      PROVE  /\ Len(w) >= 1 /\ w[1].byte = Bus!PAGE_PROGRAM
             /\ \A i \in 1 .. Len(w) : w[i].do = "byte"
  <2>1. /\ Instructs(w, Bus!transfer(Bus!PAGE_PROGRAM), addr) /\ Len(w) = 4 + Len(data)
        /\ \A j \in 1 .. Len(data) : w[4 + j] = Bus!transfer(data[j])
    BY <1>5, ProgrammingSent
  <2>2. w[1].byte = Bus!PAGE_PROGRAM
        /\ w[1].do = "byte" /\ w[2].do = "byte" /\ w[3].do = "byte" /\ w[4].do = "byte"
    BY <2>1, StepKinds DEF Instructs
  <2>3. \A i \in 1 .. Len(w) : w[i].do = "byte"
    <3> TAKE i \in 1 .. Len(w)
    <3>1. CASE i > 4
      <4>1. i - 4 \in 1 .. Len(data) /\ 4 + (i - 4) = i
        BY <2>1, <3>1
      <4>2. w[4 + (i - 4)] = Bus!transfer(data[i - 4])
        BY <2>1, <4>1
      <4> QED BY <4>1, <4>2, StepKinds
    <3> QED BY <2>2, <3>1
  <2> QED BY <2>1, <2>2, <2>3
<1>6. CASE o.kind = "find" /\ w = Reading(o.addr)
  <2>1. Instructs(w, Bus!transfer(Bus!READ_DATA), o.addr) /\ Len(w) = 5 /\ w[5] = Bus!takeMagic
    BY <1>6, ReadingSent
  <2>2. w[1].byte = 3 /\ w[1].do = "byte" /\ w[2].do = "byte" /\ w[3].do = "byte"
        /\ w[4].do = "byte" /\ w[5].do = "take"
    BY <2>1, StepKinds, Numbers DEF Instructs, Bus!takeMagic
  <2> QED BY <1>1, <1>6, <2>1, <2>2, Numbers
<1>7. CASE o.kind = "erase" /\ w = Erasing(o.addr)
  BY <1>1, <1>4, <1>7, Numbers
<1>8. CASE o.kind = "program" /\ w = Programming(o.addr, Bus!LogEntry(n))
  <2>1. Len(w) >= 1 /\ w[1].byte = 2 /\ \A i \in 1 .. Len(w) : w[i].do = "byte"
    <3>1. Bus!LogEntry(n) \in Seq(Nat)
      BY Entries
    <3>2. /\ Len(w) >= 1 /\ w[1].byte = Bus!PAGE_PROGRAM
          /\ \A i \in 1 .. Len(w) : w[i].do = "byte"
      BY <1>5, <1>8, <3>1
    <3> QED BY <3>2, Numbers
  <2> QED BY <1>1, <1>8, <2>1, Numbers
<1>9. CASE o.kind = "record" /\ w = Programming(o.addr, Bus!CrashEntry(c))
  <2>1. Len(w) >= 1 /\ w[1].byte = 2 /\ \A i \in 1 .. Len(w) : w[i].do = "byte"
    <3>1. Bus!CrashEntry(c) \in Seq(Nat)
      BY Entries
    <3>2. /\ Len(w) >= 1 /\ w[1].byte = Bus!PAGE_PROGRAM
          /\ \A i \in 1 .. Len(w) : w[i].do = "byte"
      BY <1>5, <1>9, <3>1
    <3> QED BY <3>2, Numbers
  <2> QED BY <1>1, <1>9, <2>1, Numbers
<1>10. CASE o.kind = "record" /\ o.addr = Bus!SlotAddr(0) /\ w = Erasing(Bus!CrashSector)
  <2>1. Len(w) >= 1 /\ w[1].byte = 32 /\ \A i \in 1 .. Len(w) : w[i].do = "byte"
    BY <1>4, <1>10, Numbers
  <2> QED BY <1>1, <1>10, <2>1, Numbers
<1> QED BY <1>2, <1>3, <1>6, <1>7, <1>8, <1>9, <1>10 DEF Frames

\* What the flash hears of a frame.
LEMMA BytesFacts ==
  ASSUME NEW w \in Seq(Transfers), NEW n \in 0 .. Len(w)
  PROVE  /\ Bytes(w, n) \in Seq(Nat) /\ Len(Bytes(w, n)) = n
         /\ \A i \in 1 .. n : Bytes(w, n)[i] = w[i].byte
         /\ n < Len(w) => /\ w[n + 1].byte \in Nat
                          /\ Append(Bytes(w, n), w[n + 1].byte) = Bytes(w, n + 1)
<1>1. \A i \in 1 .. Len(w) : w[i].byte \in Nat
  <2>1. \A i \in 1 .. Len(w) : w[i] \in Transfers
    OBVIOUS
  <2> QED BY <2>1, StepKinds
<1> DEFINE v(i) == w[i].byte
           x == [i \in 1 .. n |-> v(i)]
<1>2. \A i \in 1 .. Len(w) : v(i) \in Nat
  BY <1>1
<1>3. x = Bytes(w, n) /\ n \in Nat /\ n <= Len(w) /\ Len(w) \in Nat
  BY DEF Bytes
<1> HIDE DEF v
<1>4. x \in Seq(Nat) /\ Len(x) = n /\ \A i \in 1 .. n : x[i] = v(i)
  BY <1>2, <1>3
<1>5. ASSUME n < Len(w)
      PROVE  v(n + 1) \in Nat /\ Append(x, v(n + 1)) = [i \in 1 .. n + 1 |-> v(i)]
  <2> DEFINE y == Append(x, v(n + 1))
             z == [i \in 1 .. n + 1 |-> v(i)]
             b == v(n + 1)
  <2>1. b \in Nat /\ \A i \in 1 .. n + 1 : v(i) \in Nat
    BY <1>2, <1>3, <1>5
  <2>2. z \in Seq(Nat) /\ Len(z) = n + 1 /\ \A i \in 1 .. n + 1 : z[i] = v(i)
    BY <1>3, <2>1
  <2> HIDE DEF x, z
  <2>3. y \in Seq(Nat) /\ Len(y) = n + 1 /\ \A i \in 1 .. n + 1 : y[i] = v(i)
    <3> HIDE DEF b
    <3>1. Append(x, b) \in Seq(Nat) /\ Len(Append(x, b)) = n + 1
          /\ Append(x, b)[n + 1] = b /\ \A i \in 1 .. n : Append(x, b)[i] = x[i]
      BY <1>3, <1>4, <2>1
    <3> QED BY <1>3, <1>4, <3>1 DEF b
  <2> HIDE DEF y
  <2>4. y = z
    BY <2>2, <2>3, Same
  <2> QED BY <2>1, <2>4 DEF y, z
<1> QED BY <1>3, <1>4, <1>5 DEF v, Bytes

\* The flash ignores the frame, is asked for its status, or hears one more byte.
LEMMA ReceivedFacts ==
  ASSUME NEW f, NEW seen \in Seq(Nat), NEW byte \in Nat
  PROVE  /\ Bus!Received(f, seen, byte) \in Seq(Nat)
         /\ \/ Bus!Received(f, seen, byte) \in {Bus!Ignored, <<Bus!READ_STATUS>>}
            \/ Bus!Received(f, seen, byte) = Append(seen, byte)
         /\ seen \in {Bus!Ignored, <<Bus!READ_STATUS>>} => Bus!Received(f, seen, byte) = seen
<1>1. Bus!Ignored \in Seq(Nat) /\ Bus!Ignored # <<>> /\ <<Bus!READ_STATUS>> # <<>>
      /\ <<Bus!READ_STATUS>> \in Seq(Nat)
  BY Numbers DEF Bus!Ignored
<1>2. Append(seen, byte) \in Seq(Nat)
  OBVIOUS
<1>3. \/ Bus!Received(f, seen, byte) \in {Bus!Ignored, <<Bus!READ_STATUS>>}
      \/ Bus!Received(f, seen, byte) = Append(seen, byte)
  BY DEF Bus!Received
<1>4. seen \in {Bus!Ignored, <<Bus!READ_STATUS>>} => Bus!Received(f, seen, byte) = seen
  BY <1>1 DEF Bus!Received
<1> QED BY <1>1, <1>2, <1>3, <1>4

\* Hearing the next byte of a frame, it still follows.
LEMMA ByteHeard ==
  ASSUME NEW f, NEW w \in Seq(Transfers), NEW n \in 0 .. Len(w) - 1, NEW seen \in Seq(Nat),
         Follows(seen, w, n)
  PROVE  /\ Follows(Bus!Received(f, seen, w[n + 1].byte), w, n + 1)
<1> DEFINE b == w[n + 1].byte
           r == Bus!Received(f, seen, b)
<1>1. b \in Nat /\ Append(Bytes(w, n), b) = Bytes(w, n + 1)
  <2>1. n \in 0 .. Len(w) /\ n < Len(w)
    OBVIOUS
  <2> QED BY <2>1, BytesFacts
<1>2. r \in {Bus!Ignored, <<Bus!READ_STATUS>>} \/ r = Append(seen, b)
  <2> HIDE DEF b
  <2> QED BY <1>1, ReceivedFacts
<1>3. CASE r \in {Bus!Ignored, <<Bus!READ_STATUS>>}
  BY <1>3 DEF Follows
<1>4. CASE r \notin {Bus!Ignored, <<Bus!READ_STATUS>>}
  <2>1. seen \notin {Bus!Ignored, <<Bus!READ_STATUS>>}
    BY <1>1, <1>4, ReceivedFacts
  <2>2. seen = Bytes(w, n) /\ (w = Polling => n = 0) /\ r = Append(seen, b)
    BY <1>2, <1>4, <2>1 DEF Follows
  <2>3. w # Polling
    <3> SUFFICES ASSUME w = Polling PROVE FALSE
      OBVIOUS
    <3>1. n = 0 /\ w[1] = Bus!transfer(Bus!READ_STATUS)
      BY <2>2, Sent
    <3>2. b = Bus!READ_STATUS
      BY <3>1, StepKinds
    <3>3. seen = <<>>
      BY <2>2, <3>1, BytesFacts
    <3>4. r = <<Bus!READ_STATUS>>
      BY <2>2, <3>2, <3>3
    <3> QED BY <1>4, <3>4
  <2>4. r = Bytes(w, n + 1)
    BY <1>1, <2>2
  <2> HIDE DEF r
  <2> QED BY <2>3, <2>4 DEF Follows, r
<1> QED BY <1>3, <1>4

-----------------------------------------------------------------------------
\* Where the script is when a byte is the next step, and when the chip select is to rise.
Sending(w, k) ==
  /\ WithinFrame(w, k) /\ w \in Seq(Transfers) /\ w \in Frames(op, entryCount, crash)
  /\ k \in 0 .. Len(w) - 1 /\ Head(script) = w[k + 1]
  /\ Within(Tail(script), Frames(op, entryCount, crash), w, k + 1)

LEMMA FramesAreTransfers ==
  \A o, n, c : Frames(o, n, c) \subseteq Seq(Transfers)
BY DEF Frames

\* When the next step is a transfer, the script is within a frame.
LEMMA ByteNext ==
  ASSUME BusInv, Bus!NextStep({"byte", "poll", "take"})
  PROVE  \E w, k : Sending(w, k)
<1> DEFINE W == Frames(op, entryCount, crash)
<1>1. script # <<>> /\ Head(script).do \in {"byte", "poll", "take"} /\ W \subseteq Seq(Transfers)
  BY FramesAreTransfers DEF Bus!NextStep
<1>2. Head(script) # Bus!csLow /\ Head(script) # Bus!csHigh
  BY <1>1, StepKinds
<1> HIDE DEF W
<1>3. ~BetweenFrames
  <2>1. ~Between(script, W)
    BY <1>1, <1>2, Falls
  <2> QED BY <2>1 DEF BetweenFrames, W
<1>4. PICK w, k : WithinFrame(w, k)
  BY <1>3 DEF BusInv, InACall
<1>5. Within(script, W, w, k)
  BY <1>4 DEF WithinFrame, W
<1>6. k # Len(w)
  BY <1>1, <1>2, <1>5, Rises
<1>7. w \in Seq(Transfers) /\ w \in W /\ k \in 0 .. Len(w) - 1
  BY <1>1, <1>5, <1>6 DEF Within
<1>8. Head(script) = w[k + 1] /\ Within(Tail(script), W, w, k + 1)
  <2>1. k < Len(w)
    BY <1>7
  <2> QED BY <1>1, <1>5, <2>1, Sends
<1>9. Sending(w, k)
  BY <1>4, <1>7, <1>8 DEF Sending, W
<1> QED BY <1>9

\* The steps of the logger and the handler, one by one.
LEMMA PutStep ==
  ASSUME Assumed, BusInv, Bus!Put
  PROVE  BusInv'
<1>1. /\ Bus!NextStep({"byte", "poll", "take"}) /\ ~Bus!InHandler /\ inFlight = FALSE
      /\ inFlight' = TRUE /\ Bus!OnBus(Head(script).byte)
      /\ UNCHANGED <<flash, cs, op, script, writeAddr, entryCount, crash>>
  BY DEF Bus!Put, Bus!NextStep, BusInv, Types
<1>2. PICK w, k : Sending(w, k)
  BY <1>1, ByteNext
<1>3. /\ WithinFrame(w, k) /\ w \in Seq(Transfers) /\ k \in 0 .. Len(w) - 1
      /\ Head(script) = w[k + 1] /\ w[k + 1].byte \in Nat
  <2>1. w[k + 1] \in Transfers
    BY <1>2 DEF Sending
  <2> QED BY <1>2, <2>1, StepKinds DEF Sending
<1>4. frame \in Seq(Nat) /\ Put1 = 0 /\ Put1' = 1 /\ op.kind # "find" /\ k + 0 = k
  BY <1>1, <1>3 DEF BusInv, Types, Put1, Bus!InHandler
<1>5. frame' \in Seq(Nat)
  BY <1>1, <1>3, <1>4, ReceivedFacts DEF Bus!OnBus
<1>6. cs = "low" => Follows(frame', w, k + 1)
  <2> SUFFICES ASSUME cs = "low" PROVE Follows(frame', w, k + 1)
    OBVIOUS
  <2>1. Follows(frame, w, k)
    BY <1>3, <1>4 DEF WithinFrame, Heard
  <2>2. frame' = Bus!Received(flash, frame, w[k + 1].byte)
    BY <1>1, <1>3 DEF Bus!OnBus
  <2> QED BY <1>3, <1>4, <2>1, <2>2, ByteHeard
<1>7. WithinFrame(w, k)'
  <2>1. Within(script, Frames(op, entryCount, crash), w, k)'
    BY <1>1, <1>3 DEF WithinFrame
  <2>2. k + 1 <= Len(w)
    BY <1>3
  <2> QED BY <1>1, <1>4, <1>6, <2>1, <2>2 DEF WithinFrame, Heard
<1>8. Types' /\ InPlace'
  BY <1>1, <1>5 DEF BusInv, Types, InPlace
<1> QED BY <1>7, <1>8 DEF BusInv, InACall

\* A step within a frame that goes on, or sends the same byte again.
LEMMA ReplyRead ==
  ASSUME Assumed, BusInv, NEW w, NEW k, Sending(w, k), Bus!AfterReply,
         UNCHANGED <<op, entryCount, crash>>
  PROVE  \/ /\ Within(script, Frames(op, entryCount, crash), w, k + 1)'
            /\ script' = Tail(script)
         \/ /\ Within(script, Frames(op, entryCount, crash), w, k)'
            /\ script' = script /\ w = Polling /\ k = 1
<1>1. /\ Within(script, Frames(op, entryCount, crash), w, k)
      /\ Within(Tail(script), Frames(op, entryCount, crash), w, k + 1)
      /\ k \in 0 .. Len(w) - 1 /\ Head(script) = w[k + 1] /\ w \in Frames(op, entryCount, crash)
  BY DEF Sending, WithinFrame
<1>2. script' = Tail(script) \/ (script' = script /\ Head(script).do = "poll")
  BY DEF Bus!AfterReply
<1>3. CASE script' = Tail(script)
  BY <1>1, <1>3
<1>4. CASE script' = script /\ Head(script).do = "poll"
  <2>1. op.addr \in Nat /\ entryCount \in Nat /\ crash \in Nat
    BY DEF BusInv, Types
  <2>2. k + 1 \in 1 .. Len(w) /\ w[k + 1].do = "poll"
    BY <1>1, <1>4
  <2>3. w = Polling /\ k + 1 = 2
    BY <1>1, <2>1, <2>2, FrameKinds
  <2> QED BY <1>1, <1>4, <2>3
<1> QED BY <1>2, <1>3, <1>4

LEMMA GetStep ==
  ASSUME Assumed, BusInv, Bus!Get
  PROVE  BusInv'
<1>1. /\ ~Bus!InHandler /\ inFlight = TRUE /\ inFlight' = FALSE /\ Bus!AfterReply
      /\ UNCHANGED <<flash, cs, frame, op, writeAddr, entryCount, crash>>
  BY DEF Bus!Get, BusInv, Types
<1>2. ~BetweenFrames
  BY <1>1 DEF BetweenFrames
<1>3. Bus!NextStep({"byte", "poll", "take"})
  <2>1. PICK w, k : WithinFrame(w, k)
    BY <1>2 DEF BusInv, InACall
  <2>2. Within(script, Frames(op, entryCount, crash), w, k) /\ k + 1 <= Len(w)
    BY <1>1, <2>1 DEF WithinFrame, Put1
  <2>3. k \in 0 .. Len(w) /\ w \in Seq(Transfers)
    BY <2>2, FramesAreTransfers DEF Within
  <2>4. k < Len(w)
    BY <2>2, <2>3
  <2>5. script # <<>> /\ Head(script) \in Transfers
    BY <2>2, <2>4, FramesAreTransfers, Sends
  <2> QED BY <2>5, StepKinds DEF Bus!NextStep
<1>4. PICK w, k : Sending(w, k)
  BY <1>3, ByteNext
<1>5. Put1 = 1 /\ Put1' = 0 /\ op.kind # "find"
  BY <1>1 DEF Put1, Bus!InHandler
<1>6. /\ WithinFrame(w, k) /\ k \in 0 .. Len(w) - 1 /\ (cs = "low" => Follows(frame, w, k + 1))
  BY <1>4, <1>5 DEF Sending, WithinFrame, Heard
<1>7. \E j : WithinFrame(w, j)'
  <2>1. CASE Within(script, Frames(op, entryCount, crash), w, k + 1)'
    <3>1. (k + 1) + 0 = k + 1 /\ k + 1 <= Len(w)
      BY <1>6
    <3>2. WithinFrame(w, k + 1)'
      BY <1>1, <1>5, <1>6, <2>1, <3>1 DEF WithinFrame, Heard
    <3> QED BY <3>2
  <2>2. CASE Within(script, Frames(op, entryCount, crash), w, k)' /\ w = Polling /\ k = 1
    <3>1. k + 0 = k /\ k <= Len(w) /\ k + 1 # 0
      BY <1>6
    <3>2. cs = "low" => frame \in {Bus!Ignored, <<Bus!READ_STATUS>>}
      BY <1>6, <2>2, <3>1 DEF Follows
    <3>3. WithinFrame(w, k)'
      BY <1>1, <1>5, <2>2, <3>1, <3>2 DEF WithinFrame, Heard, Follows
    <3> QED BY <3>3
  <2> QED BY <1>1, <1>4, <2>1, <2>2, ReplyRead
<1>8. Types'
  BY <1>1 DEF BusInv, Types
<1>9. InPlace'
  <2>1. op.kind # "none"
    BY <1>3 DEF BusInv, InPlace, Bus!NextStep
  <2> QED BY <1>1, <2>1 DEF BusInv, InPlace
<1> QED BY <1>7, <1>8, <1>9 DEF BusInv, InACall

LEMMA HandlerTransferStep ==
  ASSUME Assumed, BusInv, Bus!HandlerTransfer
  PROVE  BusInv'
<1>1. /\ Bus!NextStep({"byte", "poll", "take"}) /\ Bus!InHandler /\ Bus!AfterReply
      /\ Bus!OnBus(Head(script).byte)
      /\ UNCHANGED <<flash, cs, inFlight, op, writeAddr, entryCount, crash>>
  BY DEF Bus!HandlerTransfer
<1>2. PICK w, k : Sending(w, k)
  BY <1>1, ByteNext
<1>3. /\ WithinFrame(w, k) /\ w \in Seq(Transfers) /\ k \in 0 .. Len(w) - 1
      /\ Head(script) = w[k + 1] /\ w[k + 1].byte \in Nat
  <2>1. w[k + 1] \in Transfers
    BY <1>2 DEF Sending
  <2> QED BY <1>2, <2>1, StepKinds DEF Sending
<1>4. frame \in Seq(Nat) /\ Put1 = 0 /\ Put1' = 0 /\ k + 0 = k /\ (k + 1) + 0 = k + 1
  BY <1>1, <1>3 DEF BusInv, Types, Put1, Bus!InHandler
<1>5. frame' \in Seq(Nat)
  BY <1>1, <1>3, <1>4, ReceivedFacts DEF Bus!OnBus
<1> DEFINE r == Bus!Received(flash, frame, w[k + 1].byte)
<1>6. cs = "low" => frame' = r
  BY <1>1, <1>3 DEF Bus!OnBus
<1>7. Follows(frame, w, k) => Follows(r, w, k + 1)
  BY <1>3, <1>4, ByteHeard
<1>8. r \in {Bus!Ignored, <<Bus!READ_STATUS>>} \/ r = Append(frame, w[k + 1].byte)
  <2> DEFINE b == w[k + 1].byte
             x == Bus!Received(flash, frame, b)
  <2>1. b \in Nat
    BY <1>3
  <2> HIDE DEF b
  <2>2. x \in {Bus!Ignored, <<Bus!READ_STATUS>>} \/ x = Append(frame, b)
    BY <1>4, <2>1, ReceivedFacts
  <2> QED BY <2>2 DEF b
<1> HIDE DEF r
<1>9. cs = "low" => Follows(r, w, k + 1) \/ (op.kind = "find" /\ Len(r) >= k + 1)
  <2> SUFFICES ASSUME cs = "low"
               PROVE  Follows(r, w, k + 1) \/ (op.kind = "find" /\ Len(r) >= k + 1)
    OBVIOUS
  <2>1. Follows(frame, w, k) \/ (op.kind = "find" /\ Len(frame) >= k)
    BY <1>3, <1>4 DEF WithinFrame, Heard
  <2>2. ASSUME op.kind = "find", Len(frame) >= k, r = Append(frame, w[k + 1].byte)
        PROVE  Len(r) >= k + 1
    BY <1>3, <1>4, <2>2
  <2> QED BY <1>7, <1>8, <2>1, <2>2 DEF Follows
<1>10. \E j : WithinFrame(w, j)'
  <2>1. CASE Within(script, Frames(op, entryCount, crash), w, k + 1)'
    <3>1. k + 1 <= Len(w)
      BY <1>3
    <3>2. WithinFrame(w, k + 1)'
      BY <1>1, <1>4, <1>6, <1>9, <2>1, <3>1 DEF WithinFrame, Heard
    <3> QED BY <3>2
  <2>2. CASE Within(script, Frames(op, entryCount, crash), w, k)' /\ w = Polling /\ k = 1
    <3>1. k <= Len(w) /\ k + 1 # 0 /\ k <= k + 1 /\ k \in Nat
      BY <1>3
    <3>2. cs = "low" => \/ r \in {Bus!Ignored, <<Bus!READ_STATUS>>}
                        \/ op.kind = "find" /\ Len(r) >= k + 1
      BY <1>9, <2>2, <3>1 DEF Follows
    <3>3. w \in Frames(op, entryCount, crash)
      BY <1>2 DEF Sending
    <3>4. op.kind # "find"
      <4>1. op.addr \in Nat /\ entryCount \in Nat /\ crash \in Nat
        BY DEF BusInv, Types
      <4>2. op.kind = "find" => w = Reading(op.addr) /\ Len(w) = 5
        BY <3>3, <4>1, FrameKinds, ReadingSent
      <4> QED BY <2>2, <4>2, Sent
    <3>5. WithinFrame(w, k)'
      BY <1>1, <1>4, <1>6, <2>2, <3>1, <3>2, <3>4 DEF WithinFrame, Heard, Follows
    <3> QED BY <3>5
  <2> QED BY <1>1, <1>2, <2>1, <2>2, ReplyRead
<1>11. Types' /\ InPlace'
  <2>1. op.kind # "none"
    BY <1>1 DEF Bus!InHandler
  <2> QED BY <1>1, <1>5, <2>1 DEF BusInv, Types, InPlace
<1> QED BY <1>10, <1>11 DEF BusInv, InACall

LEMMA LowerStep ==
  ASSUME Assumed, BusInv, Bus!LowerCs
  PROVE  BusInv'
<1> DEFINE W == Frames(op, entryCount, crash)
<1>1. /\ script # <<>> /\ Head(script).do = "low" /\ script' = Tail(script)
      /\ cs' = "low" /\ frame' = IF cs = "low" THEN frame ELSE <<>>
      /\ UNCHANGED <<flash, inFlight, op, writeAddr, entryCount, crash>>
  BY DEF Bus!LowerCs, Bus!NextStep
<1>2. W \subseteq Seq(Transfers)
  BY FramesAreTransfers
<1>3. BetweenFrames
  <2> SUFFICES ASSUME ~BetweenFrames PROVE FALSE
    OBVIOUS
  <2>1. PICK w, k : WithinFrame(w, k)
    BY DEF BusInv, InACall
  <2>2. Within(script, W, w, k)
    BY <2>1 DEF WithinFrame
  <2> HIDE DEF W
  <2>3. k \in 0 .. Len(w) /\ w \in Seq(Transfers)
    BY <1>2, <2>2 DEF Within
  <2>4. CASE k = Len(w)
    BY <1>1, <1>2, <2>2, <2>4, Rises, StepKinds
  <2>5. CASE k < Len(w)
    <3>1. Head(script) \in Transfers
      BY <1>2, <2>2, <2>5, Sends
    <3> QED BY <1>1, <3>1, StepKinds
  <2> QED BY <2>3, <2>4, <2>5
<1>4. Between(script, W) /\ (op.kind # "find" => cs = "high") /\ (~Bus!InHandler => ~inFlight)
  BY <1>3 DEF BetweenFrames
<1> HIDE DEF W
<1>5. PICK w \in W : Within(Tail(script), W, w, 0)
  BY <1>1, <1>2, <1>4, Falls
<1>6. w \in Seq(Transfers) /\ Len(w) \in Nat
  BY <1>2, <1>5
<1>7. Put1' = 0
  BY <1>1, <1>4 DEF Put1, Bus!InHandler
<1>8. frame' \in Seq(Nat)
  BY <1>1 DEF BusInv, Types
<1>9. Heard(w, 0)'
  <2>1. CASE op.kind = "find"
    <3>1. Len(frame') >= 0
      BY <1>8
    <3> QED BY <1>1, <2>1, <3>1 DEF Heard
  <2>2. CASE op.kind # "find"
    <3>1. frame' = <<>>
      BY <1>1, <1>4, <2>2
    <3>2. Bytes(w, 0) = <<>>
      BY DEF Bytes
    <3>3. Follows(frame', w, 0)
      BY <3>1, <3>2 DEF Follows
    <3> QED BY <1>7, <3>3 DEF Heard
  <2> QED BY <2>1, <2>2
<1>10. WithinFrame(w, 0)'
  <2>1. Within(script, Frames(op, entryCount, crash), w, 0)'
    BY <1>1, <1>5 DEF W
  <2> QED BY <1>6, <1>7, <1>9, <2>1 DEF WithinFrame
<1>11. Types' /\ InPlace'
  <2>1. op.kind # "none"
    BY <1>1 DEF BusInv, InPlace
  <2> QED BY <1>1, <1>8, <2>1 DEF BusInv, Types, InPlace
<1> QED BY <1>10, <1>11 DEF BusInv, InACall

\* When the chip select is to rise, a whole frame has been sent.
FrameSent(w) ==
  /\ WithinFrame(w, Len(w)) /\ w \in Seq(Transfers) /\ w \in Frames(op, entryCount, crash)
  /\ Between(Tail(script), Frames(op, entryCount, crash)) /\ Put1 = 0

LEMMA RiseNext ==
  ASSUME BusInv, Bus!NextStep({"high"})
  PROVE  \E w : FrameSent(w)
<1> DEFINE W == Frames(op, entryCount, crash)
<1>1. script # <<>> /\ Head(script).do = "high" /\ W \subseteq Seq(Transfers)
  BY FramesAreTransfers DEF Bus!NextStep
<1> HIDE DEF W
<1>2. ~BetweenFrames
  <2>1. ~Between(script, W)
    BY <1>1, Falls, StepKinds
  <2> QED BY <2>1 DEF BetweenFrames, W
<1>3. PICK w, k : WithinFrame(w, k)
  BY <1>2 DEF BusInv, InACall
<1>4. Within(script, W, w, k) /\ k + Put1 <= Len(w) /\ Put1 \in {0, 1}
  BY <1>3 DEF WithinFrame, W, Put1
<1>5. w \in W /\ w \in Seq(Transfers) /\ k \in 0 .. Len(w)
  BY <1>1, <1>4 DEF Within
<1>6. k = Len(w)
  <2> SUFFICES ASSUME k < Len(w) PROVE FALSE
    BY <1>5
  <2>1. Head(script) \in Transfers
    BY <1>1, <1>4, Sends
  <2> QED BY <1>1, <2>1, StepKinds
<1>7. Between(Tail(script), W)
  BY <1>1, <1>4, <1>6, Rises
<1>8. Put1 = 0
  BY <1>4, <1>5, <1>6
<1>9. FrameSent(w)
  BY <1>3, <1>5, <1>6, <1>7, <1>8 DEF FrameSent, W
<1> QED BY <1>9

LEMMA RaiseStep ==
  ASSUME Assumed, BusInv, Bus!RaiseCs
  PROVE  BusInv'
<1>1. /\ Bus!NextStep({"high"}) /\ script # <<>> /\ script' = Tail(script)
      /\ cs' = "high" /\ frame' = <<>>
      /\ flash' = IF cs = "low" THEN Bus!EndOfFrame(flash, frame) ELSE flash
      /\ UNCHANGED <<inFlight, op, writeAddr, entryCount, crash>>
  BY DEF Bus!RaiseCs, Bus!NextStep
<1>2. PICK w : FrameSent(w)
  BY <1>1, RiseNext
<1>3. flash' \in Flash /\ frame' \in Seq(Nat)
  <2>1. flash \in Flash /\ frame \in Seq(Nat)
    BY DEF BusInv, Types
  <2>2. Bus!Latched(flash, frame) \in Flash
    BY <2>1, LatchedFacts
  <2> QED BY <1>1, <2>1, <2>2 DEF Bus!EndOfFrame
<1>4. BetweenFrames'
  <2>1. Between(script, Frames(op, entryCount, crash))'
    BY <1>1, <1>2 DEF FrameSent
  <2>2. inFlight \in BOOLEAN
    BY DEF BusInv, Types
  <2>3. (~Bus!InHandler => ~inFlight)'
    BY <1>1, <1>2, <2>2 DEF FrameSent, Put1, Bus!InHandler
  <2> QED BY <1>1, <2>1, <2>3 DEF BetweenFrames
<1>5. Types' /\ InPlace'
  <2>1. op.kind # "none"
    BY <1>1 DEF BusInv, InPlace
  <2> QED BY <1>1, <1>3, <2>1 DEF BusInv, Types, InPlace
<1> QED BY <1>4, <1>5 DEF BusInv, InACall

\* The end of a frame, also when it comes within the last byte.
LEMMA FrameEnds ==
  ASSUME Assumed, NEW f \in Flash, NEW seen \in Seq(Nat)
  PROVE  /\ Bus!EndOfFrame(f, seen) \in Flash
         /\ OnlyErases(f, Bus!EndOfFrame(f, seen), seen)
         /\ OnlyPrograms(f, Bus!EndOfFrame(f, seen), seen)
<1>1. OnlyErases(f, f, seen) /\ OnlyPrograms(f, f, seen)
  BY DEF OnlyErases, OnlyPrograms
<1> QED BY <1>1, LatchedFacts DEF Bus!EndOfFrame

\* The frames of a round of the radio: only the first can be long enough to matter.
StatusFrame ==
  IF cs = "low" THEN frame \o Bus!readReg(Bus!NRF_STATUS) ELSE Bus!readReg(Bus!NRF_STATUS)

\* How the first frame goes on where the logger was.
LEMMA RadioFrames ==
  ASSUME BusInv
  PROVE  /\ StatusFrame \in Seq(Nat) /\ (cs = "high" => Len(StatusFrame) = 2)
         /\ cs = "low" => /\ Len(StatusFrame) = Len(frame) + 2
                          /\ \A i \in 1 .. Len(frame) : StatusFrame[i] = frame[i]
                          /\ StatusFrame[Len(frame) + 1] = 7 /\ StatusFrame[Len(frame) + 2] = 255
         /\ Bus!readPayload \in Seq(Nat) /\ Len(Bus!readPayload) = 3
         /\ Bus!writeReg(Bus!NRF_STATUS, Bus!NRF_RX_DR) \in Seq(Nat)
         /\ Len(Bus!writeReg(Bus!NRF_STATUS, Bus!NRF_RX_DR)) = 2
<1>1. frame \in Seq(Nat) /\ cs \in {"low", "high"}
  BY DEF BusInv, Types
<1> DEFINE z == Bus!readReg(Bus!NRF_STATUS)
<1>2. z \in Seq(Nat) /\ Len(z) = 2 /\ z[1] = 7 /\ z[2] = 255
  BY DEF Bus!readReg, Bus!NRF_STATUS, Bus!NRF_NOP
<1>3. Bus!readPayload \in Seq(Nat) /\ Len(Bus!readPayload) = 3
  BY DEF Bus!readPayload, Bus!NRF_R_RX_PAYLOAD, Bus!NRF_NOP
<1>4. /\ Bus!writeReg(Bus!NRF_STATUS, Bus!NRF_RX_DR) \in Seq(Nat)
      /\ Len(Bus!writeReg(Bus!NRF_STATUS, Bus!NRF_RX_DR)) = 2
  BY DEF Bus!writeReg, Bus!NRF_STATUS, Bus!NRF_RX_DR, Bus!NRF_W_REGISTER
<1> HIDE DEF z
<1>5. Joins(Cat(frame, z), frame, z, Nat)
  BY <1>1, <1>2, Cats
<1>6. CASE cs = "low"
  <2>1. StatusFrame = Cat(frame, z)
    BY <1>6 DEF StatusFrame, Cat, z
  <2>2. /\ StatusFrame \in Seq(Nat) /\ Len(StatusFrame) = Len(frame) + 2
        /\ \A i \in 1 .. Len(frame) : StatusFrame[i] = frame[i]
        /\ StatusFrame[Len(frame) + 1] = 7 /\ StatusFrame[Len(frame) + 2] = 255
    BY <1>2, <1>5, <2>1 DEF Joins
  <2> QED BY <1>3, <1>4, <1>6, <2>2
<1>7. CASE cs = "high"
  <2>1. StatusFrame = z
    BY <1>7 DEF StatusFrame, z
  <2> QED BY <1>2, <1>3, <1>4, <1>7, <2>1
<1> QED BY <1>1, <1>6, <1>7

\* Of the three frames of a round only the first can change what the flash holds.
LEMMA RoundOfRadio ==
  ASSUME Assumed, BusInv, NEW available, Bus!RadioRound(available)
  PROVE  /\ flash' \in Flash
         /\ OnlyErases(flash, flash', StatusFrame) /\ OnlyPrograms(flash, flash', StatusFrame)
<1> DEFINE x == Bus!readPayload
           y == Bus!writeReg(Bus!NRF_STATUS, Bus!NRF_RX_DR)
           polled == IF flash.busy THEN flash ELSE Bus!EndOfFrame(flash, StatusFrame)
           paid == IF polled.busy THEN polled ELSE Bus!EndOfFrame(polled, x)
           done == IF paid.busy THEN paid ELSE Bus!EndOfFrame(paid, y)
           Good(g) == /\ g \in Flash /\ OnlyErases(flash, g, StatusFrame)
                      /\ OnlyPrograms(flash, g, StatusFrame)
<1>1. flash' = IF ~available THEN polled ELSE done
  BY DEF Bus!RadioRound, StatusFrame
<1>2. flash \in Flash /\ StatusFrame \in Seq(Nat)
  BY RadioFrames DEF BusInv, Types
<1>3. x \in Seq(Nat) /\ Len(x) = 3 /\ y \in Seq(Nat) /\ Len(y) = 2
  BY RadioFrames
<1> HIDE DEF x, y
<1>4. Good(polled)
  <2>1. Good(flash)
    BY <1>2 DEF OnlyErases, OnlyPrograms
  <2>2. Good(Bus!EndOfFrame(flash, StatusFrame))
    BY <1>2, FrameEnds
  <2> HIDE DEF Good
  <2> QED BY <2>1, <2>2
<1>5. ASSUME NEW g, Good(g), NEW z \in Seq(Nat), Len(z) < 4
      PROVE  Good(Bus!EndOfFrame(g, z))
  <2> DEFINE h == Bus!EndOfFrame(g, z)
  <2>1. h \in Flash /\ OnlyErases(g, h, z) /\ OnlyPrograms(g, h, z)
    BY <1>5, FrameEnds
  <2> HIDE DEF h
  <2>2. \A a \in Cells : /\ h.mem[a] = Bus!Erased => g.mem[a] = Bus!Erased
                         /\ h.mem[a] \subseteq g.mem[a]
    BY <1>5, <2>1 DEF OnlyErases, OnlyPrograms
  <2>3. OnlyErases(flash, h, StatusFrame)
    BY <1>5, <2>2 DEF OnlyErases
  <2>4. OnlyPrograms(flash, h, StatusFrame)
    <3>1. \A a \in Cells : ~(h.mem[a] \subseteq flash.mem[a]) => ~(g.mem[a] \subseteq flash.mem[a])
      BY <2>2
    <3>2. OnlyPrograms(flash, g, StatusFrame)
      BY <1>5
    <3> QED BY <3>1, <3>2 DEF OnlyPrograms
  <2> QED BY <2>1, <2>3, <2>4 DEF h
<1> HIDE DEF polled, Good
<1>6. Good(paid)
  <2>1. Good(Bus!EndOfFrame(polled, x))
    <3>1. Len(x) < 4 /\ x \in Seq(Nat)
      BY <1>3
    <3> QED BY <1>4, <1>5, <3>1, Zenon
  <2> QED BY <1>4, <2>1
<1> HIDE DEF paid
<1>7. Good(done)
  <2>1. Good(Bus!EndOfFrame(paid, y))
    <3>1. Len(y) < 4 /\ y \in Seq(Nat)
      BY <1>3
    <3> QED BY <1>5, <1>6, <3>1, Zenon
  <2> QED BY <1>6, <2>1
<1> HIDE DEF done
<1>8. Good(flash')
  BY <1>1, <1>4, <1>7
<1> QED BY <1>8 DEF Good

LEMMA RadioStep ==
  ASSUME Assumed, BusInv, NEW available, Bus!RadioRound(available)
  PROVE  BusInv'
<1>1. /\ ~Bus!InHandler /\ cs' = "high" /\ frame' = <<>>
      /\ UNCHANGED <<inFlight, op, script, writeAddr, entryCount, crash>>
  BY DEF Bus!RadioRound
<1>2. flash' \in Flash
  BY RoundOfRadio
<1>3. Types' /\ InPlace'
  BY <1>1, <1>2 DEF BusInv, Types, InPlace
<1>4. BetweenFrames => BetweenFrames'
  BY <1>1 DEF BetweenFrames, Bus!InHandler
<1>5. ASSUME NEW w, NEW k, WithinFrame(w, k)
      PROVE  WithinFrame(w, k)'
  BY <1>1, <1>5 DEF WithinFrame, Put1, Bus!InHandler
<1> QED BY <1>3, <1>4, <1>5 DEF BusInv, InACall

-----------------------------------------------------------------------------
\* The calls, each in its frames.
LEMMA CallsFramed ==
  ASSUME Assumed, NEW o, NEW n \in Nat, NEW c \in Nat, o.addr \in Nat
  PROVE  /\ Between(<<>>, Frames(o, n, c))
         /\ o.kind = "erase" => Between(Bus!eraseSector(o.addr), Frames(o, n, c))
         /\ o.kind = "program" =>
              Between(Bus!writePage(o.addr, Bus!LogEntry(n)), Frames(o, n, c))
         /\ o.kind = "find" =>
              Between(Bus!read(o.addr), Frames(o, n, c)) /\ Bus!read(o.addr) # <<>>
         /\ o.kind = "record" =>
              Between(Bus!writePage(o.addr, Bus!CrashEntry(c)), Frames(o, n, c))
         /\ o.kind = "record" /\ o.addr = Bus!SlotAddr(0) =>
              Between(Bus!eraseSector(Bus!CrashSector), Frames(o, n, c))
<1> DEFINE W == Frames(o, n, c)
<1>1. W \subseteq Seq(Transfers)
  BY FramesAreTransfers
<1>2. o.kind # "find" => Enabling \in W /\ Polling \in W
  BY Sent DEF Frames
<1>3. Bus!LogEntry(n) \in Seq(Nat) /\ Bus!CrashEntry(c) \in Seq(Nat) /\ Bus!CrashSector \in Nat
  BY Entries, Numbers
<1>4. Erasing(o.addr) \in Seq(Transfers) /\ Erasing(Bus!CrashSector) \in Seq(Transfers)
  <2>1. ASSUME NEW addr \in Nat PROVE Erasing(addr) \in Seq(Transfers)
    BY ErasingSent DEF Instructs
  <2> QED BY <1>3, <2>1
<1>5. Reading(o.addr) \in Seq(Transfers)
  BY ReadingSent DEF Instructs
<1>6. /\ Programming(o.addr, Bus!LogEntry(n)) \in Seq(Transfers)
      /\ Programming(o.addr, Bus!CrashEntry(c)) \in Seq(Transfers)
  <2>1. ASSUME NEW addr \in Nat, NEW data \in Seq(Nat)
        PROVE  Programming(addr, data) \in Seq(Transfers)
    BY ProgrammingSent DEF Instructs
  <2> QED BY <1>3, <2>1
<1>7. /\ o.kind = "erase" => Erasing(o.addr) \in W
      /\ o.kind = "program" => Programming(o.addr, Bus!LogEntry(n)) \in W
      /\ o.kind = "find" => Reading(o.addr) \in W
      /\ o.kind = "record" => Programming(o.addr, Bus!CrashEntry(c)) \in W
      /\ o.kind = "record" /\ o.addr = Bus!SlotAddr(0) => Erasing(Bus!CrashSector) \in W
  BY <1>4, <1>5, <1>6 DEF Frames
<1> HIDE DEF W
<1>8. Between(<<>>, W)
  BY StepTypes DEF Between, Framed
<1>9. o.kind = "erase" => Between(Bus!eraseSector(o.addr), W)
  BY <1>1, <1>2, <1>4, <1>7, EraseIsCall, CallFramed
<1>10. o.kind = "program" => Between(Bus!writePage(o.addr, Bus!LogEntry(n)), W)
  BY <1>1, <1>2, <1>3, <1>6, <1>7, PageProgramIsCall, CallFramed
<1>11. o.kind = "find" => Between(Bus!read(o.addr), W) /\ Bus!read(o.addr) # <<>>
  BY <1>1, <1>7, ReadFramed
<1>12. o.kind = "record" => Between(Bus!writePage(o.addr, Bus!CrashEntry(c)), W)
  BY <1>1, <1>2, <1>3, <1>6, <1>7, PageProgramIsCall, CallFramed
<1>13. o.kind = "record" /\ o.addr = Bus!SlotAddr(0) => Between(Bus!eraseSector(Bus!CrashSector), W)
  BY <1>1, <1>2, <1>3, <1>4, <1>7, EraseIsCall, CallFramed
<1> QED BY <1>8, <1>9, <1>10, <1>11, <1>12, <1>13 DEF W

\* With no call being made, the bus is at rest.
LEMMA AtRest ==
  ASSUME BusInv, script = <<>>
  PROVE  BetweenFrames /\ cs = "high" /\ (~Bus!InHandler => ~inFlight)
<1>1. ASSUME NEW w, NEW k, WithinFrame(w, k)
      PROVE  FALSE
  <2>1. Within(script, Frames(op, entryCount, crash), w, k)
    BY <1>1 DEF WithinFrame
  <2>2. Len(w) \in Nat /\ k \in 0 .. Len(w) /\ (Len(w) - k) + 1 <= Len(script)
    BY <2>1, FramesAreTransfers DEF Within
  <2> QED BY <2>2
<1>2. BetweenFrames
  BY <1>1 DEF BusInv, InACall
<1> QED BY <1>2 DEF BetweenFrames

\* The next call begins when the last one has ended, with whole frames of its own.
LEMMA LoggerCalls ==
  ASSUME Assumed, BusInv, Bus!WriteEntry \/ Bus!SectorErased
  PROVE  BusInv'
<1>1. /\ Bus!Erase \/ Bus!Write
      /\ op.kind \in {"none", "erase"} /\ script = <<>> /\ entryCount < MaxEntries
      /\ UNCHANGED <<flash, cs, frame, inFlight, writeAddr, entryCount, crash>>
  <2>1. CASE Bus!WriteEntry
    <3>1. op.kind = "none" /\ entryCount + crash < MaxEntries
      BY <2>1 DEF Bus!WriteEntry, Bus!None
    <3>2. entryCount \in Nat /\ crash \in Nat /\ MaxEntries \in Nat
      BY DEF BusInv, Types, Assumed, Bus!BusAssumption
    <3>3. entryCount < MaxEntries
      BY <3>1, <3>2
    <3> QED BY <2>1, <3>1, <3>3 DEF Bus!WriteEntry, BusInv, InPlace
  <2>2. CASE Bus!SectorErased
    BY <2>2 DEF Bus!SectorErased, BusInv, InPlace
  <2> QED BY <2>1, <2>2
<1>2. /\ op' = [kind |-> op'.kind, addr |-> writeAddr] /\ op'.addr = writeAddr
      /\ \/ op'.kind = "erase" /\ script' = Bus!eraseSector(writeAddr)
         \/ /\ op'.kind = "program"
            /\ script' = Bus!writePage(writeAddr, Bus!LogEntry(entryCount))
  BY <1>1 DEF Bus!Erase, Bus!Write, Bus!Begin
<1>3. writeAddr \in Nat /\ entryCount \in Nat /\ crash \in Nat
  BY DEF BusInv, Types
<1>4. cs = "high" /\ ~inFlight
  BY <1>1, AtRest DEF Bus!InHandler
<1>5. Between(script', Frames(op', entryCount, crash))
  BY <1>2, <1>3, CallsFramed
<1>6. BetweenFrames'
  BY <1>1, <1>4, <1>5 DEF BetweenFrames
<1>7. Types'
  BY <1>1, <1>2, <1>3 DEF BusInv, Types
<1>8. InPlace'
  BY <1>1, <1>2 DEF BusInv, InPlace
<1> QED BY <1>6, <1>7, <1>8 DEF BusInv, InACall

LEMMA EntryWrittenStep ==
  ASSUME Assumed, BusInv, Bus!EntryWritten
  PROVE  BusInv'
<1>1. /\ op.kind = "program" /\ script = <<>> /\ op' = Bus!None
      /\ writeAddr' = writeAddr + EntryBytes /\ entryCount' = entryCount + 1
      /\ UNCHANGED <<flash, cs, frame, inFlight, script, crash>>
  BY DEF Bus!EntryWritten
<1>2. op'.kind = "none" /\ op'.addr \in Nat
      /\ op' \in [kind : {"none", "erase", "program", "find", "record"}, addr : Nat]
  BY <1>1 DEF Bus!None
<1>3. /\ writeAddr \in Nat /\ entryCount \in Nat /\ crash \in Nat
      /\ EntryBytes \in Nat /\ Starts \subseteq Nat
  BY DEF BusInv, Types, Assumed, Bus!BusAssumption
<1>4. cs = "high" /\ ~inFlight
  BY <1>1, AtRest DEF Bus!InHandler
<1>5. writeAddr' \in Nat /\ entryCount' \in Nat
  BY <1>1, <1>3
<1>6. BetweenFrames'
  <2>1. Between(<<>>, Frames(op', entryCount', crash))
    BY <1>2, <1>3, <1>5, CallsFramed
  <2> QED BY <1>1, <1>4, <2>1 DEF BetweenFrames
<1>7. InPlace'
  <2>1. PICK start \in Starts \cup {Bus!FLASH_BLACKBOX_ADDR} :
          writeAddr = start + (entryCount * EntryBytes)
    BY DEF BusInv, InPlace
  <2>2. start \in Nat
    BY <1>3, <2>1, Numbers
  <2>3. writeAddr' = start + (entryCount' * EntryBytes)
    <3>1. (entryCount + 1) * EntryBytes = (entryCount * EntryBytes) + EntryBytes
          /\ entryCount * EntryBytes \in Nat
      BY <1>3
    <3> DEFINE p == entryCount * EntryBytes
    <3> HIDE DEF p
    <3> QED BY <1>1, <1>3, <2>1, <2>2, <3>1 DEF p
  <2> QED BY <1>1, <1>2, <2>1, <2>3 DEF InPlace
<1>8. Types'
  BY <1>1, <1>2, <1>5 DEF BusInv, Types
<1> QED BY <1>6, <1>7, <1>8 DEF BusInv, InACall

LEMMA HardFaultStep ==
  ASSUME Assumed, BusInv, Bus!HardFault
  PROVE  BusInv'
<1>1. /\ crash' = crash + 1 /\ op' = [kind |-> "find", addr |-> Bus!SlotAddr(0)]
      /\ script' = Bus!read(Bus!SlotAddr(0))
      /\ UNCHANGED <<flash, cs, frame, inFlight, writeAddr, entryCount>>
  BY DEF Bus!HardFault
<1>2. op'.kind = "find" /\ op'.addr = Bus!SlotAddr(0) /\ op'.addr \in Nat /\ Bus!InHandler'
  BY <1>1, Numbers DEF Bus!InHandler
<1>3. entryCount \in Nat /\ crash' \in Nat
  BY <1>1 DEF BusInv, Types
<1>4. Between(script', Frames(op', entryCount, crash')) /\ script' # <<>>
  BY <1>1, <1>2, <1>3, CallsFramed
<1>5. BetweenFrames'
  BY <1>1, <1>2, <1>4 DEF BetweenFrames
<1>6. Types' /\ InPlace'
  BY <1>1, <1>2, <1>3 DEF BusInv, Types, InPlace
<1> QED BY <1>5, <1>6 DEF BusInv, InACall

LEMMA SlotReadStep ==
  ASSUME Assumed, BusInv, Bus!SlotRead
  PROVE  BusInv'
<1>1. /\ op.kind = "find" /\ script = <<>>
      /\ UNCHANGED <<flash, cs, frame, inFlight, writeAddr, entryCount, crash>>
  BY DEF Bus!SlotRead
<1>2. entryCount \in Nat /\ crash \in Nat /\ op.addr \in Nat
      /\ op \in [kind : {"none", "erase", "program", "find", "record"}, addr : Nat]
  BY DEF BusInv, Types
<1>3. cs = "high"
  BY <1>1, AtRest
<1>4. /\ Between(script', Frames(op', entryCount, crash)) /\ op'.kind \in {"find", "record"}
      /\ op' \in [kind : {"none", "erase", "program", "find", "record"}, addr : Nat]
  <2>1. CASE op' = [op EXCEPT !.addr = @ + 48] /\ script' = Bus!read(op.addr + 48)
    <3>1. op'.kind = "find" /\ op'.addr = op.addr + 48 /\ op'.addr \in Nat
      BY <1>1, <1>2, <2>1
    <3>2. Between(script', Frames(op', entryCount, crash))
      BY <1>2, <2>1, <3>1, CallsFramed
    <3> QED BY <1>2, <2>1, <3>1, <3>2
  <2>2. CASE /\ op' = [kind |-> "record", addr |-> Bus!SlotAddr(0)]
             /\ script' = Bus!eraseSector(Bus!CrashSector)
                             \o Bus!writePage(Bus!SlotAddr(0), Bus!CrashEntry(crash))
    <3>1. op'.kind = "record" /\ op'.addr = Bus!SlotAddr(0) /\ op'.addr \in Nat
      BY <2>2, Numbers
    <3> DEFINE W == Frames(op', entryCount, crash)
               x == Bus!eraseSector(Bus!CrashSector)
               y == Bus!writePage(Bus!SlotAddr(0), Bus!CrashEntry(crash))
    <3>2. Between(x, W) /\ Between(y, W)
      BY <1>2, <3>1, CallsFramed
    <3>3. W \subseteq Seq(Transfers)
      BY FramesAreTransfers
    <3>4. script' = Cat(x, y)
      BY <2>2 DEF Cat
    <3> HIDE DEF W, x, y
    <3>5. Between(script', W)
      BY <3>2, <3>3, <3>4, MoreFrames
    <3> QED BY <2>2, <3>1, <3>5 DEF W
  <2>3. CASE /\ op' = [op EXCEPT !.kind = "record"]
             /\ script' = Bus!writePage(op.addr, Bus!CrashEntry(crash))
    <3>1. op'.kind = "record" /\ op'.addr = op.addr
      BY <1>2, <2>3
    <3>2. Between(script', Frames(op', entryCount, crash))
      BY <1>2, <2>3, <3>1, CallsFramed
    <3> QED BY <1>2, <2>3, <3>1, <3>2
  <2> QED BY <2>1, <2>2, <2>3 DEF Bus!SlotRead
<1>5. BetweenFrames'
  BY <1>1, <1>3, <1>4 DEF BetweenFrames, Bus!InHandler
<1>6. Types' /\ InPlace'
  BY <1>1, <1>4 DEF BusInv, Types, InPlace
<1> QED BY <1>5, <1>6 DEF BusInv, InACall

LEMMA ResetStep ==
  ASSUME Assumed, BusInv, Bus!SystemReset
  PROVE  BusInv'
<1>1. /\ script = <<>> /\ op' = Bus!None /\ inFlight' = FALSE
      /\ writeAddr' = Bus!FLASH_BLACKBOX_ADDR /\ entryCount' = 0
      /\ UNCHANGED <<flash, cs, frame, script, crash>>
  BY DEF Bus!SystemReset
<1>2. op'.kind = "none" /\ op'.addr \in Nat
      /\ op' \in [kind : {"none", "erase", "program", "find", "record"}, addr : Nat]
  BY <1>1 DEF Bus!None
<1>3. crash \in Nat /\ EntryBytes \in Nat
  BY DEF BusInv, Types, Assumed, Bus!BusAssumption
<1>4. cs = "high"
  BY <1>1, AtRest
<1>5. BetweenFrames'
  <2>1. Between(<<>>, Frames(op', entryCount', crash))
    BY <1>1, <1>2, <1>3, CallsFramed
  <2> QED BY <1>1, <1>4, <2>1 DEF BetweenFrames
<1>6. InPlace'
  <2>1. writeAddr' = Bus!FLASH_BLACKBOX_ADDR + (entryCount' * EntryBytes)
    BY <1>1, <1>3, Numbers
  <2> QED BY <1>1, <1>2, <2>1 DEF InPlace
<1>7. Types'
  <2>1. writeAddr' \in Nat /\ entryCount' \in Nat
    BY <1>1, Numbers
  <2>2. inFlight' \in BOOLEAN
    BY <1>1, Zenon
  <2> QED BY <1>1, <1>2, <2>1, <2>2 DEF BusInv, Types
<1> QED BY <1>5, <1>6, <1>7 DEF BusInv, InACall

\* The invariant holds at first and is kept by every step.
LEMMA BusInvInit == Assumed /\ Bus!Init => BusInv
<1> SUFFICES ASSUME Assumed, Bus!Init PROVE BusInv
  OBVIOUS
<1>1. /\ cs = "high" /\ frame = <<>> /\ inFlight = FALSE /\ op = Bus!None /\ script = <<>>
      /\ writeAddr \in Starts /\ entryCount = 0 /\ crash = 0
  BY DEF Bus!Init
<1>2. op.kind = "none" /\ op.addr \in Nat 
      /\ op \in [kind : {"none", "erase", "program", "find", "record"}, addr : Nat]
  BY <1>1 DEF Bus!None
<1>3. flash \in Flash
  <2>1. PICK crashes \in 0 .. MaxCrashes + 1 :
          flash = [mem |-> Bus!FormerMemory(crashes), wel |-> FALSE, busy |-> FALSE]
    BY DEF Bus!Init
  <2> DEFINE v(a) ==
               CASE a \div SectorWords # 1                               -> {1}
                 [] \E i \in 0 .. crashes - 1 : a = Bus!SlotAddr(i)      -> {Bus!Magic}
                 [] \E i \in 0 .. crashes - 1 : a = Bus!SlotAddr(i) + 1  -> {128}
                 [] OTHER                                                -> Bus!Erased
  <2>2. Bus!FormerMemory(crashes) = [a \in Cells |-> v(a)]
    BY DEF Bus!FormerMemory
  <2>3. \A a \in Cells : v(a) \in {{1}, {173}, {128}, {}}
    BY Numbers DEF Bus!Erased
  <2> HIDE DEF v
  <2>4. \A a \in Cells : v(a) \in SUBSET (Nat \ {Bus!Ones})
    BY <2>3, Numbers
  <2> QED BY <2>1, <2>2, <2>4 DEF Flash
<1>4. Starts \subseteq Nat /\ EntryBytes \in Nat
  BY DEF Assumed, Bus!BusAssumption
<1>5. Types
  <2>1. frame \in Seq(Nat) /\ cs \in {"low", "high"}
    BY <1>1
  <2>2. inFlight \in BOOLEAN
    BY <1>1, Zenon
  <2>3. writeAddr \in Nat /\ entryCount \in Nat /\ crash \in Nat
    BY <1>1, <1>4
  <2> QED BY <1>2, <1>3, <2>1, <2>2, <2>3, Zenon DEF Types
<1>6. InPlace
  <2>1. writeAddr = writeAddr + (entryCount * EntryBytes)
    BY <1>1, <1>4
  <2> QED BY <1>1, <1>2, <2>1 DEF InPlace
<1>7. BetweenFrames
  <2>1. Between(<<>>, Frames(op, entryCount, crash))
    BY <1>1, <1>2, CallsFramed
  <2> QED BY <1>1, <2>1 DEF BetweenFrames
<1> QED BY <1>5, <1>6, <1>7 DEF BusInv, InACall

LEMMA BusInvNext == Assumed /\ BusInv /\ [Bus!Next]_Bus!vars => BusInv'
<1> SUFFICES ASSUME Assumed, BusInv, [Bus!Next]_Bus!vars PROVE BusInv'
  OBVIOUS
<1>1. CASE Bus!FlashDone
  <2>1. flash' = [flash EXCEPT !.busy = FALSE]
        /\ UNCHANGED <<cs, frame, inFlight, op, script, writeAddr, entryCount, crash>>
    BY <1>1 DEF Bus!FlashDone
  <2>2. flash' \in Flash
    BY <2>1 DEF BusInv, Types, Flash
  <2>3. Types' /\ InPlace'
    BY <2>1, <2>2 DEF BusInv, Types, InPlace
  <2>4. BetweenFrames => BetweenFrames'
    BY <2>1 DEF BetweenFrames, Bus!InHandler
  <2>5. ASSUME NEW w, NEW k, WithinFrame(w, k)
        PROVE  WithinFrame(w, k)'
    BY <2>1, <2>5 DEF WithinFrame, Heard, Put1, Bus!InHandler
  <2> QED BY <2>3, <2>4, <2>5 DEF BusInv, InACall
<1>2. CASE UNCHANGED Bus!vars
  <2>1. UNCHANGED <<flash, cs, frame, inFlight, op, script, writeAddr, entryCount, crash>>
    BY <1>2 DEF Bus!vars
  <2>2. Types' /\ InPlace'
    BY <2>1 DEF BusInv, Types, InPlace
  <2>3. BetweenFrames => BetweenFrames'
    BY <2>1 DEF BetweenFrames, Bus!InHandler
  <2>4. ASSUME NEW w, NEW k, WithinFrame(w, k)
        PROVE  WithinFrame(w, k)'
    BY <2>1, <2>4 DEF WithinFrame, Heard, Put1, Bus!InHandler
  <2> QED BY <2>2, <2>3, <2>4 DEF BusInv, InACall
<1>3. CASE Bus!Logger
  BY <1>3, LoggerCalls, EntryWrittenStep, LowerStep, RaiseStep, PutStep, GetStep DEF Bus!Logger
<1>4. CASE Bus!Handler
  BY <1>4, SlotReadStep, ResetStep, HandlerTransferStep DEF Bus!Handler
<1>5. CASE Bus!HardFault
  BY <1>5, HardFaultStep
<1>6. CASE \E available \in BOOLEAN : Bus!RadioRound(available)
  BY <1>6, RadioStep
<1> QED BY <1>1, <1>2, <1>3, <1>4, <1>5, <1>6 DEF Bus!Next

-----------------------------------------------------------------------------
\* What the flash has heard of a frame that nobody else has begun, when it is an
\* instruction with a whole address.
LEMMA AddressOf ==
  ASSUME NEW w \in Seq(Transfers), NEW t, NEW addr \in Nat, Instructs(w, t, addr),
         NEW seen \in Seq(Nat), Len(seen) >= 4, \A i \in 1 .. 4 : seen[i] = w[i].byte
  PROVE  Bus!AddressIn(seen) = addr
<1>1. w[2].byte = addr \div 65536 /\ w[3].byte = (addr \div 256) % 256 /\ w[4].byte = addr % 256
  BY StepKinds DEF Instructs
<1>2. seen[2] = w[2].byte /\ seen[3] = w[3].byte /\ seen[4] = w[4].byte
  OBVIOUS
<1>3. Bus!AddressIn(seen)
        = ((addr \div 65536) * 65536) + (((addr \div 256) % 256) * 256) + (addr % 256)
  BY <1>1, <1>2 DEF Bus!AddressIn
<1> QED BY <1>3, AddressParts

\* What the flash has heard, when the logger or the handler raises the chip select, and when
\* the radio polls.
HeardOf(w, n) ==
  /\ w \in Frames(op, entryCount, crash) /\ w \in Seq(Transfers) /\ n \in 0 .. Len(w)
  /\ Len(frame) = n /\ \A i \in 1 .. n : frame[i] = w[i].byte

LEMMA IgnoredIsShort ==
  ASSUME NEW seen, seen \in {Bus!Ignored, <<Bus!READ_STATUS>>}
  PROVE  Len(seen) = 1
<1>1. \A x : Len(<<x>>) = 1
  OBVIOUS
<1> QED BY <1>1 DEF Bus!Ignored

\* At the rise of the chip select the flash has heard the whole frame of this call; at the
\* radio's poll, the frame up to a byte of it.
LEMMA HeardWhole ==
  ASSUME Assumed, BusInv, Bus!RaiseCs, cs = "low", Len(frame) >= 4,
         ~Bus!InHandler \/ Len(frame) = 4
  PROVE  \E w : HeardOf(w, Len(w)) /\ Len(frame) = Len(w)
<1>1. PICK w : FrameSent(w)
  BY RiseNext DEF Bus!RaiseCs, Bus!NextStep
<1>2. /\ w \in Seq(Transfers) /\ w \in Frames(op, entryCount, crash) /\ Heard(w, Len(w))
      /\ Put1 = 0 /\ Len(w) \in Nat
  BY <1>1 DEF FrameSent, WithinFrame
<1>3. op.addr \in Nat /\ entryCount \in Nat /\ crash \in Nat
  BY DEF BusInv, Types
<1>4. op.kind = "find" => Bus!InHandler /\ Len(w) = 5
  BY <1>2, <1>3, FrameKinds, ReadingSent DEF Bus!InHandler
<1>5. Follows(frame, w, Len(w))
  <2>1. Len(w) + Put1 = Len(w)
    BY <1>2
  <2>2. ~(op.kind = "find" /\ Len(frame) >= Len(w))
    <3> DEFINE l == Len(frame)
               m == Len(w)
    <3>1. op.kind = "find" => l = 4 /\ m = 5
      BY <1>4
    <3> HIDE DEF l, m
    <3>2. ~(op.kind = "find" /\ l >= m)
      BY <3>1
    <3> QED BY <3>2 DEF l, m
  <2> QED BY <1>2, <2>1, <2>2 DEF Heard
<1>6. frame \notin {Bus!Ignored, <<Bus!READ_STATUS>>}
  <2> DEFINE l == Len(frame)
  <2>1. frame \in Seq(Nat)
    BY DEF BusInv, Types
  <2>2. l \in Nat /\ l >= 2
    BY <2>1
  <2> HIDE DEF l
  <2>3. l # 1
    BY <2>2
  <2> QED BY <2>3, IgnoredIsShort DEF l
<1>7. frame = Bytes(w, Len(w))
  BY <1>5, <1>6 DEF Follows
<1>8. Len(w) \in 0 .. Len(w)
  BY <1>2
<1>9. Len(frame) = Len(w) /\ \A i \in 1 .. Len(w) : frame[i] = w[i].byte
  BY <1>2, <1>7, <1>8, BytesFacts
<1>10. HeardOf(w, Len(w))
  BY <1>2, <1>8, <1>9 DEF HeardOf
<1> QED BY <1>9, <1>10

LEMMA HeardPart ==
  ASSUME Assumed, BusInv, ~Bus!InHandler, cs = "low", Len(frame) >= 2
  PROVE  \E w, n : HeardOf(w, n)
<1>1. op.kind # "find" /\ op.kind # "record"
  BY DEF Bus!InHandler
<1>2. ~BetweenFrames
  BY <1>1 DEF BetweenFrames
<1>3. PICK w, k : WithinFrame(w, k)
  BY <1>2 DEF BusInv, InACall
<1> DEFINE n == k + Put1
<1>4. /\ w \in Frames(op, entryCount, crash) /\ k \in 0 .. Len(w) /\ n <= Len(w)
      /\ Follows(frame, w, n)
  BY <1>1, <1>3 DEF WithinFrame, Within, Heard
<1>5. w \in Seq(Transfers) /\ Put1 \in {0, 1}
  BY <1>4, FramesAreTransfers DEF Put1
<1>6. n \in 0 .. Len(w)
  BY <1>4, <1>5
<1> HIDE DEF n
<1>7. frame \notin {Bus!Ignored, <<Bus!READ_STATUS>>}
  <2> DEFINE l == Len(frame)
  <2>1. frame \in Seq(Nat)
    BY DEF BusInv, Types
  <2>2. l \in Nat /\ l >= 2
    BY <2>1
  <2> HIDE DEF l
  <2>3. l # 1
    BY <2>2
  <2> QED BY <2>3, IgnoredIsShort DEF l
<1>8. frame = Bytes(w, n)
  BY <1>4, <1>7 DEF Follows
<1>9. HeardOf(w, n)
  BY <1>4, <1>5, <1>6, <1>8, BytesFacts DEF HeardOf
<1> QED BY <1>9

\* The sector an erase is of.
LEMMA EraseBegins ==
  ASSUME Assumed, BusInv, NEW w, NEW n, HeardOf(w, n), n >= 1, frame[1] = Bus!SECTOR_ERASE
  PROVE  \E addr \in Nat : /\ Instructs(w, Bus!transfer(Bus!SECTOR_ERASE), addr) /\ Len(w) = 4
                           /\ addr \div SectorWords = op.addr \div SectorWords
                           /\ ~Bus!InHandler => addr = op.addr
<1>1. op.addr \in Nat /\ entryCount \in Nat /\ crash \in Nat
  BY DEF BusInv, Types
<1>2. w \in Frames(op, entryCount, crash) /\ w[1].byte = Bus!SECTOR_ERASE
  BY DEF HeardOf
<1>3. \/ op.kind = "erase" /\ w = Erasing(op.addr)
      \/ op.addr = Bus!SlotAddr(0) /\ op.kind = "record" /\ w = Erasing(Bus!CrashSector)
  BY <1>1, <1>2, FrameKinds
<1>4. CASE w = Erasing(op.addr)
  BY <1>1, <1>4, ErasingSent
<1>5. CASE op.addr = Bus!SlotAddr(0) /\ op.kind = "record" /\ w = Erasing(Bus!CrashSector)
  <2>1. Bus!CrashSector \in Nat /\ Bus!InHandler
    BY <1>5, Numbers DEF Bus!InHandler
  <2>2. Bus!CrashSector \div SectorWords = op.addr \div SectorWords
    BY <1>5, Numbers DEF Assumed, Bus!BusAssumption
  <2>3. Instructs(w, Bus!transfer(Bus!SECTOR_ERASE), Bus!CrashSector) /\ Len(w) = 4
    BY <1>5, <2>1, ErasingSent
  <2> QED BY <2>1, <2>2, <2>3
<1> QED BY <1>3, <1>4, <1>5

\* Where an erase can go: by the end of its own frame, and by the radio's bytes.
LEMMA ErasedAsAsked ==
  ASSUME Assumed, BusInv, Bus!RaiseCs, cs = "low", Len(frame) = 4, frame[1] = Bus!SECTOR_ERASE
  PROVE  Bus!AddressIn(frame) \div SectorWords = op.addr \div SectorWords
<1>1. PICK w : HeardOf(w, Len(w)) /\ Len(frame) = Len(w)
  BY HeardWhole
<1>2. PICK addr \in Nat : /\ Instructs(w, Bus!transfer(Bus!SECTOR_ERASE), addr) /\ Len(w) = 4
                         /\ addr \div SectorWords = op.addr \div SectorWords
  <2> DEFINE m == Len(w)
  <2>1. m = 4
    BY <1>1
  <2> HIDE DEF m
  <2>2. m >= 1
    BY <2>1
  <2>3. Len(w) >= 1
    BY <2>2 DEF m
  <2> QED BY <1>1, <2>3, EraseBegins
<1>3. frame \in Seq(Nat) /\ w \in Seq(Transfers) /\ \A i \in 1 .. 4 : frame[i] = w[i].byte
  BY <1>1, <1>2 DEF BusInv, Types, HeardOf
<1>4. Bus!AddressIn(frame) = addr
  BY <1>2, <1>3, AddressOf
<1> QED BY <1>2, <1>4

\* The radio completes an erase after two of its bytes only.  Its own, 7 and 255, are then
\* the lower ones of the address: 2047 in the block asked for, so in its first sector.
LEMMA ErasedAstray ==
  ASSUME Assumed, BusInv, ~Bus!InHandler, Len(StatusFrame) = 4,
         StatusFrame[1] = Bus!SECTOR_ERASE
  PROVE  Bus!AddressIn(StatusFrame) \div SectorWords = (op.addr \div 65536) * 16
<1>1. /\ cs = "low" /\ Len(frame) = 2 /\ StatusFrame[1] = frame[1] /\ StatusFrame[2] = frame[2]
      /\ StatusFrame[3] = 7 /\ StatusFrame[4] = 255
  <2>1. cs = "low"
    BY RadioFrames DEF BusInv, Types
  <2>2. Len(frame) \in Nat
    BY DEF BusInv, Types
  <2>3. Len(frame) = 2
    <3> DEFINE m == Len(StatusFrame)
               l == Len(frame)
    <3>1. m = l + 2 /\ m = 4 /\ l \in Nat
      BY <2>1, <2>2, RadioFrames
    <3> HIDE DEF l, m
    <3>2. l = 2
      BY <3>1
    <3> QED BY <3>2 DEF l
  <2> QED BY <2>1, <2>3, RadioFrames
<1>2. PICK w, n : HeardOf(w, n)
  BY <1>1, HeardPart
<1>3. n = 2 /\ frame[1] = Bus!SECTOR_ERASE /\ frame[2] = w[2].byte
  <2>1. n = 2
    BY <1>1, <1>2 DEF HeardOf
  <2>2. 2 \in 1 .. n
    BY <2>1
  <2> QED BY <1>1, <1>2, <2>1, <2>2 DEF HeardOf
<1>4. Instructs(w, Bus!transfer(Bus!SECTOR_ERASE), op.addr)
  BY <1>2, <1>3, EraseBegins
<1> DEFINE q == op.addr \div 65536
<1>5. q \in Nat
  BY AddressParts DEF BusInv, Types
<1>6. frame[2] = q
  BY <1>3, <1>4, StepKinds DEF Instructs
<1> HIDE DEF q
<1>7. Bus!AddressIn(StatusFrame) = (q * 65536) + 2047
  BY <1>1, <1>5, <1>6 DEF Bus!AddressIn
<1>8. ((q * 65536) + 2047) \div 4096 = q * 16
  <2>1. /\ (q * 65536) + 2047 \in Nat /\ q * 16 \in Nat /\ (q * 16) * 4096 <= (q * 65536) + 2047
        /\ (q * 65536) + 2047 < ((q * 16) + 1) * 4096
    BY <1>5
  <2> DEFINE x == (q * 65536) + 2047
             y == q * 16
  <2> HIDE DEF x, y
  <2>2. x \div 4096 = y
    BY <2>1, Quotient DEF x, y
  <2> QED BY <2>2 DEF x, y
<1> QED BY <1>7, <1>8 DEF q, Assumed, Bus!BusAssumption

\* The steps that change what the flash holds.
LEMMA FlashChanges ==
  ASSUME Assumed, BusInv, [Bus!Next]_Bus!vars
  PROVE  \/ flash'.mem = flash.mem
         \/ /\ Bus!RaiseCs /\ cs = "low" /\ OnlyErases(flash, flash', frame)
            /\ OnlyPrograms(flash, flash', frame)
         \/ /\ ~Bus!InHandler /\ OnlyErases(flash, flash', StatusFrame)
            /\ OnlyPrograms(flash, flash', StatusFrame)
<1>1. flash \in Flash /\ frame \in Seq(Nat)
  BY DEF BusInv, Types
<1>2. CASE Bus!RaiseCs
  <2>1. flash' = IF cs = "low" THEN Bus!EndOfFrame(flash, frame) ELSE flash
    BY <1>2 DEF Bus!RaiseCs
  <2> QED BY <1>1, <1>2, <2>1, FrameEnds
<1>3. CASE Bus!FlashDone
  BY <1>1, <1>3 DEF Bus!FlashDone, Flash
<1>4. CASE \E available \in BOOLEAN : Bus!RadioRound(available)
  <2>1. PICK available \in BOOLEAN : Bus!RadioRound(available)
    BY <1>4
  <2>2. ~Bus!InHandler
    BY <2>1 DEF Bus!RadioRound
  <2> QED BY <2>1, <2>2, RoundOfRadio
<1>5. CASE UNCHANGED flash
  BY <1>5
<1> QED
  <2>1. Bus!Logger => UNCHANGED flash \/ Bus!RaiseCs
    BY DEF Bus!Logger, Bus!WriteEntry, Bus!SectorErased, Bus!EntryWritten, Bus!LowerCs, Bus!Put,
           Bus!Get
  <2>2. Bus!Handler \/ Bus!HardFault => UNCHANGED flash
    BY DEF Bus!Handler, Bus!SlotRead, Bus!SystemReset, Bus!HandlerTransfer, Bus!HardFault
  <2>3. UNCHANGED Bus!vars => UNCHANGED flash
    BY DEF Bus!vars
  <2> QED BY <1>2, <1>3, <1>4, <1>5, <2>1, <2>2, <2>3 DEF Bus!Next

\* So wherever a cell is erased, it is in one of two sectors.
LEMMA EraseStep ==
  ASSUME Assumed, BusInv, [Bus!Next]_Bus!vars, NEW a \in Cells,
         flash'.mem[a] = Bus!Erased, flash.mem[a] # Bus!Erased
  PROVE  a \div SectorWords \in {op.addr \div SectorWords, (op.addr \div 65536) * 16}
<1>1. CASE /\ Bus!RaiseCs /\ cs = "low" /\ OnlyErases(flash, flash', frame)
  BY <1>1, ErasedAsAsked DEF OnlyErases
<1>2. CASE ~Bus!InHandler /\ OnlyErases(flash, flash', StatusFrame)
  BY <1>2, ErasedAstray DEF OnlyErases
<1> QED BY <1>1, <1>2, FlashChanges

-----------------------------------------------------------------------------
\* Where a page program goes.
LEMMA TargetAhead ==
  ASSUME Assumed, NEW addr \in Nat, NEW i \in Nat, (addr % PageWords) + i < PageWords
  PROVE  Bus!Target(addr, i) = addr + i
<1> DEFINE r == addr % PageWords
<1>1. PageWords \in Nat /\ 0 < PageWords
  BY DEF Assumed, Bus!FlashAssumption
<1>2. r \in Nat /\ r + i \in 0 .. PageWords - 1
  BY <1>1, ModFacts
<1> HIDE DEF r
<1>3. ((0 * PageWords) + (r + i)) % PageWords = r + i
  BY <1>1, <1>2, ModUnique
<1>4. (0 * PageWords) + (r + i) = r + i
  BY <1>1, <1>2
<1>5. (r + i) % PageWords = r + i
  BY <1>3, <1>4
<1>6. Bus!Target(addr, i) = (addr - r) + ((r + i) % PageWords)
  BY DEF Bus!Target, r
<1> QED BY <1>2, <1>5, <1>6

\* An entry and two bytes more fit on its page: a program does not wrap around to its start.
LEMMA EntryHasRoom ==
  ASSUME Assumed, BusInv, op.kind = "program"
  PROVE  (op.addr % PageWords) + EntryBytes + 2 <= PageWords
<1>1. PICK start \in Starts \cup {Bus!FLASH_BLACKBOX_ADDR} :
        writeAddr = start + (entryCount * EntryBytes)
  BY DEF BusInv, InPlace
<1>2. op.addr = writeAddr /\ entryCount < MaxEntries /\ entryCount \in Nat /\ MaxEntries \in Nat
  BY DEF BusInv, InPlace, Types, Assumed, Bus!BusAssumption
<1>3. entryCount \in 0 .. MaxEntries - 1
  BY <1>2
<1> QED BY <1>1, <1>2, <1>3 DEF Assumed, Bus!RoomAssumption

\* A page program that the logger has begun.
LEMMA ProgramBegins ==
  ASSUME Assumed, BusInv, ~Bus!InHandler, NEW w, NEW n, HeardOf(w, n), n >= 1,
         frame[1] = Bus!PAGE_PROGRAM
  PROVE  /\ op.kind = "program" /\ Len(w) = 4 + EntryBytes
         /\ Instructs(w, Bus!transfer(Bus!PAGE_PROGRAM), op.addr)
<1>1. op.addr \in Nat /\ entryCount \in Nat /\ crash \in Nat
  BY DEF BusInv, Types
<1>2. w \in Frames(op, entryCount, crash) /\ w[1].byte = Bus!PAGE_PROGRAM
  BY DEF HeardOf
<1>3. op.kind = "program" /\ w = Programming(op.addr, Bus!LogEntry(entryCount))
  <2>1. op.kind # "record"
    BY DEF Bus!InHandler
  <2> QED BY <1>1, <1>2, <2>1, FrameKinds
<1>4. Bus!LogEntry(entryCount) \in Seq(Nat) /\ Len(Bus!LogEntry(entryCount)) = EntryBytes
  BY <1>1, Entries
<1>5. /\ Instructs(w, Bus!transfer(Bus!PAGE_PROGRAM), op.addr)
      /\ Len(w) = 4 + Len(Bus!LogEntry(entryCount))
  BY <1>1, <1>3, <1>4, ProgrammingSent
<1> QED BY <1>3, <1>4, <1>5

\* What is heard of it goes from the entry's address on, as does what the radio adds.
LEMMA ProgramGoesOn ==
  ASSUME Assumed, BusInv, ~Bus!InHandler, NEW w, NEW n, HeardOf(w, n), n >= 4,
         frame[1] = Bus!PAGE_PROGRAM, NEW seen \in Seq(Nat), Len(seen) >= 4,
         \A i \in 1 .. 4 : seen[i] = frame[i],
         NEW i \in Nat, i <= EntryBytes + 1
  PROVE  Bus!Target(Bus!AddressIn(seen), i) \in op.addr .. op.addr + EntryBytes + 1
<1>1. /\ op.kind = "program" /\ Len(w) = 4 + EntryBytes
      /\ Instructs(w, Bus!transfer(Bus!PAGE_PROGRAM), op.addr)
  <2>1. n >= 1
    BY DEF HeardOf
  <2> QED BY <2>1, ProgramBegins
<1>2. op.addr \in Nat /\ EntryBytes \in Nat /\ PageWords \in Nat /\ 0 < PageWords
  BY DEF BusInv, Types, Assumed, Bus!BusAssumption, Bus!FlashAssumption
<1>3. w \in Seq(Transfers) /\ \A j \in 1 .. 4 : seen[j] = w[j].byte
  BY DEF HeardOf
<1>4. Bus!AddressIn(seen) = op.addr
  BY <1>1, <1>2, <1>3, AddressOf
<1> DEFINE r == op.addr % PageWords
<1>5. r \in Nat /\ r + EntryBytes + 2 <= PageWords
  BY <1>1, <1>2, EntryHasRoom, ModFacts
<1>6. r + i < PageWords
  <2> HIDE DEF r
  <2> QED BY <1>2, <1>5
<1>7. Bus!Target(op.addr, i) = op.addr + i
  BY <1>2, <1>6, TargetAhead
<1> QED BY <1>2, <1>4, <1>7

\* So wherever a byte is programmed, it is in the entry or the two bytes behind it.
LEMMA ProgramStep ==
  ASSUME Assumed, BusInv, [Bus!Next]_Bus!vars, ~Bus!InHandler, NEW a \in Cells,
         ~(flash'.mem[a] \subseteq flash.mem[a])
  PROVE  a \in op.addr .. op.addr + EntryBytes + 1
<1>1. frame \in Seq(Nat) /\ Len(frame) \in Nat /\ EntryBytes \in Nat /\ cs \in {"low", "high"}
  BY DEF BusInv, Types, Assumed, Bus!BusAssumption
<1>2. CASE Bus!RaiseCs /\ cs = "low" /\ OnlyPrograms(flash, flash', frame)
  <2>1. /\ Len(frame) > 4 /\ frame[1] = Bus!PAGE_PROGRAM
        /\ \E i \in 0 .. Len(frame) - 5 : Bus!Target(Bus!AddressIn(frame), i) = a
    BY <1>2 DEF OnlyPrograms
  <2>2. PICK i \in 0 .. Len(frame) - 5 : Bus!Target(Bus!AddressIn(frame), i) = a
    BY <2>1
  <2>3. PICK w : HeardOf(w, Len(w)) /\ Len(frame) = Len(w)
    BY <1>1, <1>2, <2>1, HeardWhole
  <2>4. Len(w) >= 4 /\ Len(w) >= 1
    BY <1>1, <2>1, <2>3
  <2>5. Len(w) = 4 + EntryBytes
    BY <2>1, <2>3, <2>4, ProgramBegins
  <2>6. i \in Nat /\ i <= EntryBytes + 1
    BY <1>1, <2>2, <2>3, <2>5
  <2>7. Len(frame) >= 4
    BY <1>1, <2>1
  <2> QED BY <1>1, <2>1, <2>2, <2>3, <2>4, <2>6, <2>7, ProgramGoesOn
<1>3. CASE OnlyPrograms(flash, flash', StatusFrame)
  <2>1. /\ Len(StatusFrame) > 4 /\ StatusFrame[1] = Bus!PAGE_PROGRAM
        /\ \E i \in 0 .. Len(StatusFrame) - 5 :
             Bus!Target(Bus!AddressIn(StatusFrame), i) = a /\ StatusFrame[5 + i] # Bus!Ones
    BY <1>3 DEF OnlyPrograms
  <2> DEFINE s == StatusFrame
             l == Len(frame)
  <2>2. PICK i \in 0 .. Len(s) - 5 :
          Bus!Target(Bus!AddressIn(s), i) = a /\ s[5 + i] # Bus!Ones
    BY <2>1
  <2>3. cs = "low"
    <3> SUFFICES ASSUME cs = "high" PROVE FALSE
      BY <1>1
    <3> DEFINE m == Len(StatusFrame)
    <3>1. m = 2 /\ m > 4
      BY <2>1, RadioFrames
    <3> HIDE DEF m
    <3> QED BY <3>1
  <2>4. /\ s \in Seq(Nat) /\ Len(s) = l + 2 /\ \A j \in 1 .. l : s[j] = frame[j]
        /\ s[l + 1] = 7 /\ s[l + 2] = 255
    BY <2>3, RadioFrames
  <2> HIDE DEF s
  <2>5. l \in Nat /\ l >= 3 /\ i \in Nat /\ i <= l - 3
    BY <1>1, <2>1, <2>2, <2>4 DEF s
  <2>6. PICK w, n : HeardOf(w, n)
    <3>1. Len(frame) >= 2
      BY <2>5
    <3> QED BY <2>3, <3>1, HeardPart
  <2>7. n = l /\ n <= Len(w) /\ Len(w) \in Nat
    BY <1>1, <2>6 DEF HeardOf
  <2> HIDE DEF l
  <2>8. frame[1] = Bus!PAGE_PROGRAM /\ n >= 1
    BY <2>1, <2>4, <2>5, <2>7 DEF s
  <2>9. Len(w) = 4 + EntryBytes
    BY <2>6, <2>8, ProgramBegins
  <2>10. l # 3
    <3> SUFFICES ASSUME l = 3 PROVE FALSE
      OBVIOUS
    <3>1. i = 0 /\ l + 2 = 5
      BY <2>5
    <3>2. s[5 + i] = 255
      BY <2>4, <3>1
    <3> QED BY <2>2, <3>2, Numbers
  <2>11. n >= 4 /\ i <= EntryBytes + 1
    BY <1>1, <2>5, <2>7, <2>9, <2>10
  <2>12. Len(s) >= 4 /\ \A j \in 1 .. 4 : s[j] = frame[j]
    BY <2>4, <2>5, <2>7, <2>11
  <2> QED BY <2>2, <2>4, <2>5, <2>6, <2>8, <2>11, <2>12, ProgramGoesOn
<1> QED BY <1>2, <1>3, FlashChanges

-----------------------------------------------------------------------------
(***************************************************************************)
(* What a call that nobody disturbs leaves in the flash.                   *)
(***************************************************************************)

\* What is left of a call of which p steps are done.
Left(s, call, p) ==
  /\ s \in Seq(Steps) /\ p \in 0 .. Len(call) /\ Len(s) = Len(call) - p
  /\ \A i \in 1 .. Len(s) : s[i] = call[p + i]

\* The bytes of an erase or of a page program, and what it makes of the memory.
IsInstruction(b) ==
  /\ b \in Seq(Nat)
  /\ \/ Len(b) = 4 /\ b[1] = Bus!SECTOR_ERASE
     \/ Len(b) > 4 /\ b[1] = Bus!PAGE_PROGRAM

Made(b, mem) ==
  IF Len(b) = 4 THEN Bus!EraseSector(mem, Bus!AddressIn(b))
  ELSE Bus!Stored(mem, Bus!AddressIn(b), SubSeq(b, 5, Len(b)))

\* After o steps a call enables writing, sends an instruction and waits for its end.
Carries(call, o, b) ==
  /\ call \in Seq(Steps) /\ o \in Nat /\ IsInstruction(b) /\ o + 9 + Len(b) <= Len(call)
  /\ call[o + 1] = Bus!csLow
  /\ call[o + 2] = Bus!transfer(Bus!WRITE_ENABLE)
  /\ call[o + 3] = Bus!csHigh
  /\ call[o + 4] = Bus!csLow
  /\ \A i \in 1 .. Len(b) : call[o + 4 + i] = Bus!transfer(b[i])
  /\ call[o + 5 + Len(b)] = Bus!csHigh
  /\ call[o + 6 + Len(b)] = Bus!csLow
  /\ call[o + 7 + Len(b)] = Bus!transfer(Bus!READ_STATUS)
  /\ call[o + 8 + Len(b)] = Bus!untilReady
  /\ call[o + 9 + Len(b)] = Bus!csHigh

\* What the flash has heard of the current frame when n of these steps have been put on
\* the bus.
Has(seen, b, n) ==
  /\ seen \in Seq(Nat)
  /\ n \in {1, 6 + Len(b)} => seen = <<>>
  /\ n = 2 => seen = <<Bus!WRITE_ENABLE>>
  /\ n \in 4 .. 4 + Len(b) => Len(seen) = n - 4 /\ \A i \in 1 .. n - 4 : seen[i] = b[i]
  /\ n \in {7 + Len(b), 8 + Len(b)} => seen = <<Bus!READ_STATUS>>

\* With q of these steps done, the instruction is to make the memory wanted, or has.
AtStep(call, o, b, wanted, q) ==
  /\ Carries(call, o, b) /\ q \in 0 .. 9 + Len(b) /\ Left(script, call, o + q)
  /\ inFlight => q \in {1, 6 + Len(b), 7 + Len(b)} \cup 4 .. 3 + Len(b)
  /\ q < 5 + Len(b) => ~flash.busy /\ Made(b, flash.mem) = wanted
  /\ q >= 5 + Len(b) => flash.mem = wanted
  /\ q >= 8 + Len(b) => ~flash.busy
  /\ q \in 3 .. 4 + Len(b) => flash.wel
  /\ cs = "high" <=> q \in {0, 3, 5 + Len(b), 9 + Len(b)}
  /\ cs = "low" => Has(frame, b, IF inFlight THEN q + 1 ELSE q)

\* One instruction is left to make, or two.
LastOf(call, o, b, q) == AtStep(call, o, b, want, q) /\ Len(call) = o + 9 + Len(b)

FirstOf(call, b, c, wanted, q) ==
  /\ AtStep(call, 0, b, wanted, q) /\ q < 9 + Len(b)
  /\ Carries(call, 9 + Len(b), c) /\ Len(call) = 18 + Len(b) + Len(c)
  /\ Made(c, wanted) = want

OnItsWay ==
  \/ \E call, o, b, q : LastOf(call, o, b, q)
  \/ \E call, b, c, wanted, q : FirstOf(call, b, c, wanted, q)

Writes == {"erase", "program", "record"}

WritesWhole ==
  op.kind \in Writes /\ ~cutIn => OnItsWay /\ (Bus!InHandler => ~inFlight)

LEMMA Instructions ==
  ASSUME NEW b, IsInstruction(b)
  PROVE  b \in Seq(Nat) /\ Len(b) \in Nat /\ Len(b) >= 4 /\ b[1] \in {2, 32}
<1>1. b \in Seq(Nat) /\ Len(b) \in Nat
  BY DEF IsInstruction
<1>2. (Len(b) = 4 /\ b[1] = 32) \/ (Len(b) > 4 /\ b[1] = 2)
  BY Numbers DEF IsInstruction
<1>3. CASE Len(b) = 4 /\ b[1] = 32
  BY <1>1, <1>3
<1>4. CASE Len(b) > 4 /\ b[1] = 2
  BY <1>1, <1>4
<1> QED BY <1>2, <1>3, <1>4

\* What is left of a call, one step on.
LEMMA LeftOn ==
  ASSUME NEW call \in Seq(Steps), NEW s, NEW p, Left(s, call, p)
  PROVE  /\ s = <<>> <=> p = Len(call)
         /\ s # <<>> => /\ p < Len(call) /\ Head(s) = call[p + 1]
                        /\ Left(Tail(s), call, p + 1)
<1>1. s \in Seq(Steps) /\ Len(s) \in Nat /\ Len(call) \in Nat /\ p \in Nat
      /\ p <= Len(call) /\ Len(s) = Len(call) - p
  BY DEF Left
<1>2. s = <<>> <=> Len(s) = 0
  BY <1>1
<1>3. ASSUME s # <<>>
      PROVE  p < Len(call) /\ Head(s) = call[p + 1] /\ Left(Tail(s), call, p + 1)
  <2>1. Len(s) >= 1 /\ Head(s) = s[1] /\ Len(Tail(s)) = Len(s) - 1 /\ Tail(s) \in Seq(Steps)
        /\ \A i \in 1 .. Len(s) - 1 : Tail(s)[i] = s[i + 1]
    BY <1>1, <1>2, <1>3
  <2> DEFINE t == Tail(s)
  <2>2. Len(t) = Len(s) - 1 /\ t \in Seq(Steps) /\ \A i \in 1 .. Len(s) - 1 : t[i] = s[i + 1]
    BY <2>1
  <2> HIDE DEF t
  <2>3. s[1] = call[p + 1]
    BY <1>1, <2>1 DEF Left
  <2>4. ASSUME NEW i \in 1 .. Len(t) PROVE t[i] = call[(p + 1) + i]
    <3>1. i + 1 \in 1 .. Len(s) /\ i \in 1 .. Len(s) - 1 /\ p + (i + 1) = (p + 1) + i
      BY <1>1, <2>2
    <3>2. s[i + 1] = call[p + (i + 1)]
      BY <3>1 DEF Left
    <3> QED BY <2>2, <3>1, <3>2
  <2>5. Left(t, call, p + 1)
    BY <1>1, <2>1, <2>2, <2>4 DEF Left
  <2> QED BY <1>1, <2>1, <2>3, <2>5 DEF t
<1> QED BY <1>1, <1>2, <1>3

\* The steps of a call that carries an instruction, by their kinds.
LEMMA StepsCarried ==
  ASSUME NEW call, NEW o, NEW b, Carries(call, o, b), NEW q \in 0 .. 8 + Len(b)
  PROVE  /\ Len(b) \in Nat /\ Len(b) >= 4
         /\ call[o + q + 1].do = "low" => q \in {0, 3, 5 + Len(b)}
         /\ call[o + q + 1].do = "high" => q \in {2, 4 + Len(b), 8 + Len(b)}
         /\ call[o + q + 1].do \in {"byte", "poll", "take"} =>
              /\ q \in {1, 6 + Len(b), 7 + Len(b)} \cup 4 .. 3 + Len(b)
              /\ call[o + q + 1].byte \in Nat
              /\ q = 1 => call[o + q + 1].byte = Bus!WRITE_ENABLE
              /\ q \in 4 .. 3 + Len(b) => call[o + q + 1].byte = b[q - 3]
              /\ q = 6 + Len(b) => call[o + q + 1].byte = Bus!READ_STATUS
         /\ call[o + q + 1].do = "poll" => q = 7 + Len(b)
         /\ call[o + q + 1].do = "byte" => q # 7 + Len(b)
         /\ call[o + q + 1].do \in {"low", "high", "byte", "poll"}
<1> DEFINE N == Len(b)
           s == call[o + q + 1]
<1>1. N \in Nat /\ N >= 4 /\ o \in Nat /\ b \in Seq(Nat)
  <2>1. o \in Nat /\ IsInstruction(b)
    BY DEF Carries
  <2> QED BY <2>1, Instructions
<1>2. /\ q = 0 => s = Bus!csLow
      /\ q = 1 => s = Bus!transfer(Bus!WRITE_ENABLE)
      /\ q = 2 => s = Bus!csHigh
      /\ q = 3 => s = Bus!csLow
      /\ q \in 4 .. 3 + N => s = Bus!transfer(b[q - 3])
      /\ q = 4 + N => s = Bus!csHigh
      /\ q = 5 + N => s = Bus!csLow
      /\ q = 6 + N => s = Bus!transfer(Bus!READ_STATUS)
      /\ q = 7 + N => s = Bus!untilReady
      /\ q = 8 + N => s = Bus!csHigh
  <2>1. q \in 4 .. 3 + N => s = Bus!transfer(b[q - 3])
    <3> SUFFICES ASSUME q \in 4 .. 3 + N PROVE s = Bus!transfer(b[q - 3])
      OBVIOUS
    <3>1. q - 3 \in 1 .. N /\ o + 4 + (q - 3) = o + q + 1
      BY <1>1
    <3>2. \A i \in 1 .. N : call[o + 4 + i] = Bus!transfer(b[i])
      BY DEF Carries
    <3> QED BY <3>1, <3>2
  <2>2. /\ call[o + 1] = Bus!csLow
        /\ call[o + 2] = Bus!transfer(Bus!WRITE_ENABLE)
        /\ call[o + 3] = Bus!csHigh
        /\ call[o + 4] = Bus!csLow
        /\ call[o + 5 + N] = Bus!csHigh
        /\ call[o + 6 + N] = Bus!csLow
        /\ call[o + 7 + N] = Bus!transfer(Bus!READ_STATUS)
        /\ call[o + 8 + N] = Bus!untilReady
        /\ call[o + 9 + N] = Bus!csHigh
    BY DEF Carries
  <2>3. /\ q = 0 => o + q + 1 = o + 1
        /\ q = 1 => o + q + 1 = o + 2
        /\ q = 2 => o + q + 1 = o + 3
        /\ q = 3 => o + q + 1 = o + 4
        /\ q = 4 + N => o + q + 1 = o + 5 + N
        /\ q = 5 + N => o + q + 1 = o + 6 + N
        /\ q = 6 + N => o + q + 1 = o + 7 + N
        /\ q = 7 + N => o + q + 1 = o + 8 + N
        /\ q = 8 + N => o + q + 1 = o + 9 + N
    BY <1>1
  <2> HIDE DEF N
  <2> QED BY <2>1, <2>2, <2>3
<1>3. /\ q \in {0, 1, 2, 3, 4 + N, 5 + N, 6 + N, 7 + N, 8 + N} \cup 4 .. 3 + N
  BY <1>1
<1>4. q \in 4 .. 3 + N => b[q - 3] \in Nat
  BY <1>1
<1>5. Bus!untilReady.do = "poll" /\ Bus!untilReady.byte = 0
  BY DEF Bus!untilReady
<1> HIDE DEF N, s
<1>6. CASE q \in {0, 3, 5 + N}
  <2>1. s.do = "low"
    BY <1>2, <1>6, StepKinds
  <2> QED BY <1>1, <1>6, <2>1 DEF N, s
<1>7. CASE q \in {2, 4 + N, 8 + N}
  <2>1. s.do = "high"
    BY <1>2, <1>7, StepKinds
  <2> QED BY <1>1, <1>7, <2>1 DEF N, s
<1>8. CASE q = 1
  <2>1. s.do = "byte" /\ s.byte = Bus!WRITE_ENABLE
    BY <1>2, <1>8, StepKinds
  <2> QED BY <1>1, <1>8, <2>1, Numbers DEF N, s
<1>9. CASE q \in 4 .. 3 + N
  <2>1. s.do = "byte" /\ s.byte = b[q - 3]
    BY <1>2, <1>9, StepKinds
  <2> QED BY <1>1, <1>4, <1>9, <2>1 DEF N, s
<1>10. CASE q = 6 + N
  <2>1. s.do = "byte" /\ s.byte = Bus!READ_STATUS
    BY <1>2, <1>10, StepKinds
  <2> QED BY <1>1, <1>10, <2>1, Numbers DEF N, s
<1>11. CASE q = 7 + N
  <2>1. s.do = "poll" /\ s.byte = 0
    BY <1>2, <1>5, <1>11
  <2> QED BY <1>1, <1>11, <2>1 DEF N, s
<1> QED BY <1>3, <1>6, <1>7, <1>8, <1>9, <1>10, <1>11

\* Nobody else on the bus, the flash hears the bytes one by one.
LEMMA HasMore ==
  ASSUME NEW b, IsInstruction(b), NEW seen, NEW byte \in Nat, NEW f,
         NEW q \in {1, 6 + Len(b), 7 + Len(b)} \cup 4 .. 3 + Len(b), Has(seen, b, q),
         q < 5 + Len(b) => ~f.busy,
         q = 1 => byte = Bus!WRITE_ENABLE, q \in 4 .. 3 + Len(b) => byte = b[q - 3],
         q = 6 + Len(b) => byte = Bus!READ_STATUS
  PROVE  Has(Bus!Received(f, seen, byte), b, q + 1)
<1> DEFINE N == Len(b)
           r == Bus!Received(f, seen, byte)
<1>1. N \in Nat /\ N >= 4 /\ b \in Seq(Nat) /\ seen \in Seq(Nat) /\ b[1] \in {2, 32}
  BY Instructions DEF Has
<1>2. CASE q = 1
  <2>1. seen = <<>> /\ byte = 6 /\ ~f.busy
    BY <1>1, <1>2, Numbers DEF Has
  <2>2. r = <<6>>
    BY <2>1, Numbers DEF Bus!Received, Bus!Ignored
  <2> QED BY <1>1, <1>2, <2>2, Numbers DEF Has
<1>3. CASE q \in 4 .. 3 + N
  <2>1. Len(seen) = q - 4 /\ (\A i \in 1 .. q - 4 : seen[i] = b[i]) /\ byte = b[q - 3] /\ ~f.busy
    BY <1>1, <1>3 DEF Has
  <2>2. seen \notin {Bus!Ignored, <<Bus!READ_STATUS>>}
    <3> DEFINE short == {<<0>>, <<5>>}
    <3> SUFFICES ASSUME seen \in short PROVE FALSE
      BY Numbers DEF Bus!Ignored
    <3>1. Len(seen) = 1 /\ seen[1] \in {0, 5}
      OBVIOUS
    <3>2. q - 4 = 1
      BY <2>1, <3>1
    <3>3. seen[1] = b[1]
      BY <2>1, <3>2
    <3> QED BY <1>1, <3>1, <3>3
  <2>3. r = Append(seen, byte)
    BY <2>1, <2>2 DEF Bus!Received
  <2>4. r \in Seq(Nat) /\ Len(r) = q - 3 /\ \A i \in 1 .. q - 3 : r[i] = b[i]
    <3>1. Append(seen, byte) \in Seq(Nat) /\ Len(Append(seen, byte)) = Len(seen) + 1
          /\ Append(seen, byte)[Len(seen) + 1] = byte
          /\ \A i \in 1 .. Len(seen) : Append(seen, byte)[i] = seen[i]
      BY <1>1
    <3> HIDE DEF r
    <3> QED BY <1>3, <2>1, <2>3, <3>1
  <2>5. /\ q + 1 \notin {1, 6 + N} /\ q + 1 # 2 /\ q + 1 \notin {7 + N, 8 + N}
        /\ (q + 1) - 4 = q - 3
    BY <1>1, <1>3
  <2> HIDE DEF r
  <2> QED BY <2>4, <2>5 DEF Has, r
<1>4. CASE q = 6 + N
  <2>1. seen = <<>> /\ byte = 5
    BY <1>1, <1>4, Numbers DEF Has
  <2>2. r = <<5>>
    BY <2>1, Numbers DEF Bus!Received, Bus!Ignored
  <2> QED BY <1>1, <1>4, <2>2, Numbers DEF Has
<1>5. CASE q = 7 + N
  <2>1. seen = <<Bus!READ_STATUS>>
    BY <1>1, <1>5 DEF Has
  <2>2. r = seen
    BY <1>1, <2>1, ReceivedFacts
  <2> HIDE DEF r
  <2>3. q + 1 \notin 4 .. 4 + N /\ q + 1 \notin {1, 6 + N} /\ q + 1 # 2
    BY <1>1, <1>5
  <2>4. r \in Seq(Nat) /\ r = <<Bus!READ_STATUS>>
    BY <1>1, <2>1, <2>2
  <2> HIDE DEF r
  <2> QED BY <2>3, <2>4 DEF Has, r
<1> QED BY <1>2, <1>3, <1>4, <1>5 DEF N

\* What the frames of an undisturbed call make of the flash.
LEMMA FramesMake ==
  ASSUME NEW f \in Flash
  PROVE  /\ Bus!Latched(f, <<Bus!WRITE_ENABLE>>) = [f EXCEPT !.wel = TRUE]
         /\ \A b : IsInstruction(b) /\ f.wel => Bus!Latched(f, b).mem = Made(b, f.mem)
         /\ \A seen \in Seq(Nat) :
              seen # <<Bus!WRITE_ENABLE>> /\ (Len(seen) < 4 \/ seen[1] \notin {2, 32}) =>
                Bus!Latched(f, seen) = f
<1>1. Bus!Latched(f, <<Bus!WRITE_ENABLE>>) = [f EXCEPT !.wel = TRUE]
  BY DEF Bus!Latched
<1>2. ASSUME NEW b, IsInstruction(b), f.wel
      PROVE  Bus!Latched(f, b).mem = Made(b, f.mem)
  <2> DEFINE made == Bus!EraseSector(f.mem, Bus!AddressIn(b))
             stored == Bus!Stored(f.mem, Bus!AddressIn(b), SubSeq(b, 5, Len(b)))
  <2>0. PICK n \in Nat : n = Len(b) /\ n >= 4 /\ Len(<<Bus!WRITE_ENABLE>>) = 1
    BY <1>2, Instructions
  <2>1. b # <<Bus!WRITE_ENABLE>>
    <3>1. Len(b) # 1
      BY <2>0
    <3> QED BY <2>0, <3>1
  <2> HIDE DEF made, stored
  <2>2. CASE Len(b) = 4 /\ b[1] = Bus!SECTOR_ERASE
    <3>1. Bus!Latched(f, b) = [mem |-> made, wel |-> FALSE, busy |-> TRUE]
      BY <1>2, <2>1, <2>2 DEF Bus!Latched, made
    <3> QED BY <2>2, <3>1 DEF Made, made
  <2>3. CASE Len(b) > 4 /\ b[1] = Bus!PAGE_PROGRAM
    <3>1. Len(b) # 4
      BY <2>0, <2>3
    <3>2. Bus!Latched(f, b) = [mem |-> stored, wel |-> FALSE, busy |-> TRUE]
      BY <1>2, <2>1, <2>3, <3>1 DEF Bus!Latched, stored
    <3> QED BY <3>1, <3>2 DEF Made, stored
  <2> QED BY <1>2, <2>2, <2>3 DEF IsInstruction
<1>3. ASSUME NEW seen \in Seq(Nat), seen # <<Bus!WRITE_ENABLE>>,
             Len(seen) < 4 \/ seen[1] \notin {2, 32}
      PROVE  Bus!Latched(f, seen) = f
  <2>1. ~(Len(seen) = 4 /\ seen[1] = Bus!SECTOR_ERASE)
        /\ ~(Len(seen) > 4 /\ seen[1] = Bus!PAGE_PROGRAM)
    <3>1. PICK n \in Nat : n = Len(seen)
      OBVIOUS
    <3>2. CASE Len(seen) < 4
      <4> DEFINE l == Len(seen)
      <4>1. l = n /\ l < 4 /\ n \in Nat
        BY <3>1, <3>2
      <4> HIDE DEF l
      <4>2. n < 4
        BY <4>1
      <4>3. n # 4 /\ ~(n > 4)
        BY <4>2
      <4> QED BY <3>1, <4>3
    <3>3. CASE seen[1] \notin {2, 32}
      BY <3>3, Numbers
    <3> QED BY <1>3, <3>2, <3>3
  <2> QED BY <1>3, <2>1, Zenon DEF Bus!Latched
<1> QED BY <1>1, <1>2, <1>3

\* The next step of a call that carries an instruction.
LEMMA NextAt ==
  ASSUME NEW call, NEW o, NEW b, NEW wanted, NEW q, AtStep(call, o, b, wanted, q),
         q # 9 + Len(b)
  PROVE  /\ q \in 0 .. 8 + Len(b) /\ Len(b) \in Nat /\ Len(b) >= 4 /\ o \in Nat
         /\ IsInstruction(b) /\ Carries(call, o, b)
         /\ script # <<>> /\ Head(script) = call[o + q + 1]
         /\ Left(Tail(script), call, o + (q + 1))
<1>1. Carries(call, o, b) /\ Left(script, call, o + q) /\ q \in 0 .. 9 + Len(b)
  BY DEF AtStep
<1>2. call \in Seq(Steps) /\ o \in Nat /\ IsInstruction(b) /\ o + 9 + Len(b) <= Len(call)
  BY <1>1 DEF Carries
<1>3. Len(b) \in Nat /\ Len(b) >= 4 /\ Len(call) \in Nat
  BY <1>2, Instructions
<1>4. q \in 0 .. 8 + Len(b) /\ o + q < Len(call) /\ (o + q) + 1 = o + (q + 1)
      /\ (o + q) + 1 = o + q + 1 /\ o + q # Len(call)
  BY <1>1, <1>2, <1>3
<1>5. script # <<>>
  BY <1>1, <1>2, <1>4, LeftOn
<1>6. Head(script) = call[(o + q) + 1] /\ Left(Tail(script), call, (o + q) + 1)
  BY <1>1, <1>2, <1>5, LeftOn
<1> QED BY <1>1, <1>2, <1>3, <1>4, <1>5, <1>6

\* The steps of such a call, one by one.
LEMMA LowersOn ==
  ASSUME Types, NEW call, NEW o, NEW b, NEW wanted, NEW q, AtStep(call, o, b, wanted, q),
         q # 9 + Len(b), Bus!LowerCs
  PROVE  AtStep(call, o, b, wanted, q + 1)'
<1> DEFINE N == Len(b)
<1>1. /\ q \in 0 .. 8 + N /\ N \in Nat /\ N >= 4 /\ Carries(call, o, b)
      /\ Head(script) = call[o + q + 1] /\ Left(Tail(script), call, o + (q + 1))
  BY NextAt
<1>2. /\ Head(script).do = "low" /\ cs' = "low" /\ frame' = IF cs = "low" THEN frame ELSE <<>>
      /\ script' = Tail(script) /\ UNCHANGED <<flash, inFlight>>
  BY DEF Bus!LowerCs, Bus!NextStep
<1>3. q \in {0, 3, 5 + N}
  BY <1>1, <1>2, StepsCarried
<1>4. cs = "high" /\ ~inFlight /\ frame' = <<>>
  <2>1. q \notin {1, 6 + N, 7 + N} \cup 4 .. 3 + N
    BY <1>1, <1>3
  <2> QED BY <1>2, <1>3, <2>1 DEF AtStep
<1>5. Has(<<>>, b, q + 1)
  <2> DEFINE n == q + 1
             e == <<>>
  <2>1. /\ n \notin {2, 7 + N, 8 + N} /\ (n \in 4 .. 4 + N => n - 4 = 0)
        /\ e \in Seq(Nat) /\ Len(e) = 0
    BY <1>1, <1>3
  <2> HIDE DEF n, e
  <2>2. Has(e, b, n)
    <3>1. n \in 4 .. 4 + N => Len(e) = n - 4 /\ \A i \in 1 .. n - 4 : e[i] = b[i]
      BY <2>1
    <3>2. e = <<>>
      BY DEF e
    <3> QED BY <2>1, <3>1, <3>2 DEF Has
  <2> QED BY <2>2 DEF n, e
<1>6. /\ q + 1 \in 0 .. 9 + N /\ q + 1 \notin {0, 3, 5 + N, 9 + N}
      /\ (q + 1 < 5 + N <=> q < 5 + N) /\ (q + 1 >= 5 + N <=> q >= 5 + N)
      /\ ~(q + 1 >= 8 + N) /\ (q + 1 \in 3 .. 4 + N => q \in 3 .. 4 + N)
  BY <1>1, <1>3
<1> HIDE DEF N
<1>7. UNCHANGED flash /\ inFlight' = FALSE /\ cs' = "low" /\ cs' # "high"
      /\ Left(script', call, o + (q + 1)) /\ Has(frame', b, q + 1)
  BY <1>1, <1>2, <1>4, <1>5 DEF Types
<1> QED BY <1>1, <1>6, <1>7 DEF AtStep, N

LEMMA RaisesOn ==
  ASSUME Types, NEW call, NEW o, NEW b, NEW wanted, NEW q, AtStep(call, o, b, wanted, q),
         q # 9 + Len(b), Bus!RaiseCs
  PROVE  AtStep(call, o, b, wanted, q + 1)'
<1> DEFINE N == Len(b)
<1>1. /\ q \in 0 .. 8 + N /\ N \in Nat /\ N >= 4 /\ Carries(call, o, b) /\ IsInstruction(b)
      /\ Head(script) = call[o + q + 1] /\ Left(Tail(script), call, o + (q + 1))
  BY NextAt
<1>2. /\ Head(script).do = "high" /\ cs' = "high"
      /\ flash' = IF cs = "low" THEN Bus!EndOfFrame(flash, frame) ELSE flash
      /\ script' = Tail(script) /\ UNCHANGED inFlight
  BY DEF Bus!RaiseCs, Bus!NextStep
<1>3. q \in {2, 4 + N, 8 + N}
  BY <1>1, <1>2, StepsCarried
<1>4. cs = "low" /\ ~inFlight /\ Has(frame, b, q)
  <2>1. q \notin {1, 6 + N, 7 + N} \cup 4 .. 3 + N /\ q \notin {0, 3, 5 + N, 9 + N}
    BY <1>1, <1>3
  <2>2. ~inFlight /\ cs = "low"
    BY <2>1 DEF AtStep, Types
  <2> QED BY <2>2 DEF AtStep
<1>5. flash' = Bus!Latched(flash, frame) /\ flash \in Flash
  BY <1>2, <1>4 DEF Bus!EndOfFrame, Types
<1>6. /\ q + 1 \in {3, 5 + N, 9 + N} /\ q + 1 \in 0 .. 9 + N
  BY <1>1, <1>3
<1>7. /\ q + 1 < 5 + N => ~flash'.busy /\ Made(b, flash'.mem) = wanted
      /\ q + 1 >= 5 + N => flash'.mem = wanted
      /\ q + 1 >= 8 + N => ~flash'.busy
      /\ q + 1 \in 3 .. 4 + N => flash'.wel
  <2>1. CASE q = 2
    <3>1. frame = <<Bus!WRITE_ENABLE>>
      BY <1>4, <2>1 DEF Has
    <3>2. flash' = [flash EXCEPT !.wel = TRUE]
      BY <1>5, <3>1, FramesMake
    <3>3. flash'.mem = flash.mem /\ flash'.busy = flash.busy /\ flash'.wel
      BY <1>5, <3>2 DEF Flash
    <3>4. ~flash.busy /\ Made(b, flash.mem) = wanted
      BY <1>1, <2>1 DEF AtStep
    <3> QED BY <1>1, <2>1, <3>3, <3>4
  <2>2. CASE q = 4 + N
    <3>1. frame = b
      <4>1. /\ frame \in Seq(Nat) /\ b \in Seq(Nat) /\ Len(frame) = N
            /\ \A i \in 1 .. N : frame[i] = b[i]
        <5>1. q \in 4 .. 4 + N /\ q - 4 = N
          BY <1>1, <2>2
        <5> QED BY <1>1, <1>4, <5>1, Instructions DEF Has
      <4> QED BY <4>1, Same
    <3>2. flash.wel /\ Made(b, flash.mem) = wanted
      <4>1. q \in 3 .. 4 + N /\ q < 5 + N
        BY <1>1, <2>2
      <4> QED BY <4>1 DEF AtStep
    <3>3. flash'.mem = wanted
      BY <1>1, <1>5, <3>1, <3>2, FramesMake
    <3> QED BY <1>1, <2>2, <3>3
  <2>3. CASE q = 8 + N
    <3>1. frame = <<Bus!READ_STATUS>>
      BY <1>4, <2>3 DEF Has
    <3>2. frame \in Seq(Nat) /\ frame # <<Bus!WRITE_ENABLE>> /\ Len(frame) < 4
      BY <3>1, Numbers
    <3>3. flash' = flash
      BY <1>5, <3>2, FramesMake
    <3>4. flash.mem = wanted /\ ~flash.busy
      BY <1>1, <2>3 DEF AtStep
    <3> QED BY <1>1, <2>3, <3>3, <3>4
  <2> QED BY <1>3, <2>1, <2>2, <2>3
<1> HIDE DEF N
<1>8. inFlight' = FALSE /\ cs' = "high" /\ cs' # "low" /\ Left(script', call, o + (q + 1))
  BY <1>1, <1>2, <1>4 DEF Types
<1> QED BY <1>1, <1>6, <1>7, <1>8 DEF AtStep, N

\* Where a byte is put on the bus, and the flash hears it.
LEMMA TransfersOn ==
  ASSUME Types, NEW call, NEW o, NEW b, NEW wanted, NEW q, AtStep(call, o, b, wanted, q),
         q # 9 + Len(b), ~inFlight, Head(script).do \in {"byte", "poll", "take"},
         Bus!OnBus(Head(script).byte)
  PROVE  /\ q \in {1, 6 + Len(b), 7 + Len(b)} \cup 4 .. 3 + Len(b)
         /\ cs = "low" /\ Has(frame, b, q) /\ Has(frame', b, q + 1)
         /\ Head(script).do = "poll" => q = 7 + Len(b)
         /\ Head(script).do \in {"byte", "poll"}
<1> DEFINE N == Len(b)
<1>1. /\ q \in 0 .. 8 + N /\ N \in Nat /\ N >= 4 /\ Carries(call, o, b) /\ IsInstruction(b)
      /\ Head(script) = call[o + q + 1]
  BY NextAt
<1> DEFINE s == Head(script)
<1>2. /\ q \in {1, 6 + N, 7 + N} \cup 4 .. 3 + N /\ s.byte \in Nat
      /\ q = 1 => s.byte = Bus!WRITE_ENABLE
      /\ q \in 4 .. 3 + N => s.byte = b[q - 3]
      /\ q = 6 + N => s.byte = Bus!READ_STATUS
      /\ s.do = "poll" => q = 7 + N
      /\ s.do \in {"byte", "poll"}
  BY <1>1, StepsCarried
<1>3. cs = "low"
  <2>1. q \notin {0, 3, 5 + N, 9 + N}
    BY <1>1, <1>2
  <2> QED BY <2>1 DEF AtStep, Types
<1>4. Has(frame, b, q) /\ (q < 5 + N => ~flash.busy)
  BY <1>3 DEF AtStep
<1>5. frame' = Bus!Received(flash, frame, s.byte)
  BY <1>3 DEF Bus!OnBus
<1>6. Has(frame', b, q + 1)
  <2> DEFINE byte == s.byte
  <2>1. /\ byte \in Nat /\ frame' = Bus!Received(flash, frame, byte)
        /\ q = 1 => byte = Bus!WRITE_ENABLE
        /\ q \in 4 .. 3 + N => byte = b[q - 3]
        /\ q = 6 + N => byte = Bus!READ_STATUS
    BY <1>2, <1>5
  <2> HIDE DEF byte
  <2>2. Has(Bus!Received(flash, frame, byte), b, q + 1)
    BY <1>1, <1>2, <1>4, <2>1, HasMore
  <2> QED BY <2>1, <2>2
<1> QED BY <1>2, <1>3, <1>4, <1>6

LEMMA PutsOn ==
  ASSUME Types, NEW call, NEW o, NEW b, NEW wanted, NEW q, AtStep(call, o, b, wanted, q),
         q # 9 + Len(b), Bus!Put
  PROVE  AtStep(call, o, b, wanted, q)'
<1>1. /\ ~inFlight /\ inFlight' = TRUE /\ Head(script).do \in {"byte", "poll", "take"}
      /\ Bus!OnBus(Head(script).byte) /\ UNCHANGED <<flash, cs, script>>
  BY DEF Bus!Put, Bus!NextStep
<1>2. q \in {1, 6 + Len(b), 7 + Len(b)} \cup 4 .. 3 + Len(b) /\ Has(frame', b, q + 1)
  BY <1>1, TransfersOn
<1> QED BY <1>1, <1>2 DEF AtStep

\* What a reply says of where the call goes on: a poll ends when the flash is ready.
LEMMA RepliesOn ==
  ASSUME Types, NEW call, NEW o, NEW b, NEW wanted, NEW q, AtStep(call, o, b, wanted, q),
         q # 9 + Len(b), cs = "low", q \in {1, 6 + Len(b), 7 + Len(b)} \cup 4 .. 3 + Len(b),
         q = 7 + Len(b) => frame = <<Bus!READ_STATUS>>,
         Head(script).do \in {"byte", "poll"}, ~(Bus!InHandler /\ inFlight), Bus!AfterReply
  PROVE  \/ script' = Tail(script) /\ (q = 7 + Len(b) => ~flash.busy)
         \/ script' = script /\ q = 7 + Len(b)
<1> DEFINE N == Len(b)
<1>1. /\ q \in 0 .. 8 + N /\ Carries(call, o, b) /\ Head(script) = call[o + q + 1]
  BY NextAt
<1>2. /\ Head(script).do = "byte" => q # 7 + N
      /\ Head(script).do = "poll" => q = 7 + N
  BY <1>1, StepsCarried
<1>3. CASE Head(script).do = "byte"
  BY <1>2, <1>3 DEF Bus!AfterReply
<1>4. CASE Head(script).do = "poll"
  <2>1. frame = <<Bus!READ_STATUS>> /\ q = 7 + N
    BY <1>2, <1>4
  <2>2. Bus!StatusReplies = {~flash.busy}
    BY <2>1 DEF Bus!StatusReplies
  <2>3. script' = IF ~flash.busy THEN Tail(script) ELSE script
    BY <1>4, <2>2 DEF Bus!AfterReply
  <2> QED BY <2>1, <2>3
<1> QED BY <1>3, <1>4

\* Where a reply has been read.
LEMMA GoesOn ==
  ASSUME Types, NEW call, NEW o, NEW b, NEW wanted, NEW q, AtStep(call, o, b, wanted, q),
         q \in {1, 6 + Len(b), 7 + Len(b)} \cup 4 .. 3 + Len(b), q # 9 + Len(b),
         cs = "low", inFlight' = FALSE, Has(frame', b, q + 1), UNCHANGED <<flash, cs>>,
         \/ script' = Tail(script) /\ (q = 7 + Len(b) => ~flash.busy)
         \/ script' = script /\ q = 7 + Len(b)
  PROVE  AtStep(call, o, b, wanted, q)' \/ AtStep(call, o, b, wanted, q + 1)'
<1> DEFINE N == Len(b)
<1>1. /\ q \in 0 .. 8 + N /\ N \in Nat /\ N >= 4 /\ Carries(call, o, b)
      /\ Left(Tail(script), call, o + (q + 1))
  BY NextAt
<1>2. CASE script' = Tail(script) /\ (q = 7 + N => ~flash.busy)
  <2>1. /\ q + 1 \in 0 .. 9 + N /\ q + 1 \notin {0, 3, 5 + N, 9 + N}
        /\ (q + 1 < 5 + N => q < 5 + N) /\ (q + 1 >= 5 + N => q >= 5 + N)
        /\ (q + 1 >= 8 + N => q = 7 + N) /\ (q + 1 \in 3 .. 4 + N => q \in 3 .. 4 + N)
    BY <1>1
  <2> HIDE DEF N
  <2> QED BY <1>1, <1>2, <2>1 DEF AtStep, N
<1>3. CASE script' = script /\ q = 7 + N
  <2>1. Has(frame', b, q)
    <3>1. frame' = <<Bus!READ_STATUS>> /\ frame' \in Seq(Nat)
      <4>1. q + 1 = 8 + N
        BY <1>1, <1>3
      <4> QED BY <4>1 DEF Has
    <3>2. q \notin {1, 6 + N} /\ q # 2 /\ q \notin 4 .. 4 + N
      BY <1>1, <1>3
    <3> QED BY <3>1, <3>2 DEF Has
  <2> QED BY <1>3, <2>1 DEF AtStep
<1> QED BY <1>2, <1>3

LEMMA GetsOn ==
  ASSUME Types, NEW call, NEW o, NEW b, NEW wanted, NEW q, AtStep(call, o, b, wanted, q),
         q # 9 + Len(b), Bus!Get
  PROVE  AtStep(call, o, b, wanted, q)' \/ AtStep(call, o, b, wanted, q + 1)'
<1> DEFINE N == Len(b)
<1>1. /\ inFlight /\ ~Bus!InHandler /\ inFlight' = FALSE /\ Bus!AfterReply
      /\ UNCHANGED <<flash, cs, frame>>
  BY DEF Bus!Get
<1>2. /\ q \in 0 .. 8 + N /\ N \in Nat /\ N >= 4 /\ Carries(call, o, b)
      /\ Head(script) = call[o + q + 1]
  BY NextAt
<1>3. q \in {1, 6 + N, 7 + N} \cup 4 .. 3 + N
  BY <1>1 DEF AtStep
<1>4. cs = "low" /\ Has(frame, b, q + 1)
  <2>1. q \notin {0, 3, 5 + N, 9 + N}
    BY <1>2, <1>3
  <2>2. cs = "low"
    BY <2>1 DEF AtStep, Types
  <2> QED BY <1>1, <2>2 DEF AtStep
<1>5. Head(script).do \in {"byte", "poll"}
  <2>1. q \notin {0, 3, 5 + N} /\ q \notin {2, 4 + N, 8 + N}
    BY <1>2, <1>3
  <2> QED BY <1>2, <2>1, StepsCarried
<1>6. q = 7 + N => frame = <<Bus!READ_STATUS>>
  <2>1. q = 7 + N => q + 1 = 8 + N
    BY <1>2
  <2> QED BY <1>4, <2>1 DEF Has
<1>7. \/ script' = Tail(script) /\ (q = 7 + N => ~flash.busy)
      \/ script' = script /\ q = 7 + N
  BY <1>1, <1>3, <1>4, <1>5, <1>6, RepliesOn
<1> QED BY <1>1, <1>3, <1>4, <1>7, GoesOn

LEMMA HandlerOn ==
  ASSUME Types, NEW call, NEW o, NEW b, NEW wanted, NEW q, AtStep(call, o, b, wanted, q),
         q # 9 + Len(b), ~inFlight, Bus!HandlerTransfer
  PROVE  AtStep(call, o, b, wanted, q)' \/ AtStep(call, o, b, wanted, q + 1)'
<1> DEFINE N == Len(b)
<1>1. /\ inFlight' = FALSE /\ Bus!AfterReply /\ UNCHANGED <<flash, cs>>
      /\ Head(script).do \in {"byte", "poll", "take"} /\ Bus!OnBus(Head(script).byte)
  BY DEF Bus!HandlerTransfer, Bus!NextStep, Types
<1>2. /\ q \in {1, 6 + N, 7 + N} \cup 4 .. 3 + N
      /\ cs = "low" /\ Has(frame, b, q) /\ Has(frame', b, q + 1)
      /\ Head(script).do \in {"byte", "poll"}
  BY <1>1, TransfersOn
<1>3. q = 7 + N => frame = <<Bus!READ_STATUS>>
  BY <1>2 DEF Has
<1>4. \/ script' = Tail(script) /\ (q = 7 + N => ~flash.busy)
      \/ script' = script /\ q = 7 + N
  BY <1>1, <1>2, <1>3, RepliesOn
<1> QED BY <1>1, <1>2, <1>4, GoesOn

\* The end of the flash's work, and a round of the radio between two frames.
LEMMA DoneOn ==
  ASSUME Types, NEW call, NEW o, NEW b, NEW wanted, NEW q, AtStep(call, o, b, wanted, q),
         Bus!FlashDone
  PROVE  AtStep(call, o, b, wanted, q)'
<1>1. flash' = [flash EXCEPT !.busy = FALSE] /\ UNCHANGED <<cs, frame, inFlight, script>>
  BY DEF Bus!FlashDone
<1>2. flash'.mem = flash.mem /\ flash'.wel = flash.wel /\ ~flash'.busy
  BY <1>1 DEF Types, Flash
<1> QED BY <1>1, <1>2 DEF AtStep

LEMMA RadioOn ==
  ASSUME BusInv, NEW available, Bus!RadioRound(available), cs = "high"
  PROVE  UNCHANGED <<flash, cs, inFlight, op, script>>
<1> DEFINE x == Bus!readPayload
           y == Bus!writeReg(Bus!NRF_STATUS, Bus!NRF_RX_DR)
           polled == IF flash.busy THEN flash ELSE Bus!EndOfFrame(flash, StatusFrame)
           paid == IF polled.busy THEN polled ELSE Bus!EndOfFrame(polled, x)
           done == IF paid.busy THEN paid ELSE Bus!EndOfFrame(paid, y)
<1>1. flash' = IF ~available THEN polled ELSE done
  BY DEF Bus!RadioRound, StatusFrame
<1>2. /\ StatusFrame \in Seq(Nat) /\ Len(StatusFrame) = 2 /\ x \in Seq(Nat) /\ Len(x) = 3
      /\ y \in Seq(Nat) /\ Len(y) = 2
  BY RadioFrames
<1>3. ASSUME NEW z \in Seq(Nat), Len(z) = 2 \/ Len(z) = 3
      PROVE  Bus!EndOfFrame(flash, z) = flash
  <2>1. Len(z) < 4
    <3>1. PICK n \in {2, 3} : n = Len(z)
      BY <1>3
    <3>2. n < 4
      OBVIOUS
    <3> QED BY <3>1, <3>2
  <2>2. z # <<Bus!WRITE_ENABLE>>
    <3>1. Len(<<Bus!WRITE_ENABLE>>) = 1
      OBVIOUS
    <3>2. PICK n \in Nat : n = Len(z) /\ n # 1
      BY <1>3
    <3> QED BY <3>1, <3>2
  <2>3. Bus!Latched(flash, z) = flash
    BY <2>1, <2>2, FramesMake DEF BusInv, Types
  <2> QED BY <2>3 DEF Bus!EndOfFrame
<1> HIDE DEF x, y
<1>4. polled = flash
  BY <1>2, <1>3
<1>5. paid = flash
  BY <1>2, <1>3, <1>4
<1>6. done = flash
  BY <1>2, <1>3, <1>5
<1> HIDE DEF polled, done
<1> QED BY <1>1, <1>4, <1>6 DEF Bus!RadioRound

-----------------------------------------------------------------------------
\* A sequence of bytes to send, and the bytes.
Spells(w, b) ==
  /\ w \in Seq(Transfers) /\ IsInstruction(b) /\ Len(w) = Len(b)
  /\ \A i \in 1 .. Len(b) : w[i] = Bus!transfer(b[i])

\* A call of a write, as it stands or with another one behind it, carries its
\* instruction.
LEMMA CallCarries ==
  ASSUME NEW w, NEW b, Spells(w, b)
  PROVE  Carries(CallOf(w), 0, b) /\ Len(CallOf(w)) = 9 + Len(b)
<1> DEFINE x == FrameOf(Enabling)
           y == FrameOf(w)
           z == FrameOf(Polling)
           yz == Cat(y, z)
           s == Cat(x, yz)
           N == Len(b)
<1>1. N \in Nat /\ N >= 4 /\ Len(w) = N /\ w \in Seq(Transfers)
  BY Instructions DEF Spells
<1>2. /\ x \in Seq(Steps) /\ Len(x) = 3 /\ x[1] = Bus!csLow /\ x[3] = Bus!csHigh
      /\ x[2] = Bus!transfer(Bus!WRITE_ENABLE)
  <2>1. Len(Enabling) = 1 /\ 1 \in 1 .. Len(Enabling) /\ 1 + 1 = 2 /\ Len(Enabling) + 2 = 3
    BY Sent
  <2>2. x[1 + 1] = Enabling[1]
    BY <2>1, Sent, FrameParts
  <2>3. /\ Len(x) = Len(Enabling) + 2 /\ x[Len(Enabling) + 2] = Bus!csHigh
        /\ x[1] = Bus!csLow /\ x \in Seq(Steps)
    BY Sent, FrameParts
  <2> HIDE DEF x
  <2>4. x[Len(Enabling) + 2] = x[3] /\ x[1 + 1] = x[2] /\ Len(x) = 3
    BY <2>1, <2>3
  <2>5. Enabling[1] = Bus!transfer(Bus!WRITE_ENABLE)
    BY Sent
  <2> QED BY <2>2, <2>3, <2>4, <2>5
<1>3. /\ y \in Seq(Steps) /\ Len(y) = N + 2 /\ y[1] = Bus!csLow /\ y[N + 2] = Bus!csHigh
      /\ \A i \in 1 .. N : y[1 + i] = Bus!transfer(b[i])
  BY <1>1, FrameParts DEF Spells
<1>4. /\ z \in Seq(Steps) /\ Len(z) = 4 /\ z[1] = Bus!csLow /\ z[4] = Bus!csHigh
      /\ z[2] = Bus!transfer(Bus!READ_STATUS) /\ z[3] = Bus!untilReady
  <2>1. Bus!waitBusy = z /\ Bus!waitBusy \in Seq(Steps)
    BY Polled
  <2> DEFINE l == Bus!csLow
             t == Bus!transfer(Bus!READ_STATUS)
             u == Bus!untilReady
             h == Bus!csHigh
             v == <<l, t, u, h>>
  <2>2. z = v
    BY <2>1 DEF Bus!waitBusy
  <2> HIDE DEF z, l, t, u, h
  <2>3. Len(v) = 4 /\ v[1] = l /\ v[2] = t /\ v[3] = u /\ v[4] = h
    OBVIOUS
  <2> HIDE DEF v
  <2>4. Len(z) = 4 /\ z[1] = l /\ z[2] = t /\ z[3] = u /\ z[4] = h
    BY <2>2, <2>3
  <2> QED BY <2>1, <2>4 DEF l, t, u, h
<1> HIDE DEF x, y, z, N
<1>5. yz \in Seq(Steps) /\ Joins(yz, y, z, Steps)
  BY <1>3, <1>4, Cats
<1> HIDE DEF yz
<1>6. s \in Seq(Steps) /\ Joins(s, x, yz, Steps)
  BY <1>2, <1>5, Cats
<1>7. s = CallOf(w)
  BY DEF CallOf, x, y, z, yz
<1> HIDE DEF s
<1>8. /\ Len(yz) = N + 6 /\ yz[1] = Bus!csLow /\ yz[N + 2] = Bus!csHigh
      /\ \A i \in 1 .. N : yz[1 + i] = Bus!transfer(b[i])
      /\ yz[N + 3] = Bus!csLow /\ yz[N + 4] = Bus!transfer(Bus!READ_STATUS)
      /\ yz[N + 5] = Bus!untilReady /\ yz[N + 6] = Bus!csHigh
  <2>1. \A i \in 1 .. 4 : yz[(N + 2) + i] = z[i]
    BY <1>3, <1>4, <1>5 DEF Joins
  <2>2. \A i \in 1 .. N + 2 : yz[i] = y[i]
    BY <1>3, <1>5 DEF Joins
  <2>3. Len(yz) = N + 6
    BY <1>1, <1>3, <1>4, <1>5 DEF Joins
  <2>4. /\ yz[(N + 2) + 1] = z[1] /\ yz[(N + 2) + 2] = z[2] /\ yz[(N + 2) + 3] = z[3]
        /\ yz[(N + 2) + 4] = z[4]
    BY <2>1
  <2>5. /\ (N + 2) + 1 = N + 3 /\ (N + 2) + 2 = N + 4 /\ (N + 2) + 3 = N + 5
        /\ (N + 2) + 4 = N + 6
    BY <1>1
  <2>6. yz[1] = y[1] /\ yz[N + 2] = y[N + 2] /\ \A i \in 1 .. N : yz[1 + i] = y[1 + i]
    BY <1>1, <2>2
  <2> QED BY <1>3, <1>4, <2>3, <2>4, <2>5, <2>6
<1>9. /\ Len(s) = N + 9 /\ s[1] = Bus!csLow /\ s[2] = Bus!transfer(Bus!WRITE_ENABLE)
      /\ s[3] = Bus!csHigh /\ s[4] = Bus!csLow /\ s[5 + N] = Bus!csHigh
      /\ \A i \in 1 .. N : s[4 + i] = Bus!transfer(b[i])
      /\ s[6 + N] = Bus!csLow /\ s[7 + N] = Bus!transfer(Bus!READ_STATUS)
      /\ s[8 + N] = Bus!untilReady /\ s[9 + N] = Bus!csHigh
  <2>0. 1 \in 1 .. N + 6 /\ {N + 2, N + 3, N + 4, N + 5, N + 6} \subseteq 1 .. N + 6
    BY <1>1
  <2>1. (\A i \in 1 .. N + 6 : s[3 + i] = yz[i]) /\ \A i \in 1 .. 3 : s[i] = x[i]
    BY <1>2, <1>6, <1>8 DEF Joins
  <2>2. Len(s) = N + 9
    BY <1>1, <1>2, <1>6, <1>8 DEF Joins
  <2>3. /\ s[3 + 1] = yz[1] /\ s[3 + (N + 2)] = yz[N + 2] /\ s[3 + (N + 3)] = yz[N + 3]
        /\ s[3 + (N + 4)] = yz[N + 4] /\ s[3 + (N + 5)] = yz[N + 5]
        /\ s[3 + (N + 6)] = yz[N + 6]
    BY <2>0, <2>1
  <2>4. /\ 3 + 1 = 4 /\ 3 + (N + 2) = 5 + N /\ 3 + (N + 3) = 6 + N /\ 3 + (N + 4) = 7 + N
        /\ 3 + (N + 5) = 8 + N /\ 3 + (N + 6) = 9 + N
    BY <1>1
  <2>5. ASSUME NEW i \in 1 .. N PROVE s[4 + i] = Bus!transfer(b[i])
    <3>1. 1 + i \in 1 .. N + 6 /\ 3 + (1 + i) = 4 + i
      BY <1>1
    <3>2. s[3 + (1 + i)] = yz[1 + i]
      BY <2>1, <3>1
    <3> QED BY <1>8, <3>1, <3>2
  <2>6. s[1] = x[1] /\ s[2] = x[2] /\ s[3] = x[3]
    BY <2>1
  <2> QED BY <1>2, <1>8, <2>2, <2>3, <2>4, <2>5, <2>6
<1>10. Carries(s, 0, b)
  <2>1. /\ 0 + 9 + N = 9 + N /\ 9 + N <= Len(s) /\ 0 + 1 = 1 /\ 0 + 2 = 2 /\ 0 + 3 = 3
        /\ 0 + 4 = 4 /\ 0 + 5 + N = 5 + N /\ 0 + 6 + N = 6 + N /\ 0 + 7 + N = 7 + N
        /\ 0 + 8 + N = 8 + N /\ (\A i \in 1 .. N : 0 + 4 + i = 4 + i) /\ 0 \in Nat
    BY <1>1, <1>9
  <2>2. IsInstruction(b)
    BY DEF Spells
  <2> QED BY <1>6, <1>9, <2>1, <2>2 DEF Carries, N
<1> QED BY <1>1, <1>7, <1>9, <1>10 DEF N

LEMMA CarriesFirst ==
  ASSUME NEW x, NEW y \in Seq(Steps), NEW b, Carries(x, 0, b), Len(x) = 9 + Len(b)
  PROVE  Carries(Cat(x, y), 0, b)
<1> DEFINE s == Cat(x, y)
           N == Len(b)
<1>1. x \in Seq(Steps) /\ IsInstruction(b) /\ Len(y) \in Nat
  BY DEF Carries
<1>2. N \in Nat /\ N >= 4
  BY <1>1, Instructions
<1>3. s \in Seq(Steps) /\ Joins(s, x, y, Steps)
  BY <1>1, Cats
<1> HIDE DEF s
<1>4. (\A i \in 1 .. 9 + N : s[i] = x[i]) /\ Len(s) = (9 + N) + Len(y)
  BY <1>3 DEF Joins
<1>5. /\ s[0 + 1] = x[0 + 1] /\ s[0 + 2] = x[0 + 2] /\ s[0 + 3] = x[0 + 3] /\ s[0 + 4] = x[0 + 4]
      /\ s[0 + 5 + N] = x[0 + 5 + N] /\ s[0 + 6 + N] = x[0 + 6 + N]
      /\ s[0 + 7 + N] = x[0 + 7 + N] /\ s[0 + 8 + N] = x[0 + 8 + N]
      /\ s[0 + 9 + N] = x[0 + 9 + N] /\ 0 + 9 + N <= Len(s)
      /\ \A i \in 1 .. N : s[0 + 4 + i] = x[0 + 4 + i]
  BY <1>1, <1>2, <1>4
<1> HIDE DEF N
<1> QED BY <1>3, <1>5 DEF Carries, s, N

LEMMA CarriesSecond ==
  ASSUME NEW x \in Seq(Steps), NEW y, NEW b, Carries(y, 0, b)
  PROVE  Carries(Cat(x, y), Len(x), b)
<1> DEFINE s == Cat(x, y)
           N == Len(b)
           l == Len(x)
<1>1. /\ y \in Seq(Steps) /\ IsInstruction(b) /\ Len(y) \in Nat /\ 0 + 9 + N <= Len(y)
      /\ l \in Nat
  BY DEF Carries
<1>2. N \in Nat /\ N >= 4
  BY <1>1, Instructions
<1>3. s \in Seq(Steps) /\ Joins(s, x, y, Steps)
  BY <1>1, Cats
<1> HIDE DEF s
<1>4. (\A i \in 1 .. Len(y) : s[l + i] = y[i]) /\ Len(s) = l + Len(y)
  BY <1>3 DEF Joins
<1> HIDE DEF l
<1>5. /\ s[l + 1] = y[0 + 1] /\ s[l + 2] = y[0 + 2] /\ s[l + 3] = y[0 + 3] /\ s[l + 4] = y[0 + 4]
      /\ s[l + 5 + N] = y[0 + 5 + N] /\ s[l + 6 + N] = y[0 + 6 + N]
      /\ s[l + 7 + N] = y[0 + 7 + N] /\ s[l + 8 + N] = y[0 + 8 + N]
      /\ s[l + 9 + N] = y[0 + 9 + N] /\ l + 9 + N <= Len(s)
  <2>0. PICK n \in Nat : n = Len(y)
    BY <1>1
  <2> HIDE DEF N
  <2>1. /\ 1 \in 1 .. Len(y) /\ 2 \in 1 .. Len(y) /\ 3 \in 1 .. Len(y) /\ 4 \in 1 .. Len(y)
        /\ 0 + 5 + N \in 1 .. Len(y) /\ 0 + 6 + N \in 1 .. Len(y) /\ 0 + 7 + N \in 1 .. Len(y)
        /\ 0 + 8 + N \in 1 .. Len(y) /\ 0 + 9 + N \in 1 .. Len(y)
        /\ l + 5 + N = l + (0 + 5 + N) /\ l + 6 + N = l + (0 + 6 + N)
        /\ l + 7 + N = l + (0 + 7 + N) /\ l + 8 + N = l + (0 + 8 + N)
        /\ l + 9 + N = l + (0 + 9 + N) /\ l + 9 + N <= Len(s)
    <3>1. 0 + 9 + N <= n /\ Len(s) = l + n /\ N \in Nat /\ N >= 4 /\ l \in Nat
      BY <1>1, <1>2, <1>4, <2>0 DEF N
    <3> QED BY <2>0, <3>1
  <2>2. 0 + 1 = 1 /\ 0 + 2 = 2 /\ 0 + 3 = 3 /\ 0 + 4 = 4
    OBVIOUS
  <2> QED BY <1>4, <2>1, <2>2
<1>6. ASSUME NEW i \in 1 .. N PROVE s[l + 4 + i] = y[0 + 4 + i]
  <2>1. 0 + 4 + i \in 1 .. Len(y) /\ l + (0 + 4 + i) = l + 4 + i
    BY <1>1, <1>2
  <2> QED BY <1>4, <2>1
<1> HIDE DEF N
<1> QED BY <1>1, <1>3, <1>5, <1>6 DEF Carries, s, N, l

\* The writes: what they send, and what they make.
LEMMA EraseMakes ==
  ASSUME NEW addr \in Nat
  PROVE  \E b : /\ Carries(Bus!eraseSector(addr), 0, b)
                /\ Len(Bus!eraseSector(addr)) = 9 + Len(b)
                /\ \A mem : Made(b, mem) = Bus!EraseSector(mem, addr)
<1> DEFINE w == Erasing(addr)
           b == Bytes(w, 4)
<1>1. Instructs(w, Bus!transfer(Bus!SECTOR_ERASE), addr) /\ Len(w) = 4
  BY ErasingSent
<1>2. w \in Seq(Transfers) /\ 4 \in 0 .. Len(w)
  BY <1>1 DEF Instructs
<1> HIDE DEF w
<1>3. b \in Seq(Nat) /\ Len(b) = 4 /\ \A i \in 1 .. 4 : b[i] = w[i].byte
  BY <1>2, BytesFacts
<1> HIDE DEF b
<1>4. \A i \in 1 .. 4 : w[i] = Bus!transfer(b[i])
  <2>1. /\ b[1] = w[1].byte /\ b[2] = w[2].byte /\ b[3] = w[3].byte /\ b[4] = w[4].byte
    BY <1>3
  <2>2. /\ w[1] = Bus!transfer(b[1]) /\ w[2] = Bus!transfer(b[2])
        /\ w[3] = Bus!transfer(b[3]) /\ w[4] = Bus!transfer(b[4])
    BY <1>1, <2>1, StepKinds DEF Instructs
  <2> QED BY <2>2
<1>5. b[1] = Bus!SECTOR_ERASE
  BY <1>1, <1>3, StepKinds DEF Instructs
<1>6. Spells(w, b)
  BY <1>1, <1>2, <1>3, <1>4, <1>5 DEF Spells, IsInstruction
<1>7. Bus!AddressIn(b) = addr
  BY <1>1, <1>2, <1>3, AddressOf
<1>8. \A mem : Made(b, mem) = Bus!EraseSector(mem, addr)
  BY <1>3, <1>7 DEF Made
<1>9. Bus!eraseSector(addr) = CallOf(w)
  BY EraseIsCall DEF w
<1> QED BY <1>6, <1>8, <1>9, CallCarries

LEMMA BehindTheFourth ==
  ASSUME NEW b \in Seq(Nat), NEW n \in Nat, Len(b) = 4 + n
  PROVE  /\ SubSeq(b, 5, 4 + n) \in Seq(Nat)
         /\ Len(SubSeq(b, 5, 4 + n)) = n
         /\ \A i \in 1 .. n : SubSeq(b, 5, 4 + n)[i] = b[i + 4]
OBVIOUS

LEMMA ProgramMakes ==
  ASSUME NEW addr \in Nat, NEW data \in Seq(Nat), Len(data) >= 1
  PROVE  \E b : /\ Carries(Bus!writePage(addr, data), 0, b)
                /\ Len(Bus!writePage(addr, data)) = 9 + Len(b)
                /\ \A mem : Made(b, mem) = Bus!Stored(mem, addr, data)
<1> DEFINE w == Programming(addr, data)
           N == Len(w)
           b == Bytes(w, N)
<1>1. /\ Instructs(w, Bus!transfer(Bus!PAGE_PROGRAM), addr) /\ N = 4 + Len(data)
      /\ \A j \in 1 .. Len(data) : w[4 + j] = Bus!transfer(data[j])
  BY ProgrammingSent
<1>2. w \in Seq(Transfers) /\ N \in 0 .. Len(w) /\ N \in Nat /\ N > 4
  BY <1>1 DEF Instructs
<1> HIDE DEF w
<1>3. b \in Seq(Nat) /\ Len(b) = N /\ \A i \in 1 .. N : b[i] = w[i].byte
  BY <1>2, BytesFacts
<1> HIDE DEF b
<1>4. \A i \in 1 .. 4 : /\ b[1] = Bus!PAGE_PROGRAM
                        /\ b[i] = w[i].byte /\ w[i] = Bus!transfer(b[i])
  <2>1. /\ b[1] = w[1].byte /\ b[2] = w[2].byte /\ b[3] = w[3].byte /\ b[4] = w[4].byte
    BY <1>2, <1>3
  <2>2. /\ w[1] = Bus!transfer(b[1]) /\ w[2] = Bus!transfer(b[2])
        /\ w[3] = Bus!transfer(b[3]) /\ w[4] = Bus!transfer(b[4])
    BY <1>1, <2>1, StepKinds DEF Instructs
  <2>3. b[1] = Bus!PAGE_PROGRAM
    BY <1>1, <2>1, StepKinds DEF Instructs
  <2> TAKE i \in 1 .. 4
  <2>4. i \in {1, 2, 3, 4}
    OBVIOUS
  <2> HIDE DEF N
  <2> QED BY <2>1, <2>2, <2>3, <2>4
<1>5. ASSUME NEW j \in 1 .. Len(data)
      PROVE  b[4 + j] = data[j] /\ w[4 + j] = Bus!transfer(b[4 + j])
  <2>1. 4 + j \in 1 .. N
    BY <1>1
  <2>2. w[4 + j] = Bus!transfer(data[j]) /\ b[4 + j] = w[4 + j].byte
    BY <1>1, <1>3, <2>1
  <2> QED BY <2>2, StepKinds
<1>6. \A i \in 1 .. N : w[i] = Bus!transfer(b[i])
  <2> TAKE i \in 1 .. N
  <2>1. CASE i <= 4
    BY <1>4, <2>1
  <2>2. CASE i > 4
    <3>1. i - 4 \in 1 .. Len(data) /\ 4 + (i - 4) = i
      BY <1>1, <1>2, <2>2
    <3>2. w[4 + (i - 4)] = Bus!transfer(b[4 + (i - 4)])
      BY <1>5, <3>1
    <3> QED BY <3>1, <3>2
  <2> QED BY <1>2, <2>1, <2>2
<1>7. Spells(w, b)
  BY <1>2, <1>3, <1>4, <1>6 DEF Spells, IsInstruction
<1>8. Bus!AddressIn(b) = addr
  <2>1. Len(b) >= 4
    BY <1>2, <1>3
  <2> HIDE DEF N
  <2> QED BY <1>1, <1>2, <1>3, <1>4, <2>1, AddressOf
<1>9. SubSeq(b, 5, Len(b)) = data
  <2> DEFINE d == SubSeq(b, 5, N)
  <2>1. d \in Seq(Nat) /\ Len(d) = Len(data) /\ \A i \in 1 .. Len(data) : d[i] = b[i + 4]
    <3>1. Len(data) \in Nat /\ N = 4 + Len(data)
      BY <1>1
    <3> HIDE DEF N
    <3> QED BY <1>3, <3>1, BehindTheFourth
  <2> HIDE DEF d
  <2>2. \A i \in 1 .. Len(d) : d[i] = data[i]
    <3> TAKE i \in 1 .. Len(d)
    <3>1. i \in 1 .. Len(data) /\ i + 4 = 4 + i
      BY <2>1
    <3> QED BY <1>5, <2>1, <3>1
  <2>3. d = data
    BY <2>1, <2>2, Same
  <2> QED BY <1>3, <2>3 DEF d
<1>10. \A mem : Made(b, mem) = Bus!Stored(mem, addr, data)
  <2>1. Len(b) # 4
    <3>1. PICK n \in Nat : n = N /\ n > 4
      BY <1>2
    <3> HIDE DEF N
    <3>2. n # 4
      BY <3>1
    <3> QED BY <1>3, <3>1, <3>2
  <2> QED BY <1>8, <1>9, <2>1 DEF Made
<1>11. Bus!writePage(addr, data) = CallOf(w)
  BY PageProgramIsCall DEF w
<1> QED BY <1>7, <1>10, <1>11, CallCarries

-----------------------------------------------------------------------------
\* The steps of a call on the bus.
StepOnBus == Bus!LowerCs \/ Bus!RaiseCs \/ Bus!Put \/ Bus!Get \/ Bus!HandlerTransfer

LEMMA CallGoesOn ==
  ASSUME Types, NEW call, NEW o, NEW b, NEW wanted, NEW q, AtStep(call, o, b, wanted, q),
         Bus!InHandler => ~inFlight, StepOnBus, q # 9 + Len(b)
  PROVE  AtStep(call, o, b, wanted, q)' \/ AtStep(call, o, b, wanted, q + 1)'
<1>1. Bus!HandlerTransfer => ~inFlight
  BY DEF Bus!HandlerTransfer
<1> QED BY <1>1, LowersOn, RaisesOn, PutsOn, GetsOn, HandlerOn DEF StepOnBus

\* What a step leaves alone.
LEMMA BusStepKeeps ==
  ASSUME Types, StepOnBus
  PROVE  /\ UNCHANGED <<op, want, cutIn>> /\ (Bus!InHandler => inFlight' = inFlight)
         /\ script # <<>> \/ inFlight
<1>1. UNCHANGED <<op, want, cutIn>>
  BY DEF StepOnBus, Bus!LowerCs, Bus!RaiseCs, Bus!Put, Bus!Get, Bus!HandlerTransfer
<1>2. script # <<>> \/ inFlight
  BY DEF StepOnBus, Bus!LowerCs, Bus!RaiseCs, Bus!Put, Bus!Get, Bus!HandlerTransfer, Bus!NextStep
<1>3. Bus!InHandler => inFlight' = inFlight
  BY DEF StepOnBus, Bus!LowerCs, Bus!RaiseCs, Bus!Put, Bus!Get, Bus!HandlerTransfer
<1> QED BY <1>1, <1>2, <1>3

\* Where the positions of a call are.
LEMMA Positions ==
  ASSUME NEW call, NEW o, NEW b, NEW wanted, NEW q, AtStep(call, o, b, wanted, q)
  PROVE  /\ q \in 0 .. 9 + Len(b) /\ Len(b) \in Nat /\ Len(b) >= 4 /\ o \in Nat
         /\ Len(call) = o + 9 + Len(b) => (script = <<>> <=> q = 9 + Len(b))
         /\ o + 9 + Len(b) < Len(call) => script # <<>>
         /\ inFlight => q # 9 + Len(b)
         /\ q = 9 + Len(b) => ~inFlight /\ ~flash.busy /\ flash.mem = wanted /\ cs = "high"
<1> DEFINE N == Len(b)
<1>1. /\ Carries(call, o, b) /\ Left(script, call, o + q) /\ q \in 0 .. 9 + N
      /\ call \in Seq(Steps) /\ o \in Nat /\ IsInstruction(b) /\ o + 9 + N <= Len(call)
  BY DEF AtStep, Carries
<1>2. N \in Nat /\ N >= 4 /\ Len(call) \in Nat
  BY <1>1, Instructions
<1>3. script = <<>> <=> o + q = Len(call)
  BY <1>1, LeftOn
<1>4. PICK n \in Nat : n = Len(call)
  BY <1>2
<1>5. inFlight => q # 9 + N
  <2>1. 9 + N \notin {1, 6 + N, 7 + N} \cup 4 .. 3 + N
    BY <1>2
  <2> QED BY <2>1 DEF AtStep
<1>6. q = 9 + N => ~flash.busy /\ flash.mem = wanted /\ cs = "high"
  <2>1. 9 + N >= 5 + N /\ 9 + N >= 8 + N
    BY <1>2
  <2> QED BY <2>1 DEF AtStep
<1>7. /\ Len(call) = o + 9 + N => (o + q = Len(call) <=> q = 9 + N)
      /\ o + 9 + N < Len(call) => o + q # Len(call)
  <2> HIDE DEF N
  <2> QED BY <1>1, <1>2, <1>4
<1> QED BY <1>1, <1>2, <1>3, <1>5, <1>6, <1>7

\* The last call of an operation, and the first of two, go on.
LEMMA LastGoesOn ==
  ASSUME Types, NEW call, NEW o, NEW b, NEW q, LastOf(call, o, b, q),
         Bus!InHandler => ~inFlight, StepOnBus
  PROVE  OnItsWay'
<1>1. PICK wanted : wanted = want
  OBVIOUS
<1>2. AtStep(call, o, b, wanted, q) /\ Len(call) = o + 9 + Len(b)
  BY <1>1 DEF LastOf, AtStep
<1>3. q # 9 + Len(b)
  BY <1>2, BusStepKeeps, Positions
<1>4. want' = wanted
  BY <1>1, BusStepKeeps
<1>5. PICK r : AtStep(call, o, b, wanted, r)'
  BY <1>2, <1>3, CallGoesOn
<1>6. LastOf(call, o, b, r)'
  BY <1>2, <1>4, <1>5 DEF LastOf, AtStep
<1> QED BY <1>6 DEF OnItsWay

\* Where the first of two calls ends, the second begins.
SecondFollows ==
  \A call, b, c, wanted :
    /\ AtStep(call, 0, b, wanted, 9 + Len(b)) /\ Carries(call, 9 + Len(b), c)
    /\ Len(call) = 18 + Len(b) + Len(c) /\ Made(c, wanted) = want
    => LastOf(call, 9 + Len(b), c, 0)

LEMMA SecondBegins == SecondFollows
<1> SUFFICES ASSUME NEW call, NEW b, NEW c, NEW wanted, AtStep(call, 0, b, wanted, 9 + Len(b)),
                    Carries(call, 9 + Len(b), c), Len(call) = 18 + Len(b) + Len(c),
                    Made(c, wanted) = want
             PROVE  LastOf(call, 9 + Len(b), c, 0)
  BY DEF SecondFollows
<1> DEFINE N == Len(b)
           C == Len(c)
<1>1. /\ N \in Nat /\ ~inFlight /\ ~flash.busy /\ flash.mem = wanted /\ cs = "high"
  BY Positions
<1>2. C \in Nat /\ C >= 4
  <2>1. IsInstruction(c)
    BY DEF Carries
  <2> QED BY <2>1, Instructions
<1>3. Left(script, call, (9 + N) + 0)
  <2>1. (9 + N) + 0 = 0 + (9 + N)
    BY <1>1
  <2> QED BY <2>1 DEF AtStep
<1>4. /\ 0 \in 0 .. 9 + C /\ 0 < 5 + C /\ ~(0 >= 5 + C) /\ ~(0 >= 8 + C) /\ 0 \notin 3 .. 4 + C
      /\ 18 + N + C = (9 + N) + 9 + C
  BY <1>1, <1>2
<1> HIDE DEF N, C
<1>5. AtStep(call, 9 + N, c, want, 0)
  BY <1>1, <1>3, <1>4 DEF AtStep, N, C
<1> QED BY <1>4, <1>5 DEF LastOf, N, C

LEMMA FirstGoesOn ==
  ASSUME Types, NEW call, NEW b, NEW c, NEW wanted, NEW q, FirstOf(call, b, c, wanted, q),
         Bus!InHandler => ~inFlight, StepOnBus
  PROVE  OnItsWay'
<1>1. AtStep(call, 0, b, wanted, q) /\ q < 9 + Len(b)
  BY DEF FirstOf
<1>2. q \in 0 .. 9 + Len(b) /\ Len(b) \in Nat /\ q # 9 + Len(b)
  BY <1>1, Positions
<1>3. /\ Carries(call, 9 + Len(b), c) /\ Len(call) = 18 + Len(b) + Len(c)
      /\ (Made(c, wanted) = want)'
  BY BusStepKeeps DEF FirstOf
<1>4. PICK r \in {q, q + 1} : AtStep(call, 0, b, wanted, r)'
  BY <1>1, <1>2, CallGoesOn
<1>5. CASE r = 9 + Len(b)
  <2>1. LastOf(call, 9 + Len(b), c, 0)'
    <3>1. SecondFollows'
      BY SecondBegins, PTL
    <3> QED BY <1>3, <1>4, <1>5, <3>1 DEF SecondFollows
  <2> QED BY <2>1 DEF OnItsWay
<1>6. CASE r # 9 + Len(b)
  <2>1. r < 9 + Len(b)
    BY <1>2, <1>4, <1>6
  <2>2. FirstOf(call, b, c, wanted, r)'
    BY <1>3, <1>4, <2>1 DEF FirstOf
  <2> QED BY <2>2 DEF OnItsWay
<1> QED BY <1>5, <1>6

\* And they stay where they are, whatever the flash and the radio do in between.
LEMMA StaysOnItsWay ==
  ASSUME Assumed, BusInv, OnItsWay, UNCHANGED want,
         \/ Bus!FlashDone
         \/ UNCHANGED <<flash, cs, inFlight, script>> /\ (cs = "low" => UNCHANGED frame)
  PROVE  OnItsWay'
<1>1. ASSUME NEW call, NEW o, NEW b, NEW wanted, NEW q, AtStep(call, o, b, wanted, q)
      PROVE  AtStep(call, o, b, wanted, q)'
  <2>1. CASE Bus!FlashDone
    BY <1>1, <2>1, DoneOn DEF BusInv
  <2>2. CASE UNCHANGED <<flash, cs, inFlight, script>> /\ (cs = "low" => UNCHANGED frame)
    BY <1>1, <2>2 DEF AtStep
  <2> QED BY <2>1, <2>2
<1>2. ASSUME NEW call, NEW o, NEW b, NEW q, LastOf(call, o, b, q)
      PROVE  LastOf(call, o, b, q)'
  <2>1. PICK wanted : wanted = want
    OBVIOUS
  <2>2. AtStep(call, o, b, wanted, q)
    BY <1>2, <2>1 DEF LastOf, AtStep
  <2>3. AtStep(call, o, b, wanted, q)'
    BY <1>1, <2>2
  <2> QED BY <1>2, <2>1, <2>3 DEF LastOf, AtStep
<1>3. ASSUME NEW call, NEW b, NEW c, NEW wanted, NEW q, FirstOf(call, b, c, wanted, q)
      PROVE  FirstOf(call, b, c, wanted, q)'
  <2>1. AtStep(call, 0, b, wanted, q)'
    BY <1>1, <1>3 DEF FirstOf
  <2> QED BY <1>3, <2>1 DEF FirstOf
<1> QED BY <1>2, <1>3 DEF OnItsWay

LEMMA BusStepsWhole ==
  ASSUME Assumed, BusInv, WritesWhole, StepOnBus
  PROVE  WritesWhole'
<1>1. UNCHANGED <<op, want, cutIn>> /\ (Bus!InHandler => inFlight' = inFlight)
  BY BusStepKeeps DEF BusInv
<1> SUFFICES ASSUME op.kind \in Writes, ~cutIn
             PROVE  OnItsWay' /\ (Bus!InHandler => ~inFlight')
  BY <1>1 DEF WritesWhole, Bus!InHandler
<1>2. OnItsWay /\ (Bus!InHandler => ~inFlight)
  BY DEF WritesWhole
<1>3. OnItsWay'
  BY <1>2, LastGoesOn, FirstGoesOn DEF OnItsWay, BusInv
<1> QED BY <1>1, <1>2, <1>3

LEMMA OthersWhole ==
  ASSUME Assumed, BusInv, WritesWhole,
         Bus!FlashDone \/ (\E available \in BOOLEAN : Bus!RadioRound(available))
  PROVE  WritesWhole'
<1> SUFFICES ASSUME op'.kind \in Writes, ~cutIn'
             PROVE  OnItsWay' /\ (Bus!InHandler' => ~inFlight')
  BY DEF WritesWhole
<1>1. CASE Bus!FlashDone
  <2>1. UNCHANGED <<op, want, cutIn, inFlight>>
    BY <1>1 DEF Bus!FlashDone
  <2>2. OnItsWay /\ (Bus!InHandler => ~inFlight)
    BY <2>1 DEF WritesWhole
  <2> QED BY <1>1, <2>1, <2>2, StaysOnItsWay DEF Bus!InHandler
<1>2. CASE \E available \in BOOLEAN : Bus!RadioRound(available)
  <2>1. PICK available : Bus!RadioRound(available)
    BY <1>2
  <2>2. ~cutIn /\ cs # "low" /\ want' = want
    BY <2>1 DEF Bus!RadioRound
  <2>3. cs = "high"
    BY <2>2 DEF BusInv, Types
  <2>4. UNCHANGED <<flash, cs, inFlight, op, script>>
    BY <2>1, <2>3, RadioOn
  <2>5. OnItsWay /\ (Bus!InHandler => ~inFlight)
    BY <2>2, <2>4 DEF WritesWhole
  <2> QED BY <2>2, <2>4, <2>5, StaysOnItsWay DEF Bus!InHandler
<1> QED BY <1>1, <1>2

\* A call, and one behind another, begin with the bus at rest.
CallStarts ==
  \A call, b :
    /\ Carries(call, 0, b) /\ Len(call) = 9 + Len(b) /\ script = call
    /\ cs = "high" /\ ~inFlight /\ ~flash.busy /\ Made(b, flash.mem) = want
    => OnItsWay

CallsStart ==
  \A x, y, b, c :
    /\ Carries(x, 0, b) /\ Len(x) = 9 + Len(b) /\ Carries(y, 0, c) /\ Len(y) = 9 + Len(c)
    /\ script = Cat(x, y) /\ cs = "high" /\ ~inFlight /\ ~flash.busy
    /\ Made(c, Made(b, flash.mem)) = want
    => OnItsWay

LEMMA AtTheStart ==
  ASSUME NEW call, NEW b, NEW wanted, Carries(call, 0, b), script = call, cs = "high",
         ~inFlight, ~flash.busy, Made(b, flash.mem) = wanted
  PROVE  AtStep(call, 0, b, wanted, 0)
<1> DEFINE N == Len(b)
<1>1. call \in Seq(Steps) /\ N \in Nat /\ N >= 4
  BY Instructions DEF Carries
<1>2. Left(script, call, 0 + 0)
  <2>1. /\ 0 + 0 \in 0 .. Len(call) /\ Len(call) = Len(call) - (0 + 0)
        /\ \A i \in 1 .. Len(call) : (0 + 0) + i = i
    BY <1>1
  <2> QED BY <1>1, <2>1 DEF Left
<1>3. /\ 0 \in 0 .. 9 + N /\ 0 < 5 + N /\ ~(0 >= 5 + N) /\ ~(0 >= 8 + N) /\ 0 \notin 3 .. 4 + N
  BY <1>1
<1> HIDE DEF N
<1> QED BY <1>1, <1>2, <1>3 DEF AtStep, N

LEMMA CallBegins == CallStarts
<1> SUFFICES ASSUME NEW call, NEW b, Carries(call, 0, b), Len(call) = 9 + Len(b),
                    script = call, cs = "high", ~inFlight, ~flash.busy,
                    Made(b, flash.mem) = want
             PROVE  OnItsWay
  BY DEF CallStarts
<1>1. AtStep(call, 0, b, want, 0)
  BY AtTheStart
<1>2. 0 + 9 + Len(b) = 9 + Len(b)
  BY <1>1, Positions
<1>3. LastOf(call, 0, b, 0)
  BY <1>1, <1>2 DEF LastOf
<1> QED BY <1>3 DEF OnItsWay

LEMMA CallsBegin == CallsStart
<1> SUFFICES ASSUME NEW x, NEW y, NEW b, NEW c, Carries(x, 0, b), Len(x) = 9 + Len(b),
                    Carries(y, 0, c), Len(y) = 9 + Len(c), script = Cat(x, y), cs = "high",
                    ~inFlight, ~flash.busy, Made(c, Made(b, flash.mem)) = want
             PROVE  OnItsWay
  BY DEF CallsStart
<1> DEFINE s == Cat(x, y)
           wanted == Made(b, flash.mem)
<1>1. x \in Seq(Steps) /\ y \in Seq(Steps) /\ Len(b) \in Nat /\ Len(c) \in Nat
  BY Instructions DEF Carries
<1>2. Joins(s, x, y, Steps)
  BY <1>1, Cats
<1>3. Carries(s, 0, b)
  BY <1>1, CarriesFirst
<1>4. Carries(s, 9 + Len(b), c)
  BY <1>1, CarriesSecond
<1>5. AtStep(s, 0, b, wanted, 0)
  BY <1>3, AtTheStart
<1> HIDE DEF s, wanted
<1>6. Len(s) = 18 + Len(b) + Len(c)
  <2>1. Len(s) = (9 + Len(b)) + (9 + Len(c))
    BY <1>2 DEF Joins
  <2>2. PICK m, n \in Nat : m = Len(b) /\ n = Len(c)
    BY <1>1
  <2>3. (9 + m) + (9 + n) = 18 + m + n
    OBVIOUS
  <2> QED BY <2>1, <2>2, <2>3
<1>7. 0 < 9 + Len(b)
  BY <1>1
<1>8. FirstOf(s, b, c, wanted, 0)
  BY <1>4, <1>5, <1>6, <1>7 DEF FirstOf, wanted
<1> QED BY <1>8 DEF OnItsWay

LEMMA LoggerBegins ==
  ASSUME Assumed, BusInv, Bus!WriteEntry \/ Bus!SectorErased
  PROVE  WritesWhole' /\ op'.kind \in {"erase", "program"}
<1>1. /\ Bus!Erase \/ Bus!Write
      /\ op.kind \in {"none", "erase"} /\ script = <<>>
      /\ UNCHANGED <<flash, cs, frame, inFlight>>
  <2>1. Bus!WriteEntry => op.kind = "none"
    BY DEF Bus!WriteEntry, Bus!None
  <2> QED BY <2>1 DEF Bus!WriteEntry, Bus!SectorErased, BusInv, InPlace
<1>2. cs = "high" /\ ~inFlight /\ writeAddr \in Nat /\ entryCount \in Nat
  BY <1>1, AtRest DEF Bus!InHandler, BusInv, Types
<1> DEFINE d == Bus!LogEntry(entryCount)
<1>3. d \in Seq(Nat) /\ Len(d) >= 1
  <2>1. Len(d) = EntryBytes /\ d \in Seq(Nat) /\ EntryBytes \in Nat /\ EntryBytes >= 1
    BY <1>2, Entries DEF Assumed, Bus!BusAssumption
  <2> QED BY <2>1
<1>4. \/ /\ op'.kind = "erase" /\ script' = Bus!eraseSector(writeAddr)
         /\ ~cutIn' => ~flash.busy /\ want' = Bus!EraseSector(flash.mem, writeAddr)
      \/ /\ op'.kind = "program" /\ script' = Bus!writePage(writeAddr, d)
         /\ ~cutIn' => ~flash.busy /\ want' = Bus!Stored(flash.mem, writeAddr, d)
  BY <1>1 DEF Bus!Erase, Bus!Write, Bus!Begin
<1> HIDE DEF d
<1>5. ASSUME ~cutIn' PROVE OnItsWay'
  <2>1. \E b : /\ Carries(script', 0, b) /\ Len(script') = 9 + Len(b)
               /\ Made(b, flash.mem) = want'
    BY <1>2, <1>3, <1>4, <1>5, EraseMakes, ProgramMakes
  <2>2. CallStarts'
    BY CallBegins, PTL
  <2> QED BY <1>1, <1>2, <1>4, <1>5, <2>1, <2>2 DEF CallStarts
<1> QED BY <1>4, <1>5 DEF WritesWhole, Bus!InHandler

-----------------------------------------------------------------------------
\* The fault handler on its way to a free slot: q steps of the i-th slot's reading are
\* done, and the slots before it are taken.
Looking(i, q) ==
  /\ i \in 0 .. MaxCrashes /\ q \in 0 .. 7 /\ op.addr = Bus!SlotAddr(i)
  /\ \A j \in 0 .. i - 1 : flash.mem[Bus!SlotAddr(j)] = {Bus!Magic}
  /\ Left(script, Bus!read(op.addr), q)
  /\ cs = "high" <=> q \in {0, 7}
  /\ q \in 1 .. 6 => frame = Bytes(Reading(op.addr), q - 1)
  /\ q \in {6, 7} => (hasMagic <=> flash.mem[op.addr] = {Bus!Magic})

FindsFree ==
  op.kind = "find" /\ ~cutIn =>
    /\ ~inFlight /\ ~flash.busy /\ want = Bus!Recorded(flash.mem, crash)
    /\ \E i, q : Looking(i, q)

\* The steps of a read.
LEMMA ReadSteps ==
  ASSUME NEW addr \in Nat
  PROVE  /\ Bus!read(addr) \in Seq(Steps) /\ Len(Bus!read(addr)) = 7
         /\ Bus!read(addr)[0 + 1].do = "low" /\ Bus!read(addr)[6 + 1].do = "high"
         /\ \A q \in 1 .. 5 :
              /\ Bus!read(addr)[q + 1] = Reading(addr)[q]
              /\ Reading(addr)[q].do = IF q = 5 THEN "take" ELSE "byte"
<1> DEFINE w == Reading(addr)
           s == Bus!read(addr)
<1>1. /\ Instructs(w, Bus!transfer(Bus!READ_DATA), addr) /\ Len(w) = 5 /\ w[5] = Bus!takeMagic
  BY ReadingSent
<1>2. w \in Seq(Transfers)
  BY <1>1 DEF Instructs
<1>3. s = FrameOf(w)
  BY ReadIsFrame
<1> HIDE DEF w, s
<1>4. /\ s \in Seq(Steps) /\ Len(s) = Len(w) + 2 /\ s[1] = Bus!csLow
      /\ s[Len(w) + 2] = Bus!csHigh /\ \A i \in 1 .. Len(w) : s[1 + i] = w[i]
  BY <1>2, <1>3, FrameParts
<1>5. Len(s) = 7 /\ s[7] = Bus!csHigh
  <2>1. Len(w) + 2 = 7
    BY <1>1
  <2> QED BY <1>4, <2>1
<1>6. /\ w[1].do = "byte" /\ w[2].do = "byte" /\ w[3].do = "byte" /\ w[4].do = "byte"
      /\ w[5].do = "take"
  <2>1. Bus!takeMagic.do = "take"
    BY DEF Bus!takeMagic
  <2> QED BY <1>1, <2>1, StepKinds DEF Instructs
<1>7. ASSUME NEW q \in 1 .. 5
      PROVE  s[q + 1] = w[q] /\ w[q].do = IF q = 5 THEN "take" ELSE "byte"
  <2>1. q \in 1 .. Len(w) /\ q + 1 = 1 + q /\ q \in {1, 2, 3, 4, 5}
    BY <1>1
  <2>2. w[q].do = IF q = 5 THEN "take" ELSE "byte"
    BY <1>6, <2>1
  <2> QED BY <1>4, <2>1, <2>2
<1>8. s[0 + 1].do = "low" /\ s[6 + 1].do = "high"
  <2>1. 0 + 1 = 1 /\ 6 + 1 = 7
    OBVIOUS
  <2> QED BY <1>4, <1>5, <2>1, StepKinds
<1> QED BY <1>4, <1>5, <1>7, <1>8 DEF w, s

\* What the flash hears of one: it is no instruction that changes the flash, and
\* before the last byte it has asked for the place.
LEMMA ReadHeard ==
  ASSUME NEW addr \in Nat
  PROVE  /\ \A n \in 0 .. 5 : Bytes(Reading(addr), n) \in Seq(Nat)
         /\ Bytes(Reading(addr), 0) = <<>>
         /\ \A n \in 1 .. 5 : /\ Bytes(Reading(addr), n) # <<>>
                              /\ Bytes(Reading(addr), n)[1] = 3
         /\ \A n \in 0 .. 4 : /\ Reading(addr)[n + 1].byte \in Nat
                              /\ Append(Bytes(Reading(addr), n), Reading(addr)[n + 1].byte)
                                   = Bytes(Reading(addr), n + 1)
         /\ Bytes(Reading(addr), 4) = <<Bus!READ_DATA>> \o Bus!AddressBytes(addr)
<1> DEFINE w == Reading(addr)
<1>1. Instructs(w, Bus!transfer(Bus!READ_DATA), addr) /\ Len(w) = 5
  BY ReadingSent
<1>2. w \in Seq(Transfers)
  BY <1>1 DEF Instructs
<1>3. /\ w[1].byte = 3 /\ w[2].byte = addr \div 65536 /\ w[3].byte = (addr \div 256) % 256
      /\ w[4].byte = addr % 256
  BY <1>1, StepKinds, Numbers DEF Instructs
<1> HIDE DEF w
<1>4. ASSUME NEW n \in 0 .. 5
      PROVE  /\ Bytes(w, n) \in Seq(Nat) /\ Len(Bytes(w, n)) = n
             /\ \A i \in 1 .. n : Bytes(w, n)[i] = w[i].byte
  BY <1>1, <1>2, BytesFacts
<1>5. ASSUME NEW n \in 0 .. 4
      PROVE  w[n + 1].byte \in Nat /\ Append(Bytes(w, n), w[n + 1].byte) = Bytes(w, n + 1)
  <2>1. n \in 0 .. Len(w) /\ n < Len(w)
    BY <1>1
  <2> QED BY <1>2, <2>1, BytesFacts
<1>6. Bytes(w, 0) = <<>>
  <2> DEFINE x == Bytes(w, 0)
  <2>1. x \in Seq(Nat) /\ Len(x) = 0
    BY <1>4
  <2> HIDE DEF x
  <2>2. x = <<>>
    BY <2>1
  <2> QED BY <2>2 DEF x
<1>7. ASSUME NEW n \in 1 .. 5
      PROVE  Bytes(w, n) # <<>> /\ Bytes(w, n)[1] = 3
  <2> DEFINE x == Bytes(w, n)
  <2>0. n \in 0 .. 5 /\ 1 \in 1 .. n
    OBVIOUS
  <2>1. x \in Seq(Nat) /\ Len(x) = n /\ x[1] = 3
    <3>1. x \in Seq(Nat) /\ Len(x) = n /\ \A i \in 1 .. n : x[i] = w[i].byte
      BY <1>4, <2>0
    <3> HIDE DEF x
    <3> QED BY <1>3, <2>0, <3>1
  <2> HIDE DEF x
  <2>2. x # <<>>
    BY <2>1
  <2> QED BY <2>1, <2>2 DEF x
<1>8. Bytes(w, 4) = <<Bus!READ_DATA>> \o Bus!AddressBytes(addr)
  <2> DEFINE x == Bytes(w, 4)
             a == addr \div 65536
             b == (addr \div 256) % 256
             c == addr % 256
             y == <<3>> \o <<a, b, c>>
  <2>1. /\ x \in Seq(Nat) /\ Len(x) = 4
        /\ x[1] = 3 /\ x[2] = a /\ x[3] = b /\ x[4] = c
    <3>1. 4 \in 0 .. 5 /\ {1, 2, 3, 4} \subseteq 1 .. 4
      OBVIOUS
    <3>2. x \in Seq(Nat) /\ Len(x) = 4 /\ \A i \in 1 .. 4 : x[i] = w[i].byte
      BY <1>4, <3>1
    <3>3. /\ w[1].byte = 3 /\ w[2].byte = a /\ w[3].byte = b /\ w[4].byte = c
      BY <1>3
    <3> HIDE DEF x, a, b, c
    <3> QED BY <3>1, <3>2, <3>3
  <2>2. a \in Nat /\ b \in Nat /\ c \in Nat
    BY AddressParts
  <2> HIDE DEF x, a, b, c
  <2>3. y \in Seq(Nat) /\ Len(y) = 4 /\ y[1] = 3 /\ y[2] = a /\ y[3] = b /\ y[4] = c
    BY <2>2
  <2> HIDE DEF y
  <2>4. \A i \in 1 .. 4 : i \in {1, 2, 3, 4}
    OBVIOUS
  <2>5. \A i \in 1 .. Len(x) : x[i] = y[i]
    BY <2>1, <2>3, <2>4
  <2>6. x = y
    BY <2>1, <2>3, <2>5, Same
  <2> QED BY <2>6, Numbers DEF x, y, a, b, c, Bus!AddressBytes
<1> QED BY <1>4, <1>5, <1>6, <1>7, <1>8 DEF w

\* A step of a read leads to the next.
LEMMA NextOfRead ==
  ASSUME Types, NEW i, NEW q, Looking(i, q), script # <<>>
  PROVE  /\ q \in 0 .. 6 /\ op.addr \in Nat /\ Head(script) = Bus!read(op.addr)[q + 1]
         /\ Left(Tail(script), Bus!read(op.addr), q + 1)
<1> DEFINE s == Bus!read(op.addr)
<1>1. s \in Seq(Steps) /\ Len(s) = 7 /\ op.addr \in Nat
  BY ReadSteps DEF Types
<1>2. Left(script, s, q) /\ q \in 0 .. 7
  BY DEF Looking
<1> HIDE DEF s
<1>3. q < Len(s) /\ Head(script) = s[q + 1] /\ Left(Tail(script), s, q + 1)
  BY <1>1, <1>2, LeftOn
<1> QED BY <1>1, <1>2, <1>3 DEF s

LEMMA LooksThere ==
  ASSUME Types, NEW i, NEW q, Looking(i, q), NEW r \in 0 .. 7, UNCHANGED <<flash, op>>,
         Left(script', Bus!read(op.addr), r), cs' = "high" <=> r \in {0, 7},
         r \in 1 .. 6 => frame' = Bytes(Reading(op.addr), r - 1),
         r \in {6, 7} => (hasMagic' <=> flash.mem[op.addr] = {Bus!Magic})
  PROVE  Looking(i, r)'
BY DEF Looking

LEMMA LooksOn ==
  ASSUME Types, NEW i, NEW q, Looking(i, q), op.kind = "find", ~inFlight, ~flash.busy,
         StepOnBus
  PROVE  Looking(i, q + 1)' /\ UNCHANGED flash
<1> DEFINE s == Bus!read(op.addr)
           w == Reading(op.addr)
<1>1. Bus!InHandler /\ script # <<>> /\ UNCHANGED op /\ op.addr \in Nat
  BY BusStepKeeps DEF Bus!InHandler, Types
<1>2. /\ q \in 0 .. 6 /\ Head(script) = s[q + 1] /\ Left(Tail(script), s, q + 1)
  BY <1>1, NextOfRead
<1>3. /\ s[0 + 1].do = "low" /\ s[6 + 1].do = "high"
      /\ \A p \in 1 .. 5 : s[p + 1] = w[p] /\ w[p].do = IF p = 5 THEN "take" ELSE "byte"
  BY <1>1, ReadSteps
<1>4. q + 1 \in 0 .. 7 /\ q \in {0, 6} \cup 1 .. 5
  BY <1>2
<1>5. q \in 1 .. 5 => Head(script) = w[q] /\ w[q].do = IF q = 5 THEN "take" ELSE "byte"
  BY <1>2, <1>3
<1>6. (q = 0 => Head(script).do = "low") /\ (q = 6 => Head(script).do = "high")
  BY <1>2, <1>3
<1> DEFINE heard(n) == Bytes(w, n)
<1>7. heard(0) = <<>> /\ \A n \in 0 .. 5 : heard(n) \in Seq(Nat)
  BY <1>1, ReadHeard
<1>8. \A n \in 1 .. 5 : heard(n) # <<>> /\ heard(n)[1] = 3
  BY <1>1, ReadHeard
<1>9. heard(4) = <<Bus!READ_DATA>> \o Bus!AddressBytes(op.addr)
  BY <1>1, ReadHeard
<1> HIDE DEF heard
<1>10. CASE Bus!LowerCs
  <2>1. /\ Head(script).do = "low" /\ cs' = "low"
        /\ frame' = IF cs = "low" THEN frame ELSE <<>>
        /\ script' = Tail(script) /\ UNCHANGED flash
    BY <1>10 DEF Bus!LowerCs, Bus!NextStep
  <2>2. q = 0
    BY <1>4, <1>5, <1>6, <2>1
  <2>3. cs = "high"
    BY <2>2 DEF Looking
  <2>4. frame' = Bytes(w, 0)
    BY <1>1, <2>1, <2>3, ReadHeard
  <2>5. /\ q + 1 \notin {0, 7} /\ (q + 1) - 1 = 0 /\ q + 1 \notin {6, 7}
    BY <2>2
  <2> HIDE DEF s, w
  <2>6. Left(script', s, q + 1) /\ (cs' = "high" <=> q + 1 \in {0, 7})
        /\ frame' = Bytes(w, (q + 1) - 1)
    BY <1>2, <2>1, <2>4, <2>5
  <2> QED BY <1>1, <1>4, <2>1, <2>5, <2>6, LooksThere DEF s, w
<1>11. CASE Bus!RaiseCs
  <2>1. /\ Head(script).do = "high" /\ cs' = "high"
        /\ flash' = IF cs = "low" THEN Bus!EndOfFrame(flash, frame) ELSE flash
        /\ script' = Tail(script) /\ UNCHANGED hasMagic
    BY <1>11 DEF Bus!RaiseCs, Bus!NextStep
  <2>2. q = 6
    BY <1>4, <1>5, <1>6, <2>1
  <2>3. frame = Bytes(w, 5) /\ (hasMagic <=> flash.mem[op.addr] = {Bus!Magic})
    BY <2>2 DEF Looking
  <2>4. flash' = flash
    <3>1. frame \in Seq(Nat) /\ frame[1] = 3
      <4>1. 5 \in 0 .. 5 /\ 5 \in 1 .. 5
        OBVIOUS
      <4> QED BY <1>7, <1>8, <2>3, <4>1 DEF heard
    <3>2. <<Bus!WRITE_ENABLE>>[1] = 6
      BY Numbers
    <3>3. frame # <<Bus!WRITE_ENABLE>> /\ frame[1] \notin {2, 32}
      BY <3>1, <3>2
    <3>4. Bus!Latched(flash, frame) = flash
      BY <3>1, <3>3, FramesMake DEF Types
    <3> QED BY <2>1, <3>4 DEF Bus!EndOfFrame
  <2>5. q + 1 = 7 /\ q + 1 \notin 1 .. 6 /\ q + 1 \in {0, 7}
    BY <2>2
  <2> HIDE DEF s, w
  <2> QED BY <1>1, <1>2, <1>4, <2>1, <2>3, <2>4, <2>5, LooksThere DEF s, w
<1>12. CASE Bus!HandlerTransfer
  <2>1. /\ Head(script).do \in {"byte", "poll", "take"}
        /\ Bus!OnBus(Head(script).byte) /\ Bus!AfterReply /\ UNCHANGED <<flash, cs>>
    BY <1>12 DEF Bus!HandlerTransfer, Bus!NextStep
  <2>2. q \in 1 .. 5
    BY <1>4, <1>6, <2>1
  <2>3. cs = "low" /\ frame = Bytes(w, q - 1) /\ Head(script).byte = w[q].byte
    <3>1. q \in 1 .. 6 /\ q \notin {0, 7}
      BY <2>2
    <3> QED BY <1>5, <2>2, <3>1 DEF Looking, Types
  <2>4. w[q].byte \in Nat /\ Append(Bytes(w, q - 1), w[q].byte) = Bytes(w, q)
    <3>1. q - 1 \in 0 .. 4 /\ (q - 1) + 1 = q
      BY <2>2
    <3>2. /\ w[(q - 1) + 1].byte \in Nat
          /\ Append(Bytes(w, q - 1), w[(q - 1) + 1].byte) = Bytes(w, (q - 1) + 1)
      BY <1>1, <3>1, ReadHeard
    <3> QED BY <3>1, <3>2
  <2>5. frame \notin {Bus!Ignored, <<Bus!READ_STATUS>>}
    <3>1. CASE q = 1
      <4>1. frame = <<>>
        <5>1. q - 1 = 0
          BY <3>1
        <5> QED BY <1>7, <2>3, <5>1 DEF heard
      <4> QED BY <4>1 DEF Bus!Ignored
    <3>2. CASE q # 1
      <4>1. q - 1 \in 1 .. 5
        BY <2>2, <3>2
      <4>2. frame[1] = 3
        BY <1>8, <2>3, <4>1 DEF heard
      <4>3. <<0>>[1] = 0 /\ <<Bus!READ_STATUS>>[1] = 5
        BY Numbers
      <4> QED BY <4>2, <4>3 DEF Bus!Ignored
    <3> QED BY <3>1, <3>2
  <2>6. frame' = Bytes(w, q)
    <3>1. Bus!Received(flash, frame, w[q].byte) = Append(frame, w[q].byte)
      BY <2>5 DEF Bus!Received
    <3> QED BY <2>1, <2>3, <2>4, <3>1 DEF Bus!OnBus
  <2>7. script' = Tail(script)
        /\ (q = 5 => (hasMagic' <=> flash.mem[op.addr] = {Bus!Magic}))
    <3>1. CASE q = 5
      <4>1. Head(script).do = "take"
        BY <1>5, <2>2, <3>1
      <4>2. hasMagic' \in Bus!MagicReplies /\ script' = Tail(script)
        BY <2>1, <4>1 DEF Bus!AfterReply
      <4>3. frame = <<Bus!READ_DATA>> \o Bus!AddressBytes(op.addr)
        <5>1. q - 1 = 4
          BY <3>1
        <5> QED BY <1>9, <2>3, <5>1 DEF heard
      <4>4. Bus!MagicReplies = {flash.mem[op.addr] = {Bus!Magic}}
        BY <2>3, <4>3 DEF Bus!MagicReplies
      <4> QED BY <4>2, <4>4, Zenon
    <3>2. CASE q # 5
      <4>1. Head(script).do = "byte"
        BY <1>5, <2>2, <3>2
      <4> QED BY <2>1, <3>2, <4>1 DEF Bus!AfterReply
    <3> QED BY <3>1, <3>2
  <2>8. /\ q + 1 \notin {0, 7} /\ (q + 1) - 1 = q /\ (q + 1 \in {6, 7} => q = 5)
    BY <2>2
  <2> HIDE DEF s, w
  <2>9. /\ cs' = "high" <=> q + 1 \in {0, 7}
        /\ q + 1 \in 1 .. 6 => frame' = Bytes(w, (q + 1) - 1)
        /\ q + 1 \in {6, 7} => (hasMagic' <=> flash.mem[op.addr] = {Bus!Magic})
        /\ Left(script', s, q + 1) /\ UNCHANGED flash
    BY <1>2, <2>1, <2>3, <2>6, <2>7, <2>8
  <2> QED BY <1>1, <1>4, <2>9, LooksThere DEF s, w
<1> QED BY <1>1, <1>10, <1>11, <1>12 DEF StepOnBus, Bus!Put, Bus!Get

LEMMA BusStepsFind ==
  ASSUME Assumed, BusInv, FindsFree, StepOnBus
  PROVE  FindsFree'
<1>1. UNCHANGED <<op, want, cutIn>> /\ (Bus!InHandler => inFlight' = inFlight)
  BY BusStepKeeps DEF BusInv
<1> SUFFICES ASSUME op.kind = "find", ~cutIn
             PROVE  /\ ~inFlight' /\ ~flash'.busy /\ want = Bus!Recorded(flash'.mem, crash')
                    /\ (\E i, q : Looking(i, q))'
  BY <1>1 DEF FindsFree
<1>2. PICK i, q : /\ ~inFlight /\ ~flash.busy /\ want = Bus!Recorded(flash.mem, crash)
                  /\ Looking(i, q)
  BY DEF FindsFree
<1>3. Looking(i, q + 1)' /\ UNCHANGED flash
  BY <1>2, LooksOn DEF BusInv
<1>4. UNCHANGED crash
  BY DEF StepOnBus, Bus!LowerCs, Bus!RaiseCs, Bus!Put, Bus!Get, Bus!HandlerTransfer
<1>5. inFlight' = inFlight
  BY <1>1 DEF Bus!InHandler
<1> QED BY <1>2, <1>3, <1>4, <1>5

\* The handler begins with the first slot.
LEMMA FaultLooks ==
  ASSUME Assumed, BusInv, Bus!HardFault
  PROVE  FindsFree' /\ op'.kind = "find"
<1>1. /\ op' = [kind |-> "find", addr |-> Bus!SlotAddr(0)]
      /\ script' = Bus!read(Bus!SlotAddr(0)) /\ cutIn' = (flash.busy \/ cs = "low" \/ inFlight)
      /\ want' = IF cutIn' THEN Bus!Blank ELSE Bus!Recorded(flash.mem, crash')
      /\ UNCHANGED <<flash, cs, inFlight>>
  BY DEF Bus!HardFault
<1>2. op'.kind = "find" /\ op'.addr = Bus!SlotAddr(0) /\ Bus!SlotAddr(0) \in Nat
  BY <1>1, Numbers
<1> SUFFICES ASSUME ~cutIn'
             PROVE  /\ ~inFlight' /\ ~flash'.busy /\ want' = Bus!Recorded(flash'.mem, crash')
                    /\ (\E i, q : Looking(i, q))'
  BY <1>2 DEF FindsFree
<1>3. ~flash.busy /\ cs # "low" /\ ~inFlight
  BY <1>1
<1>4. Left(script', Bus!read(op'.addr), 0)
  <2> DEFINE s == Bus!read(Bus!SlotAddr(0))
  <2>1. s \in Seq(Steps) /\ Len(s) = 7
    BY <1>2, ReadSteps
  <2> HIDE DEF s
  <2>2. Left(s, s, 0)
    BY <2>1 DEF Left
  <2> QED BY <1>1, <1>2, <2>2 DEF s
<1>5. cs' = "high" /\ MaxCrashes \in Nat
  BY <1>1, <1>3 DEF BusInv, Types, Assumed, Bus!BusAssumption
<1>6. Looking(0, 0)'
  <2>1. 0 \in 0 .. MaxCrashes /\ 0 \in 0 .. 7 /\ 0 .. 0 - 1 = {} /\ 0 \notin 1 .. 6
        /\ 0 \notin {6, 7}
    BY <1>5
  <2> QED BY <1>2, <1>4, <1>5, <2>1 DEF Looking
<1> QED BY <1>1, <1>3, <1>6

\* Where it records: the first slot that is free, or an erased log.
LEMMA SlotsOn ==
  ASSUME NEW i \in Nat, NEW m \in Nat
  PROVE  /\ Bus!SlotAddr(i) \in Nat /\ Bus!SlotAddr(i) + 48 = Bus!SlotAddr(i + 1)
         /\ Bus!SlotAddr(i) < Bus!SlotAddr(m) <=> i < m
         /\ Bus!SlotAddr(i) = Bus!SlotAddr(m) <=> i = m
<1>1. Bus!SlotAddr(i) = 4100 + (48 * i) /\ Bus!SlotAddr(i + 1) = 4100 + (48 * (i + 1))
      /\ Bus!SlotAddr(m) = 4100 + (48 * m)
  BY Numbers DEF Bus!SlotAddr
<1> QED BY <1>1

LEMMA RecordsFirst ==
  ASSUME NEW mem, NEW i \in 0 .. MaxCrashes, mem[Bus!SlotAddr(i)] # {Bus!Magic}, NEW c,
         \A j \in 0 .. i - 1 : mem[Bus!SlotAddr(j)] = {Bus!Magic}
  PROVE  Bus!Recorded(mem, c) = Bus!Stored(mem, Bus!SlotAddr(i), Bus!CrashEntry(c))
<1> DEFINE F == Bus!Free(mem)
<1>1. i \in F /\ F \subseteq 0 .. MaxCrashes
  BY DEF Bus!Free
<1>2. \A j \in F : j \notin 0 .. i - 1
  BY DEF Bus!Free
<1> HIDE DEF F
<1>3. \A j \in F : i <= j
  BY <1>1, <1>2
<1>4. \A k \in F : (\A j \in F : k <= j) => k = i
  BY <1>1, <1>3
<1>5. Bus!FirstFree(mem) = i
  BY <1>1, <1>3, <1>4 DEF Bus!FirstFree, F
<1>6. F # {}
  BY <1>1
<1> QED BY <1>5, <1>6 DEF Bus!Recorded, F

LEMMA RecordsOver ==
  ASSUME NEW mem, NEW c, \A j \in 0 .. MaxCrashes : mem[Bus!SlotAddr(j)] = {Bus!Magic}
  PROVE  Bus!Recorded(mem, c)
           = Bus!Stored(Bus!EraseSector(mem, Bus!CrashSector), Bus!SlotAddr(0), Bus!CrashEntry(c))
<1>1. Bus!Free(mem) = {}
  BY DEF Bus!Free
<1> QED BY <1>1 DEF Bus!Recorded

\* A slot read, the handler looks at the next, or records.
LEMMA SlotReadWhole ==
  ASSUME Assumed, BusInv, FindsFree, Bus!SlotRead
  PROVE  WritesWhole' /\ FindsFree' /\ op'.kind # "none"
<1>1. /\ op.kind = "find" /\ script = <<>>
      /\ UNCHANGED <<flash, cs, inFlight, hasMagic, crash, cutIn, want>>
  BY DEF Bus!SlotRead
<1>2. /\ crash \in Nat /\ op.addr \in Nat /\ cs = "high" /\ MaxCrashes \in Nat
      /\ op \in [kind : {"none", "erase", "program", "find", "record"}, addr : Nat]
  BY <1>1, AtRest DEF BusInv, Types, Assumed, Bus!BusAssumption
<1>3. /\ [op EXCEPT !.addr = @ + 48].kind = "find"
      /\ [op EXCEPT !.addr = @ + 48].addr = op.addr + 48
      /\ [op EXCEPT !.kind = "record"].kind = "record"
  BY <1>1, <1>2
<1>4. op'.kind \in {"find", "record"}
  BY <1>1, <1>2, <1>3 DEF Bus!SlotRead
<1> SUFFICES ASSUME ~cutIn
             PROVE  /\ op'.kind = "record" => OnItsWay' /\ ~inFlight'
                    /\ op'.kind = "find" =>
                         /\ ~inFlight' /\ ~flash'.busy
                         /\ want' = Bus!Recorded(flash'.mem, crash')
                         /\ (\E i, q : Looking(i, q))'
  BY <1>1, <1>4 DEF WritesWhole, FindsFree, Writes, Bus!InHandler
<1>5. /\ ~inFlight /\ ~flash.busy /\ want = Bus!Recorded(flash.mem, crash)
      /\ \E i, q : Looking(i, q)
  BY <1>1 DEF FindsFree
<1>6. PICK i, q : Looking(i, q)
  BY <1>5
<1>7. q = 7
  <2> DEFINE s == Bus!read(op.addr)
  <2>1. s \in Seq(Steps) /\ Len(s) = 7
    BY <1>2, ReadSteps
  <2>2. Left(script, s, q)
    BY <1>6 DEF Looking
  <2> HIDE DEF s
  <2> QED BY <1>1, <2>1, <2>2, LeftOn
<1>8. /\ i \in 0 .. MaxCrashes /\ op.addr = Bus!SlotAddr(i)
      /\ \A j \in 0 .. i - 1 : flash.mem[Bus!SlotAddr(j)] = {Bus!Magic}
      /\ hasMagic <=> flash.mem[Bus!SlotAddr(i)] = {Bus!Magic}
  BY <1>6, <1>7 DEF Looking
<1>9. /\ Bus!SlotAddr(i) + 48 = Bus!SlotAddr(i + 1) /\ i \in Nat
      /\ Bus!SlotAddr(i) < Bus!SlotAddr(MaxCrashes) <=> i < MaxCrashes
      /\ Bus!SlotAddr(i) = Bus!SlotAddr(MaxCrashes) <=> i = MaxCrashes
  BY <1>2, <1>8, SlotsOn
<1> DEFINE d == Bus!CrashEntry(crash)
<1>10. d \in Seq(Nat) /\ Len(d) >= 1
  <2>1. d \in Seq(Nat) /\ Len(d) = 2
    BY <1>2, Entries DEF Bus!CrashEntry
  <2> HIDE DEF d
  <2> QED BY <2>1
<1> HIDE DEF d
<1>11. CASE /\ hasMagic /\ op.addr < Bus!SlotAddr(MaxCrashes)
            /\ op' = [op EXCEPT !.addr = @ + 48]
            /\ script' = Bus!read(op.addr + 48)
  <2>1. op'.kind = "find" /\ op'.addr = Bus!SlotAddr(i + 1) /\ op'.addr \in Nat
    BY <1>2, <1>3, <1>8, <1>9, <1>11
  <2>2. Left(script', Bus!read(op'.addr), 0)
    <3> DEFINE s == Bus!read(op.addr + 48)
    <3>1. s \in Seq(Steps) /\ Len(s) = 7
      BY <1>2, ReadSteps
    <3> HIDE DEF s
    <3>2. Left(s, s, 0)
      BY <3>1 DEF Left
    <3> QED BY <1>8, <1>9, <1>11, <2>1, <3>2 DEF s
  <2>3. i + 1 \in 0 .. MaxCrashes
        /\ \A j \in 0 .. (i + 1) - 1 : flash.mem[Bus!SlotAddr(j)] = {Bus!Magic}
    <3>1. i < MaxCrashes
      BY <1>8, <1>9, <1>11
    <3>2. i + 1 \in 0 .. MaxCrashes /\ \A j \in 0 .. (i + 1) - 1 : j \in 0 .. i - 1 \/ j = i
      BY <1>2, <1>8, <3>1
    <3> QED BY <1>8, <1>11, <3>2
  <2>4. Looking(i + 1, 0)'
    <3>1. 0 \in 0 .. 7 /\ 0 \notin 1 .. 6 /\ 0 \notin {6, 7} /\ 0 \in {0, 7}
      OBVIOUS
    <3>2. UNCHANGED flash /\ cs' = "high"
      BY <1>1, <1>2
    <3> QED BY <2>1, <2>2, <2>3, <3>1, <3>2 DEF Looking
  <2> QED BY <1>1, <1>5, <2>1, <2>4
<1>12. CASE /\ hasMagic /\ op.addr = Bus!SlotAddr(MaxCrashes)
            /\ op' = [kind |-> "record", addr |-> Bus!SlotAddr(0)]
            /\ script' = Bus!eraseSector(Bus!CrashSector)
                           \o Bus!writePage(Bus!SlotAddr(0), Bus!CrashEntry(crash))
  <2> DEFINE x == Bus!eraseSector(Bus!CrashSector)
             y == Bus!writePage(Bus!SlotAddr(0), d)
  <2>1. script' = Cat(x, y)
    BY <1>12 DEF Cat, d
  <2>2. PICK b : /\ Carries(x, 0, b) /\ Len(x) = 9 + Len(b)
                 /\ \A mem : Made(b, mem) = Bus!EraseSector(mem, Bus!CrashSector)
    <3>1. Bus!CrashSector \in Nat
      BY Numbers
    <3> QED BY <3>1, EraseMakes
  <2>3. PICK c : /\ Carries(y, 0, c) /\ Len(y) = 9 + Len(c)
                 /\ \A mem : Made(c, mem) = Bus!Stored(mem, Bus!SlotAddr(0), d)
    BY <1>10, ProgramMakes, Numbers
  <2>4. \A j \in 0 .. MaxCrashes : flash.mem[Bus!SlotAddr(j)] = {Bus!Magic}
    <3>1. i = MaxCrashes
      BY <1>8, <1>9, <1>12
    <3>2. \A j \in 0 .. MaxCrashes : j \in 0 .. i - 1 \/ j = i
      BY <1>2, <3>1
    <3> QED BY <1>8, <1>12, <3>2
  <2>5. want = Bus!Stored(Bus!EraseSector(flash.mem, Bus!CrashSector), Bus!SlotAddr(0), d)
    BY <1>5, <2>4, RecordsOver DEF d
  <2> HIDE DEF x, y
  <2>6. Made(c, Made(b, flash'.mem)) = want'
    BY <1>1, <2>2, <2>3, <2>5
  <2>7. CallsStart'
    BY CallsBegin, PTL
  <2>8. OnItsWay'
    BY <1>1, <1>2, <1>5, <2>1, <2>2, <2>3, <2>6, <2>7 DEF CallsStart
  <2> QED BY <1>1, <1>5, <1>12, <2>8
<1>13. CASE /\ ~hasMagic /\ op' = [op EXCEPT !.kind = "record"]
            /\ script' = Bus!writePage(op.addr, Bus!CrashEntry(crash))
  <2>1. PICK b : /\ Carries(script', 0, b) /\ Len(script') = 9 + Len(b)
                 /\ \A mem : Made(b, mem) = Bus!Stored(mem, op.addr, d)
    BY <1>2, <1>10, <1>13, ProgramMakes DEF d
  <2>2. want = Bus!Stored(flash.mem, op.addr, d)
    BY <1>5, <1>8, <1>13, RecordsFirst DEF d
  <2>3. Made(b, flash'.mem) = want'
    BY <1>1, <2>1, <2>2
  <2>4. CallStarts'
    BY CallBegins, PTL
  <2>5. OnItsWay'
    BY <1>1, <1>2, <1>5, <2>1, <2>3, <2>4 DEF CallStarts
  <2> QED BY <1>1, <1>3, <1>5, <1>13, <2>5
<1> QED BY <1>11, <1>12, <1>13 DEF Bus!SlotRead

-----------------------------------------------------------------------------
\* The whole of it.
CallsWhole == WritesWhole /\ FindsFree /\ (op.kind = "none" => op = Bus!None)

LEMMA CallsWholeInit == Assumed /\ Bus!Init => CallsWhole
BY DEF Bus!Init, Bus!None, CallsWhole, WritesWhole, FindsFree, Writes

LEMMA CallsWholeNext == Assumed /\ BusInv /\ CallsWhole /\ [Bus!Next]_Bus!vars => CallsWhole'
<1> SUFFICES ASSUME Assumed, BusInv, CallsWhole, [Bus!Next]_Bus!vars PROVE CallsWhole'
  OBVIOUS
<1> USE DEF CallsWhole
<1>1. CASE Bus!WriteEntry \/ Bus!SectorErased
  <2>1. WritesWhole' /\ op'.kind \in {"erase", "program"}
    BY <1>1, LoggerBegins
  <2> QED BY <2>1 DEF FindsFree
<1>2. CASE Bus!EntryWritten \/ Bus!SystemReset
  <2>1. op' = Bus!None
    BY <1>2 DEF Bus!EntryWritten, Bus!SystemReset
  <2>2. op'.kind = "none"
    BY <2>1 DEF Bus!None
  <2> QED BY <2>1, <2>2 DEF WritesWhole, FindsFree, Writes
<1>3. CASE StepOnBus
  BY <1>3, BusStepsWhole, BusStepsFind, BusStepKeeps DEF BusInv, Bus!None
<1>4. CASE Bus!HardFault
  <2>1. FindsFree' /\ op'.kind = "find"
    BY <1>4, FaultLooks
  <2> QED BY <2>1 DEF WritesWhole, Writes
<1>5. CASE Bus!SlotRead
  BY <1>5, SlotReadWhole
<1>6. CASE Bus!FlashDone
  <2>1. flash.busy /\ UNCHANGED <<op, cutIn>>
    BY <1>6 DEF Bus!FlashDone
  <2>2. WritesWhole'
    BY <1>6, OthersWhole
  <2>3. FindsFree'
    BY <2>1 DEF FindsFree
  <2> QED BY <2>1, <2>2, <2>3 DEF Bus!None
<1>7. CASE \E available \in BOOLEAN : Bus!RadioRound(available)
  <2>1. ~Bus!InHandler /\ UNCHANGED op
    BY <1>7 DEF Bus!RadioRound
  <2>2. WritesWhole'
    BY <1>7, OthersWhole
  <2>3. FindsFree'
    BY <2>1 DEF FindsFree, Bus!InHandler
  <2> QED BY <2>1, <2>2, <2>3 DEF Bus!None
<1>8. CASE UNCHANGED Bus!vars
  <2>1. UNCHANGED <<flash, cs, frame, inFlight, op, script, hasMagic, crash, cutIn, want>>
    BY <1>8 DEF Bus!vars
  <2>2. OnItsWay => OnItsWay'
    BY <2>1, StaysOnItsWay
  <2>3. WritesWhole'
    BY <2>1, <2>2 DEF WritesWhole, Bus!InHandler
  <2>4. FindsFree'
    BY <2>1 DEF FindsFree, Looking
  <2> QED BY <2>1, <2>3, <2>4 DEF Bus!None
<1> QED BY <1>1, <1>2, <1>3, <1>4, <1>5, <1>6, <1>7, <1>8
        DEF Bus!Next, Bus!Logger, Bus!Handler, StepOnBus

LEMMA CallsEndWhole == BusInv /\ CallsWhole => Bus!UndisturbedIsWhole
<1> SUFFICES ASSUME BusInv, CallsWhole, op # Bus!None, op.kind # "find", script = <<>>, ~cutIn
             PROVE  flash.mem = want /\ ~flash.busy
  BY DEF Bus!UndisturbedIsWhole
<1>1. op.kind \in Writes
  BY DEF CallsWhole, BusInv, Types, Writes
<1>2. OnItsWay
  BY <1>1 DEF CallsWhole, WritesWhole
<1>3. ASSUME NEW call, NEW o, NEW b, NEW q, LastOf(call, o, b, q)
      PROVE  flash.mem = want /\ ~flash.busy
  <2>1. AtStep(call, o, b, want, q) /\ Len(call) = o + 9 + Len(b)
    BY <1>3 DEF LastOf
  <2> QED BY <2>1, Positions
<1>4. ASSUME NEW call, NEW b, NEW c, NEW wanted, NEW q, FirstOf(call, b, c, wanted, q)
      PROVE  FALSE
  <2>1. /\ AtStep(call, 0, b, wanted, q) /\ Len(call) = 18 + Len(b) + Len(c)
        /\ Carries(call, 9 + Len(b), c)
    BY <1>4 DEF FirstOf
  <2>2. Len(b) \in Nat /\ Len(c) \in Nat
    BY <2>1, Positions, Instructions DEF Carries
  <2>3. 0 + 9 + Len(b) < Len(call)
    <3>1. PICK m, n \in Nat : m = Len(b) /\ n = Len(c)
      BY <2>2
    <3>2. 0 + 9 + m < 18 + m + n
      BY <3>1
    <3> QED BY <2>1, <3>1, <3>2
  <2> QED BY <2>1, <2>3, Positions
<1> QED BY <1>2, <1>3, <1>4 DEF OnItsWay

-----------------------------------------------------------------------------
\* Logger, handler and radio may come into each other's frames at any byte: what is left
\* of a driver call is still whole frames, and of the current one the flash has heard its
\* beginning, ignores it, or is being polled (spi.hpp's transfer on a chip select that both
\* drivers pull).
THEOREM BusIsSound ==
  ASSUME Assumed
  PROVE  Bus!Spec => []BusInv
<1>1. Bus!Init => BusInv
  BY BusInvInit
<1>2. BusInv /\ [Bus!Next]_Bus!vars => BusInv'
  BY BusInvNext
<1> QED BY <1>1, <1>2, PTL DEF Bus!Spec

\* An erase hits the sector asked for or the first of its block of 64 KB, whichever bytes
\* of the radio's poll end the frame (W25q64::eraseSector and Nrf24l01::readReg on PA4).
THEOREM StrayErases ==
  ASSUME Assumed
  PROVE  Bus!Spec => Bus!StrayErasesHitBlockStarts
<1> DEFINE Hits == \A a \in Cells :
             flash'.mem[a] = Bus!Erased /\ flash.mem[a] # Bus!Erased =>
               a \div SectorWords \in {op.addr \div SectorWords, (op.addr \div 65536) * 16}
<1>1. BusInv /\ [Bus!Next]_Bus!vars => [Hits]_Bus!vars
  BY EraseStep
<1>2. [][Hits]_Bus!vars => Bus!StrayErasesHitBlockStarts
  BY DEF Bus!StrayErasesHitBlockStarts
<1> HIDE DEF Hits
<1> QED BY <1>1, <1>2, BusIsSound, PTL DEF Bus!Spec

\* A page program changes the entry asked for and at most the two bytes behind it, the
\* radio's, so that the entries before it stay (W25q64::writePage and Nrf24l01::readReg).
THEOREM StrayPrograms ==
  ASSUME Assumed
  PROVE  Bus!Spec => Bus!StrayProgramsStayInEntry
<1> DEFINE Stays == ~Bus!InHandler =>
             \A a \in Cells :
               ~(flash'.mem[a] \subseteq flash.mem[a]) =>
                 a \in op.addr .. op.addr + EntryBytes + 1
<1>1. BusInv /\ [Bus!Next]_Bus!vars => [Stays]_Bus!vars
  BY ProgramStep
<1>2. [][Stays]_Bus!vars => Bus!StrayProgramsStayInEntry
  BY DEF Bus!StrayProgramsStayInEntry
<1> HIDE DEF Stays
<1> QED BY <1>1, <1>2, BusIsSound, PTL DEF Bus!Spec

\* A call of the flash driver into whose frames nobody comes does what it is for, to the
\* byte, and returns when the flash is ready (W25q64::writePage and eraseSector, and
\* CrashLog::write in the first free slot or over a full log).
THEOREM UndisturbedWhole ==
  ASSUME Assumed
  PROVE  Bus!Spec => []Bus!UndisturbedIsWhole
<1>1. Bus!Init => CallsWhole
  BY CallsWholeInit
<1>2. BusInv /\ CallsWhole /\ [Bus!Next]_Bus!vars => CallsWhole'
  BY CallsWholeNext
<1>3. BusInv /\ CallsWhole => Bus!UndisturbedIsWhole
  BY CallsEndWhole
<1>4. Bus!Spec => []BusInv
  BY BusIsSound
<1> QED BY <1>1, <1>2, <1>3, <1>4, PTL DEF Bus!Spec

=============================================================================
