----------------------------- MODULE RadioLink -----------------------------
(***************************************************************************)
(* The one-way radio link: the ground station's RadioTxTask sends a        *)
(* heartbeat every 250 ms, the air loses some and adds noise, the NRF24L01 *)
(* of the aircraft queues what it hears, and RadioRxTask polls the chip    *)
(* every 10 ms, publishes each valid packet in the radio mailbox and       *)
(* reports the loss of the link.                                           *)
(*                                                                         *)
(* One action per step of the receiving task that the chip or the tick can *)
(* come between.  The chip is modelled from how the driver uses it.  Time  *)
(* is the FreeRTOS tick, which wraps around.  What the model leaves out:   *)
(* the contents of a heartbeat and of noise (a packet whose CRC does not   *)
(* match), the log, and the SPI bytes.                                     *)
(***************************************************************************)
EXTENDS Integers, Sequences

CONSTANTS
  TimeMod,       (* 2^32: the number of values of the tick                 *)
  FifoDepth,     (* 3:    packets the chip can queue                       *)
  TimeoutMs,     (* 500:  silence after which the link is reported lost    *)
  LoopDelay,     (* 10:   delay at the end of the receiving task's loop    *)
  LoopMax,       (* the longest time between two checks for a loss         *)
  TxDelay,       (* 250:  delay between two heartbeats                     *)
  TxMax          (* the longest time between two heartbeats                *)

ASSUME LinkAssumption ==
  /\ TimeMod \in Nat /\ FifoDepth \in Nat /\ TimeoutMs \in Nat
  /\ LoopDelay \in Nat /\ LoopMax \in Nat /\ TxDelay \in Nat /\ TxMax \in Nat
  /\ 0 < FifoDepth /\ 0 < LoopDelay /\ LoopDelay <= LoopMax
  /\ 0 < TxDelay /\ TxDelay <= TxMax
  /\ TimeoutMs + LoopMax + 1 < TimeMod
  /\ TxMax + 2 * LoopMax <= TimeoutMs

VARIABLES
  fifo, rxDr,           (* the chip: its receive queue, STATUS.RX_DR       *)
  pc, buffer,           (* RadioRxTask: where it is, the packet it read    *)
  lastValidMs, linkUp,  (* RadioRxTask: its locals                         *)
  radioQ,               (* the mailbox: "none", or the field "valid" of    *)
                        (* the message in it                               *)
  now,                  (* the tick                                        *)
  sinceCheck, sinceTx,  (* time since the last check, the last heartbeat   *)
  silent,   (* history: time since a heartbeat was last published, counted *)
            (* up to Long                                                  *)
  disturbed, (* history: since a heartbeat was last published, another was *)
            (* lost, on the air or by the chip, or noise was read          *)
  air       (* history: what last happened on the air                      *)

chip == <<fifo, rxDr>>
task == <<pc, buffer, lastValidMs, linkUp>>
timers == <<now, sinceCheck, sinceTx>>
history == <<silent, disturbed, air>>
vars == <<chip, task, radioQ, timers, history>>

Packets == {"heartbeat", "noise"}

\* Where "silent" stops counting.
Long == TimeoutMs + LoopMax + 1

TypeOK ==
  /\ fifo \in Seq(Packets) /\ Len(fifo) <= FifoDepth
  /\ rxDr \in BOOLEAN
  /\ pc \in {"available", "readPayload", "clear", "parse", "check", "delay"}
  /\ buffer \in Packets
  /\ lastValidMs \in 0 .. TimeMod - 1
  /\ linkUp \in BOOLEAN
  /\ radioQ \in {"none", "valid", "invalid"}
  /\ now \in 0 .. TimeMod - 1
  /\ sinceCheck \in 0 .. LoopMax
  /\ sinceTx \in 0 .. TxMax
  /\ silent \in 0 .. Long
  /\ disturbed \in BOOLEAN
  /\ air \in {"quiet", "heartbeat", "noise", "loss"}

\* The state after nrf.init, which flushes the queue and clears the flag.  What
\* the buffer holds before the first packet is never looked at.
Init ==
  /\ fifo = <<>> /\ rxDr = FALSE
  /\ pc = "available" /\ buffer = "noise"
  /\ now = 0
  /\ lastValidMs = now /\ linkUp = FALSE
  /\ radioQ = "none"
  /\ sinceCheck = 0 /\ sinceTx = 0
  /\ silent = 0 /\ disturbed = FALSE /\ air = "quiet"

-----------------------------------------------------------------------------
(***************************************************************************)
(* The chip.  It raises RX_DR when a packet arrives, and only then; a      *)
(* packet that finds the queue full is dropped.                            *)
(***************************************************************************)
HasRoom == Len(fifo) < FifoDepth

Receive(p) ==
  /\ fifo' = IF HasRoom THEN Append(fifo, p) ELSE fifo
  /\ rxDr' = (rxDr \/ HasRoom)

Noise ==
  /\ Receive("noise")
  /\ air' = "noise"
  /\ UNCHANGED <<task, radioQ, timers, silent, disturbed>>

(***************************************************************************)
(* RadioTxTask: one heartbeat, TxDelay or a little more after the last.    *)
(***************************************************************************)
TxDue == sinceTx >= TxDelay

HeartbeatArrives ==
  /\ TxDue
  /\ sinceTx' = 0
  /\ Receive("heartbeat")
  /\ disturbed' = (disturbed \/ ~HasRoom)
  /\ air' = "heartbeat"
  /\ UNCHANGED <<task, radioQ, now, sinceCheck, silent>>

HeartbeatLost ==
  /\ TxDue
  /\ sinceTx' = 0
  /\ disturbed' = TRUE
  /\ air' = "loss"
  /\ UNCHANGED <<chip, task, radioQ, now, sinceCheck, silent>>

(***************************************************************************)
(* RadioRxTask::run, one action per step.                                  *)
(***************************************************************************)

\* Mutant: the loop sleeps when there is no packet, without the check.
AvailableSkipsCheck ==
  /\ pc = "available"
  /\ pc' = IF rxDr THEN "readPayload" ELSE "delay"
  /\ sinceCheck' = IF rxDr THEN sinceCheck ELSE 0
  /\ UNCHANGED <<chip, buffer, lastValidMs, linkUp, radioQ, now, sinceTx, history>>

Available ==
  /\ pc = "available"
  /\ pc' = IF rxDr THEN "readPayload" ELSE "check"
  /\ UNCHANGED <<chip, buffer, lastValidMs, linkUp, radioQ, timers, history>>

\* What an empty queue gives is not defined; NoEmptyRead says it is never asked.
ReadPayload ==
  /\ pc = "readPayload"
  /\ buffer' \in IF fifo = <<>> THEN Packets ELSE {Head(fifo)}
  /\ fifo' = IF fifo = <<>> THEN fifo ELSE Tail(fifo)
  /\ pc' = "clear"
  /\ UNCHANGED <<rxDr, lastValidMs, linkUp, radioQ, timers, history>>

\* Mutant: receive() forgets to clear the flag.
ClearForgotten ==
  /\ pc = "clear"
  /\ pc' = "parse"
  /\ UNCHANGED <<chip, buffer, lastValidMs, linkUp, radioQ, timers, history>>

Clear ==
  /\ pc = "clear"
  /\ rxDr' = FALSE
  /\ pc' = "parse"
  /\ UNCHANGED <<fifo, buffer, lastValidMs, linkUp, radioQ, timers, history>>

\* Mutant: any packet, valid or not, counts as a sign of life.
ParseStampsNoise ==
  /\ pc = "parse"
  /\ pc' = "check"
  /\ lastValidMs' = now
  /\ \/ /\ buffer = "heartbeat"
        /\ radioQ' = "valid"
        /\ linkUp' = TRUE
        /\ silent' = 0 /\ disturbed' = FALSE
     \/ /\ buffer = "noise"
        /\ disturbed' = TRUE
        /\ UNCHANGED <<linkUp, radioQ, silent>>
  /\ UNCHANGED <<chip, buffer, timers, air>>

\* Mutant: the time is only taken when the link comes up.
ParseStampsOnce ==
  /\ pc = "parse"
  /\ pc' = "check"
  /\ \/ /\ buffer = "heartbeat"
        /\ lastValidMs' = IF linkUp THEN lastValidMs ELSE now
        /\ radioQ' = "valid"
        /\ linkUp' = TRUE
        /\ silent' = 0 /\ disturbed' = FALSE
     \/ /\ buffer = "noise"
        /\ disturbed' = TRUE
        /\ UNCHANGED <<lastValidMs, linkUp, radioQ, silent>>
  /\ UNCHANGED <<chip, buffer, timers, air>>

Parse ==
  /\ pc = "parse"
  /\ pc' = "check"
  /\ \/ /\ buffer = "heartbeat"
        /\ lastValidMs' = now
        /\ radioQ' = "valid"
        /\ linkUp' = TRUE
        /\ silent' = 0 /\ disturbed' = FALSE
     \/ /\ buffer = "noise"
        /\ disturbed' = TRUE
        /\ UNCHANGED <<lastValidMs, linkUp, radioQ, silent>>
  /\ UNCHANGED <<chip, buffer, timers, air>>

\* Mutant: the loss is reported whether or not the link was up.
TimedOutAlways == (now - lastValidMs) % TimeMod > TimeoutMs

TimedOut == (now - lastValidMs) % TimeMod > TimeoutMs /\ linkUp

Check ==
  /\ pc = "check"
  /\ pc' = "delay"
  /\ radioQ' = IF TimedOut THEN "invalid" ELSE radioQ
  /\ linkUp' = (linkUp /\ ~TimedOut)
  /\ sinceCheck' = 0
  /\ UNCHANGED <<chip, buffer, lastValidMs, now, sinceTx, history>>

Wake ==
  /\ pc = "delay"
  /\ sinceCheck >= LoopDelay
  /\ pc' = "available"
  /\ UNCHANGED <<chip, buffer, lastValidMs, linkUp, radioQ, timers, history>>

RxStep == Available \/ ReadPayload \/ Clear \/ Parse \/ Check \/ Wake

\* The tick.  The guards are the scheduling assumption: neither task is kept
\* from its loop for longer than LoopMax and TxMax.
Tick ==
  /\ sinceCheck < LoopMax /\ sinceTx < TxMax
  /\ now' = (now + 1) % TimeMod
  /\ sinceCheck' = sinceCheck + 1 /\ sinceTx' = sinceTx + 1
  /\ silent' = IF silent < Long THEN silent + 1 ELSE silent
  /\ UNCHANGED <<chip, task, radioQ, disturbed, air>>

Next == Noise \/ HeartbeatArrives \/ HeartbeatLost \/ RxStep \/ Tick

\* Both tasks keep running and time passes; the chip and the air owe nothing.
Fairness ==
  /\ WF_vars(RxStep)
  /\ WF_vars(HeartbeatArrives \/ HeartbeatLost)
  /\ WF_vars(Tick)

Spec == Init /\ [][Next]_vars

FairSpec == Spec /\ Fairness

-----------------------------------------------------------------------------
(***************************************************************************)
(* Properties.                                                             *)
(***************************************************************************)

\* receive() never clocks a payload out of an empty queue: nothing between
\* available() and the read, and no packet left over from an earlier round,
\* makes RX_DR promise a packet that is not there.
NoEmptyRead == pc = "readPayload" => fifo # <<>>

\* Who peeks a valid message in the mailbox knows that a heartbeat was published
\* within the last TimeoutMs + LoopMax, whatever the tick has wrapped around to
\* and however much noise has been heard since.
ValidIsFresh == radioQ = "valid" => silent <= TimeoutMs + LoopMax

\* The link is reported lost only if, since the last heartbeat was published,
\* another was lost or noise was read: two heartbeats, the polling and the
\* delays of both tasks fit in the timeout, also when earlier races have left
\* heartbeats in the queue.
LossHasACause == [][linkUp /\ ~linkUp' => disturbed]_vars

\* The mailbox behaves as LinkStatus promises.
Link == INSTANCE LinkStatus WITH status <- radioQ

LinkStatusSpec == Link!Spec

\* Once no heartbeat arrives any more, the link is reported lost for good, even
\* if noise never stops.
LossIsReported == <>[](air # "heartbeat") => <>[](radioQ # "valid")

\* Known deviation, which no run checks.
\* RX_DR means "data ready in RX FIFO" (nrf24l01.hpp:32): when the task looks, a
\* packet in the queue shows in the flag.  The code breaks it: a packet that
\* arrives between the read of the payload and the clearing of the flag loses
\* its flag and stays in the queue.
PendingPacketIsSignalled == pc = "available" /\ fifo # <<>> => rxDr

\* Signal loss detection (TODO.md:35): when from some time on the air is clean, no
\* heartbeat lost and no noise, the link is up again and again.  The code breaks
\* it: packets that stay in the queue fill it, the chip drops the rest and raises
\* no flag.
LinkComesBack == <>[](air \in {"quiet", "heartbeat"}) => []<>linkUp

=============================================================================
