----------------------------- MODULE MotorPower -----------------------------
(***************************************************************************)
(* What the flight state machine promises about the motor, with all of its *)
(* modes, timers and radio bookkeeping left out.  The motor is             *)
(*                                                                         *)
(*   "off"  on the ground: it may be started by arming                     *)
(*   "on"   it may run: it may be stopped by disarming, or cut             *)
(*   "cut"  lost (long radio loss) or emergency: never again until reboot  *)
(***************************************************************************)

VARIABLE power

TypeOK == power \in {"off", "on", "cut"}

Init == power = "off"

Start == power = "off" /\ power' = "on"
Stop  == power = "on"  /\ power' = "off"
Cut   == power \in {"off", "on"} /\ power' = "cut"

Next == Start \/ Stop \/ Cut

Spec == Init /\ [][Next]_power

=============================================================================
