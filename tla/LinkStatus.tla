----------------------------- MODULE LinkStatus -----------------------------
(***************************************************************************)
(* What the radio receiver promises to the readers of its mailbox: there   *)
(* is nothing to read until the first heartbeat; from then on the link is  *)
(* either up or down, a loss is only reported of a link that was up, and   *)
(* the mailbox never becomes empty again.                                  *)
(***************************************************************************)

VARIABLE status

TypeOK == status \in {"none", "valid", "invalid"}

Init == status = "none"

LinkUp   == status \in {"none", "invalid"} /\ status' = "valid"
LinkLost == status = "valid" /\ status' = "invalid"

Next == LinkUp \/ LinkLost

Spec == Init /\ [][Next]_status

=============================================================================
