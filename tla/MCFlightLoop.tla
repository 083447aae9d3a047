---------------------------- MODULE MCFlightLoop ----------------------------
(***************************************************************************)
(* Small times for FlightLoop.  A tick stands for about two milliseconds.  *)
(***************************************************************************)
EXTENDS FlightLoop

MCDelay == [sensor |-> 6, control |-> 6, radioRx |-> 6, debug |-> 12, logger |-> 6]

MCWork == [sensor |-> 2, control |-> 2, radioRx |-> 1, debug |-> 1, logger |-> 2]

ASSUME TimesAssumption == Timely

=============================================================================
