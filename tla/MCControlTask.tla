--------------------------- MODULE MCControlTask ---------------------------
(***************************************************************************)
(* Small angles for ControlTask.                                           *)
(***************************************************************************)
EXTENDS ControlTask

MCAngles == -2 .. 2

=============================================================================
