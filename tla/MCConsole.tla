----------------------------- MODULE MCConsole -----------------------------
(***************************************************************************)
(* Three tasks for Console, of different priorities, with what they print. *)
(***************************************************************************)
EXTENDS Console

MCTasks == {"sensor", "radioRx", "debug"}

MCPriority == [sensor |-> 3, radioRx |-> 2, debug |-> 1]

\* "Calibrating...", "link up", "NRF init ch=%", formats like "%s: %d%%  stack:%d", and
\* any of up to two items.
MCSays ==
  [sensor  |-> {[level |-> 1, format |-> <<"c">>]},
   radioRx |-> {[level |-> 0, format |-> <<"c">>], [level |-> 1, format |-> <<"c", "%">>]},
   debug   |-> {[level |-> 1, format |-> f] :
                  f \in (UNION {[1 .. n -> {"c", "%%", "%d"}] : n \in 0 .. 2})
                          \cup {<<"%d", "%d", "%%", "%d">>, <<"%d", "c", "%d">>}}]

=============================================================================
