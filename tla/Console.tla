------------------------------ MODULE Console ------------------------------
(***************************************************************************)
(* The console: tasks print lines through Logger, piece by piece, under a  *)
(* mutex; a hard fault or a stack overflow prints its report without it,   *)
(* in the middle of whatever is there, and resets the processor.           *)
(*                                                                         *)
(* The scheduler runs a ready task of the highest priority, which for the  *)
(* owner of a mutex is that of the tasks it keeps waiting, too.  A piece   *)
(* is a character of a format, a value, the time stamp, the level, the tag *)
(* or the end of a line.  What main prints before the scheduler runs takes *)
(* no mutex and has nobody to share the console with: it is left out.      *)
(***************************************************************************)
EXTENDS Integers, Sequences, FiniteSets

CONSTANTS
  Tasks,     (* the tasks that log                                         *)
  Priority,  (* for each task, its priority                                *)
  Says,      (* for each task, the messages it logs                        *)
  minLevel   (* the least level that is printed                            *)

(* A message is a level and a format, as what it is made of: "c" for any    *)
(* character, "%%" for a percent sign, "%d" for an argument, "%" for the    *)
(* beginning of one at the format's end.                                    *)
Levels == 0 .. 3
Items == {"c", "%%", "%d", "%"}
Message == [level : Levels, format : Seq(Items)]
NoOne == "nobody"

ASSUME ConsoleAssumption ==
  /\ NoOne \notin Tasks
  /\ Priority \in [Tasks -> Nat]
  /\ Says \in [Tasks -> SUBSET Message]
  /\ minLevel \in Levels

VARIABLES
  pc,     (* for each task, where it is: "away" in a delay, at "work", to  *)
          (* "take" the mutex, "blocked" on it, or to "write" a piece      *)
  msg,    (* for each task, the message it is logging                      *)
  done,   (* for each task, the pieces of it that are written              *)
  mutex,  (* who has the mutex                                             *)
  line,   (* the pieces on the console's last line                         *)
  ended,  (* history: the line a task has ended and its message, until the *)
          (* task gives the mutex back                                     *)
  report, (* the fault being reported, NoFault if there is none            *)
  told    (* the pieces of the report that are written                     *)

vars == <<pc, msg, done, mutex, line, ended, report, told>>

NoFault == "none"
Faults == {"HARD FAULT", "STACK OVERFLOW"}
Newline == "\r\n"
Silence == [level |-> 0, format |-> <<>>]
Nothing == [by |-> NoOne, msg |-> Silence, text |-> <<>>]

-----------------------------------------------------------------------------
(***************************************************************************)
(* printFmt, over the characters of a format.                              *)
(***************************************************************************)
\* The places of a format's arguments.
Conversions(format) == {k \in DOMAIN format : format[k] \in {"%d", "%"}}

\* The characters of a format; those of its items, one after the other.
Chars(format) ==
  LET from[k \in 0 .. Len(format)] ==
        IF k = 0 THEN <<>>
        ELSE from[k - 1] \o (CASE format[k] = "c"  -> <<"c">>
                               [] format[k] = "%%" -> <<"%", "%">>
                               [] format[k] = "%d" -> <<"%", "d">>
                               [] format[k] = "%"  -> <<"%">>)
  IN  from[Len(format)]

Argument == <<"first", "second", "third", "fourth">>

\* Mutant: the character after the % is not skipped.
PrintedUnskipped(fmt, n) ==
  LET from[i \in 1 .. Len(fmt) + 2] == [j \in 1 .. n + 1 |->
        CASE i > Len(fmt) -> <<>>
          [] i <= Len(fmt) /\ j > n -> SubSeq(fmt, i, Len(fmt))
          [] j <= n /\ i < Len(fmt) /\ fmt[i] = "%" ->
               IF fmt[i + 1] = "%" THEN <<"%">> \o from[i + 2][j]
               ELSE <<Argument[j]>> \o from[i + 1][j + 1]
          [] OTHER -> <<fmt[i]>> \o from[i + 1][j]]
  IN  from[1][1]

\* What printFmt writes for the characters fmt and n arguments: from character i and
\* argument j on.  Without arguments it writes the characters as they are.
Printed(fmt, n) ==
  LET from[i \in 1 .. Len(fmt) + 2] == [j \in 1 .. n + 1 |->
        CASE i > Len(fmt) -> <<>>
          [] i <= Len(fmt) /\ j > n -> SubSeq(fmt, i, Len(fmt))
          [] j <= n /\ i < Len(fmt) /\ fmt[i] = "%" ->
               IF fmt[i + 1] = "%" THEN <<"%">> \o from[i + 2][j]
               ELSE <<Argument[j]>> \o from[i + 2][j + 1]
          [] OTHER -> <<fmt[i]>> \o from[i + 1][j]]
  IN  from[1][1]

\* No task has the name of a line's end, and no message has more arguments than named.
ASSUME MessagesAssumption ==
  /\ Newline \notin Tasks
  /\ \A t \in Tasks : \A m \in Says[t] : Cardinality(Conversions(m.format)) \in 0 .. Len(Argument)

LevelName == <<"DBG", "INF", "WRN", "ERR">>

\* The pieces that log writes.
Line(t, m) ==
  <<"time", LevelName[m.level + 1], t>>
    \o Printed(Chars(m.format), Cardinality(Conversions(m.format))) \o <<Newline>>

\* Mutant: the report's last line is not ended.
ReportOfUnended(fault) == <<Newline, fault, "registers">>

ReportOf(fault) == <<Newline, fault, "registers", Newline>>

-----------------------------------------------------------------------------
\* Every variable has its type.
TypeOK ==
  /\ pc \in [Tasks -> {"away", "work", "take", "blocked", "write"}]
  /\ msg \in [Tasks -> Message] /\ done \in [Tasks -> Nat]
  /\ mutex \in Tasks \cup {NoOne}
  /\ report \in Faults \cup {NoFault} /\ told \in 0 .. 4

\* main() has created the mutex and starts the scheduler.
Started ==
  /\ pc' = [t \in Tasks |-> "work"] /\ msg' = [t \in Tasks |-> Silence]
  /\ done' = [t \in Tasks |-> 0]
  /\ mutex' = NoOne
  /\ report' = NoFault /\ told' = 0

Init ==
  /\ pc = [t \in Tasks |-> "work"] /\ msg = [t \in Tasks |-> Silence]
  /\ done = [t \in Tasks |-> 0]
  /\ mutex = NoOne
  /\ line = <<>> /\ ended = Nothing
  /\ report = NoFault /\ told = 0

Blocked == {t \in Tasks : pc[t] = "blocked"}

\* Mutant: a binary semaphore, which knows no owner.
RanksUninherited(t) == {Priority[t]}

\* A task runs at the highest of these: the owner of the mutex inherits.
Ranks(t) == {Priority[t]} \cup {Priority[u] : u \in {v \in Blocked : mutex = t}}

Ready == {t \in Tasks : pc[t] \in {"work", "take", "write"}}
Runs(t) ==
  /\ report = NoFault /\ t \in Ready
  /\ \A u \in Ready : \A p \in Ranks(u) : \E q \in Ranks(t) : p <= q

\* A delay ends.
Wake(t) ==
  /\ report = NoFault /\ pc[t] = "away"
  /\ pc' = [pc EXCEPT ![t] = "work"]
  /\ UNCHANGED <<msg, done, mutex, line, ended, report, told>>

Sleep(t) ==
  /\ Runs(t) /\ pc[t] = "work"
  /\ pc' = [pc EXCEPT ![t] = "away"]
  /\ UNCHANGED <<msg, done, mutex, line, ended, report, told>>

\* log: a message below the least level says nothing.
Log(t, m) ==
  /\ Runs(t) /\ pc[t] = "work"
  /\ m.level >= minLevel
  /\ pc' = [pc EXCEPT ![t] = "take"]
  /\ msg' = [msg EXCEPT ![t] = m]
  /\ UNCHANGED <<done, mutex, line, ended, report, told>>

\* Mutant: the mutex is not waited for, and the line dropped.
TakeOrDrop(t) ==
  /\ Runs(t) /\ pc[t] = "take"
  /\ mutex' = IF mutex = NoOne THEN t ELSE mutex
  /\ pc' = [pc EXCEPT ![t] = IF mutex = NoOne THEN "write" ELSE "work"]
  /\ UNCHANGED <<msg, done, line, ended, report, told>>

Take(t) ==
  /\ Runs(t) /\ pc[t] = "take"
  /\ \/ /\ mutex = NoOne
        /\ mutex' = t
        /\ pc' = [pc EXCEPT ![t] = "write"]
        /\ done' = [done EXCEPT ![t] = 0]
     \/ /\ mutex # NoOne
        /\ pc' = [pc EXCEPT ![t] = "blocked"]
        /\ UNCHANGED <<mutex, done>>
  /\ UNCHANGED <<msg, line, ended, report, told>>

\* A piece reaches the UART.
Onto(piece) == line' = IF piece = Newline THEN <<>> ELSE Append(line, piece)

Write(t) ==
  /\ Runs(t) /\ pc[t] = "write" /\ done[t] < Len(Line(t, msg[t]))
  /\ LET piece == Line(t, msg[t])[done[t] + 1]
     IN  /\ Onto(piece)
         /\ ended' = IF piece = Newline THEN [by |-> t, msg |-> msg[t], text |-> line] ELSE ended
  /\ done' = [done EXCEPT ![t] = @ + 1]
  /\ UNCHANGED <<pc, msg, mutex, report, told>>

\* The mutex is given back, and a task of the highest priority waiting for it may try
\* to take it.
Give(t) ==
  /\ Runs(t) /\ pc[t] = "write" /\ done[t] = Len(Line(t, msg[t]))
  /\ mutex' = NoOne
  /\ \/ /\ Blocked = {}
        /\ pc' = [pc EXCEPT ![t] = "work"]
     \/ \E u \in Blocked :
          /\ \A v \in Blocked : Priority[v] <= Priority[u]
          /\ pc' = [pc EXCEPT ![t] = "work", ![u] = "take"]
  /\ msg' = [msg EXCEPT ![t] = Silence] /\ done' = [done EXCEPT ![t] = 0] /\ ended' = Nothing
  /\ UNCHANGED <<line, report, told>>

\* A hard fault, or a stack overflow seen as the tasks are switched.
Fault(fault) ==
  /\ report = NoFault
  /\ report' = fault /\ told' = 0
  /\ UNCHANGED <<pc, msg, done, mutex, line, ended>>

\* Mutant: the handlers wait for the mutex.
ReportLocked ==
  /\ report # NoFault /\ told < Len(ReportOf(report))
  /\ IF mutex = NoOne THEN /\ Onto(ReportOf(report)[told + 1])
                           /\ told' = told + 1
     ELSE UNCHANGED <<line, told>>
  /\ UNCHANGED <<pc, msg, done, mutex, ended, report>>

Report ==
  /\ report # NoFault /\ told < Len(ReportOf(report))
  /\ Onto(ReportOf(report)[told + 1])
  /\ told' = told + 1
  /\ UNCHANGED <<pc, msg, done, mutex, ended, report>>

SystemReset ==
  /\ report # NoFault /\ told = Len(ReportOf(report))
  /\ Started /\ ended' = Nothing
  /\ UNCHANGED line

Step(t) == Sleep(t) \/ (\E m \in Says[t] : Log(t, m)) \/ Take(t) \/ Write(t) \/ Give(t)

Next ==
  \/ \E t \in Tasks : Wake(t) \/ Step(t)
  \/ \E fault \in Faults : Fault(fault)
  \/ Report \/ SystemReset

\* A task that is let run again and again goes on, and every task's loop has a delay,
\* which leaves the processor to the others; the handlers are never preempted.
Spec ==
  /\ Init /\ [][Next]_vars
  /\ \A t \in Tasks : SF_vars(Step(t)) /\ SF_vars(Sleep(t))
  /\ WF_vars(Report \/ SystemReset)

-----------------------------------------------------------------------------
(***************************************************************************)
(* Properties.                                                             *)
(***************************************************************************)

\* A line that a task ends is its message, whole and alone on its line, however the
\* tasks are switched.
LinesAreWhole == ended.by # NoOne => ended.text \o <<Newline>> = Line(ended.by, ended.msg)

\* The task that is writing has the mutex; when nobody is, it is free.
WritersHaveTheMutex == \A t \in Tasks : pc[t] = "write" <=> mutex = t

\* What the items of a format ask for.
Rendered(format) ==
  [k \in DOMAIN format |->
     CASE format[k] = "c"  -> "c"
       [] format[k] = "%%" -> "%"
       [] format[k] = "%d" -> Argument[Cardinality({i \in Conversions(format) : i <= k})]]

\* Every percent sign comes before the last argument, and that is named in full.
Regular(format) ==
  \A k \in DOMAIN format :
    /\ format[k] # "%"
    /\ format[k] = "%%" => \E i \in Conversions(format) : k < i

\* Every argument is printed, in its place, among the characters of the format.
ArgumentsInPlace ==
  ended.by # NoOne /\ Regular(ended.msg.format) =>
    SubSeq(ended.text, 4, Len(ended.text)) = Rendered(ended.msg.format)

\* No task of a priority in between runs while one waits for the console and a lower
\* one is printing.
NoPriorityInversion ==
  [][\A t, u \in Tasks :
       pc[u] = "blocked" /\ Priority[t] < Priority[u] /\ mutex # t
         => pc[t] = "away" \/ (pc'[t] = pc[t] /\ done'[t] = done[t])
              \/ report # NoFault]_vars

\* A task that waits for the console gets it, unless the processor is reset.
WaitersGetTheConsole == \A t \in Tasks : pc[t] = "take" ~> pc[t] = "write" \/ report # NoFault

\* A fault is reported on a line of its own, also when it hits a task that has the
\* mutex.
FaultsAreReported == \A fault \in Faults : report = fault ~> line = <<>> /\ told = 4

\* Known deviation, which no run checks.
\* "NRF init ch=%" (radio_rx_task.hpp:34) and "TX seq=%" (radio_tx_task.hpp:36) name an
\* argument at the end of the format.  The code breaks what they mean: a % at the end
\* is printed as it is, and the argument dropped (log.hpp:95).
LastPercentPrints == Printed(<<"c", "%">>, 1) = <<"c", 1>>

=============================================================================
