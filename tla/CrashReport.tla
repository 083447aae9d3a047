----------------------------- MODULE CrashReport -----------------------------
(***************************************************************************)
(* From a crash to its report: the crash log, the reset that follows, and  *)
(* the boot, in which main() prints the boot reason, sets the crash log up *)
(* and dumps it.  A hard fault before that has no log to go to.  The       *)
(* processor may be reset at any point of the handler and of the boot; a   *)
(* loss of power while the flash is busy is left out.                      *)
(***************************************************************************)
EXTENDS CrashLog

ASSUME CrashReportAssumption == CrashLogAssumption

VARIABLES
  csr, bootPc, seen, reason, resets,  (* of BootReason                     *)
  shown                               (* the dump of this boot             *)

boot == <<csr, bootPc, seen, reason, resets>>
reportVars == <<vars, boot, shown>>

Why == INSTANCE BootReason WITH pc <- bootPc

\* No dump yet: the pointer crashLog is null.  No entry is empty.
NoDump == << <<>> >>

ReportTypeOK ==
  /\ TypeOK /\ Why!TypeOK
  /\ shown = NoDump \/ shown \in Seq([1 .. EntryWords -> SUBSET Words])

ReportInit == Init /\ Why!Init /\ shown = NoDump

\* main() prints the reason of the boot, while nothing else runs.
PrintReason ==
  /\ Why!Read \/ Why!Clear \/ Why!Report
  /\ UNCHANGED <<vars, shown>>

\* main() sets the log up and dumps it, then starts the tasks.
DumpLog ==
  /\ bootPc = "run" /\ shown = NoDump
  /\ shown' = Dumped
  /\ UNCHANGED <<vars, boot>>

Started == shown # NoDump

Fault ==
  /\ Started
  /\ HardFault
  /\ UNCHANGED <<boot, shown>>

Handler ==
  /\ EraseFull \/ WriteEntry
  /\ UNCHANGED <<boot, shown>>

Cleared ==
  /\ Started
  /\ Clear
  /\ UNCHANGED <<boot, shown>>

HandlerResets ==
  /\ SystemReset /\ Why!Reset("hardFault")
  /\ shown' = NoDump

\* The handler finds no log, and resets the processor.
FaultUnrecorded ==
  /\ ~Started
  /\ Why!Reset("earlyFault")
  /\ shown' = NoDump
  /\ UNCHANGED vars

\* Any other reset, in the handler or outside; the watchdog and the tasks are
\* started after the dump.
OtherReset(r) ==
  /\ \/ ResetInHandler /\ (r \in {"pin", "watchdog"} \/ (pc = "reset" /\ r # "stackOverflow"))
     \/ pc = "running" /\ UNCHANGED vars
  /\ r \in {"watchdog", "stackOverflow"} => Started
  /\ Why!Reset(r)
  /\ shown' = NoDump

ReportNext ==
  \/ PrintReason \/ DumpLog \/ Fault \/ Handler \/ Cleared
  \/ HandlerResets \/ FaultUnrecorded
  \/ \E r \in Why!Resets \ {"hardFault", "earlyFault"} : OtherReset(r)

ReportSpec == ReportInit /\ [][ReportNext]_reportVars

-----------------------------------------------------------------------------
(***************************************************************************)
(* Properties.                                                             *)
(***************************************************************************)

\* A boot names the watchdog exactly when it has bitten since the last report,
\* whatever resets came on top of it in the boot or in the handler.
WatchdogIsNamed == Why!WatchdogIsNamed

\* A boot names a software reset exactly when the program has reset itself since
\* the last report, unless the watchdog bit as well.
SoftwareIsNamed == Why!SoftwareIsNamed

\* A handler that ran to its end is answered by the next dump: its crash is the
\* last one shown, whole, as long as the log's slots fit in their pages, also when more
\* resets have come before the dump and when the log was full.
FaultIsShown ==
  [][/\ shown = NoDump /\ shown' # NoDump
     /\ "hardFault" \in resets
     /\ AllInPage
     => shown' # <<>> /\ shown'[Len(shown')] = CellsOf(EntryOf(crash))]_reportVars

=============================================================================
