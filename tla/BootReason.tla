----------------------------- MODULE BootReason -----------------------------
(***************************************************************************)
(* Why the processor booted: a reset sets flags in RCC_CSR, which add up   *)
(* until getBootReason() has read and cleared them, and main() prints what *)
(* it made of them.  A reset may come at any point of the boot.            *)
(***************************************************************************)
EXTENDS FiniteSets

VARIABLES
  csr,     (* the reset flags that are set                                 *)
  pc,      (* where main() is: "read", "clear", "decide", "run"            *)
  seen,    (* the flags as getBootReason has read them                     *)
  reason,  (* what was printed, "none" before                              *)
  resets   (* history: the resets since the flags were last cleared, and   *)
           (* when a reason is printed those it stands for                 *)

vars == <<csr, pc, seen, reason, resets>>

Reasons == {"CLEAN", "WATCHDOG", "SOFTWARE_RESET", "PIN_RESET", "BROWNOUT", "UNKNOWN"}

\* A hard fault before initCrashLog() is an earlyFault.
Resets ==
  {"powerOn", "brownout", "pin", "watchdog", "hardFault", "earlyFault", "stackOverflow"}

Flags == {"IWDG", "SFT", "POR", "PIN", "BOR", "LPWR"}

\* The flags that a reset sets: every reset of the chip pulls its reset pin too.
FlagsOf(reset) ==
  {"PIN"} \cup
  CASE reset = "powerOn"  -> {"POR", "BOR"}
    [] reset = "brownout" -> {"BOR"}
    [] reset = "pin"      -> {}
    [] reset = "watchdog" -> {"IWDG"}
    [] OTHER              -> {"SFT"}

TypeOK ==
  /\ csr \subseteq Flags /\ seen \subseteq Flags
  /\ pc \in {"read", "clear", "decide", "run"}
  /\ reason \in Reasons \cup {"none"}
  /\ resets \subseteq Resets

\* The first power-on.
Init ==
  /\ csr = FlagsOf("powerOn") /\ resets = {"powerOn"}
  /\ pc = "read" /\ seen = {} /\ reason = "none"

Read ==
  /\ pc = "read"
  /\ seen' = csr
  /\ pc' = "clear"
  /\ UNCHANGED <<csr, reason, resets>>

\* Mutant: the flags are not cleared.
ClearForgotten ==
  /\ pc = "clear"
  /\ pc' = "decide"
  /\ UNCHANGED <<csr, seen, reason, resets>>

Clear ==
  /\ pc = "clear"
  /\ csr' = {}
  /\ pc' = "decide"
  /\ UNCHANGED <<seen, reason, resets>>

\* Mutant: the software reset is looked at first.
ReasonOfSoftwareFirst(flags) ==
  IF "SFT" \in flags THEN "SOFTWARE_RESET"
  ELSE IF "IWDG" \in flags THEN "WATCHDOG"
  ELSE IF "PIN" \in flags THEN "PIN_RESET" ELSE "UNKNOWN"

\* The first flag found, in the order of the code.
ReasonOf(flags) ==
  IF "IWDG" \in flags THEN "WATCHDOG"
  ELSE IF "SFT" \in flags THEN "SOFTWARE_RESET"
  ELSE IF "PIN" \in flags THEN "PIN_RESET"
  ELSE IF "BOR" \in flags THEN "BROWNOUT"
  ELSE IF "LPWR" \in flags THEN "CLEAN"
  ELSE "UNKNOWN"

Report ==
  /\ pc = "decide"
  /\ reason' = ReasonOf(seen)
  /\ pc' = "run"
  /\ UNCHANGED <<csr, seen, resets>>

\* A reset.  The watchdog is started by main() only after the reason is printed; a
\* hard fault and a stack overflow end in NVIC_SystemReset, the latter in a task.
Reset(r) ==
  /\ r \in {"watchdog", "stackOverflow"} => pc = "run"
  /\ csr' = IF r = "powerOn" THEN FlagsOf(r) ELSE csr \cup FlagsOf(r)
  /\ resets' = IF pc \in {"decide", "run"} \/ r = "powerOn" THEN {r} ELSE resets \cup {r}
  /\ pc' = "read" /\ seen' = {} /\ reason' = "none"

Next == Read \/ Clear \/ Report \/ \E r \in Resets : Reset(r)

Spec == Init /\ [][Next]_vars

-----------------------------------------------------------------------------
(***************************************************************************)
(* Properties.                                                             *)
(***************************************************************************)

\* The watchdog is named exactly when it has reset the processor since the flags
\* were last cleared: other resets on top of it, before the flags are read or
\* between their reading and their clearing, do not hide it, and it is not named
\* again by a later boot.
WatchdogIsNamed == pc = "run" => (reason = "WATCHDOG" <=> "watchdog" \in resets)

\* A reset that the program has caused itself is not taken for the reset button,
\* nor the other way round.
SoftwareIsNamed ==
  pc = "run" /\ "watchdog" \notin resets =>
    (reason = "SOFTWARE_RESET" <=> resets \cap {"hardFault", "earlyFault", "stackOverflow"} # {})

\* Known deviation, which no run checks.
\* "Boot reason tracking (clean boot vs watchdog vs hard fault)" (TODO.md:15): a
\* power-on is a clean boot.  The code breaks it: the flag of the reset pin, which
\* a power-on sets as well, is looked at first, and CLEAN stands for another flag.
PowerOnIsClean == pc = "run" /\ resets = {"powerOn"} => reason = "CLEAN"

=============================================================================
