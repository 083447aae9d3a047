---------------------------- MODULE FlashRegions ----------------------------
(***************************************************************************)
(* One flash with its three users, each in its region of flash_map.hpp:    *)
(* the configuration, the crash log and the flight recorder.  A boot loads *)
(* the configuration and then starts the recorder; a hard fault stops all  *)
(* but its handler; a reset starts all of them over.  A call of the flash  *)
(* driver is one step here; SpiBus looks inside.  Nothing in the firmware  *)
(* calls save() yet: here it may be called whenever the boot is over.      *)
(***************************************************************************)
EXTENDS NorFlash

CONSTANTS
  ConfigWords, MaxSaves,       (* of ConfigStore                           *)
  CrashWords, MaxCrashes,      (* of CrashLog                              *)
  LogWords, MaxBoots,          (* of Blackbox                              *)
  CrashAddr, BlackboxAddr, FlashSizeEnd   (* flash_map.hpp                 *)

VARIABLES
  mem,                                          (* the flash               *)
  configPc, cfg, config, stored, torn,          (* of ConfigStore          *)
  crashPc, slot, crash, records,                (* of CrashLog             *)
  recorderPc, writeAddr, entryCount, logging, boot   (* of Blackbox        *)

configVars == <<configPc, cfg, config, stored, torn>>
crashVars == <<crashPc, slot, crash, records>>
recorderVars == <<recorderPc, writeAddr, entryCount, logging, boot>>
vars == <<mem, configVars, crashVars, recorderVars>>

Config == INSTANCE ConfigStore WITH pc <- configPc
Crash == INSTANCE CrashLog WITH pc <- crashPc, EntryWords <- CrashWords
Recorder == INSTANCE Blackbox WITH pc <- recorderPc, EntryWords <- LogWords

ASSUME RegionsAssumption ==
  /\ Config!ConfigStoreAssumption /\ Crash!CrashLogAssumption /\ Recorder!BlackboxAssumption
  /\ SectorWords <= CrashAddr /\ CrashAddr + SectorWords <= BlackboxAddr

TypeOK ==
  /\ mem \in [0 .. FlashSizeEnd - 1 -> SUBSET (Config!Words \cup Crash!Words \cup Recorder!Words)]
  /\ configPc \in {"boot", "running", "erase", "program", "verify"}
  /\ crashPc \in {"running", "erase", "write", "reset"}
  /\ recorderPc \in {"start", "loop", "erase", "program"}
  /\ slot \in Crash!Slots /\ writeAddr \in BlackboxAddr .. FlashSizeEnd

Init ==
  /\ mem = [a \in 0 .. FlashSizeEnd - 1 |-> Erased]
  /\ configPc = "boot" /\ cfg = 0 /\ torn = FALSE
  /\ config = Config!Defaults /\ stored = Config!Defaults
  /\ crashPc = "running" /\ slot = 0 /\ crash = 0 /\ records = <<>>
  /\ recorderPc = "start" /\ writeAddr = BlackboxAddr /\ entryCount = 0
  /\ logging = FALSE /\ boot = 1

\* The tasks and main run unless the handler does.
InHandler == crashPc # "running"

Configure ==
  /\ ~InHandler
  /\ Config!Load \/ Config!Save \/ Config!EraseConfig \/ Config!ProgramConfig \/ Config!Verify
  /\ UNCHANGED <<crashVars, recorderVars>>

\* The recorder's task is started when the configuration is loaded.
Record ==
  /\ ~InHandler /\ configPc # "boot"
  /\ Recorder!Start \/ Recorder!WriteEntry \/ Recorder!EraseNewSector \/ Recorder!ProgramEntry
  /\ UNCHANGED <<configVars, crashVars>>

HandleFault ==
  /\ Crash!HardFault \/ Crash!EraseFull \/ Crash!WriteEntry
  /\ UNCHANGED <<configVars, recorderVars>>

\* A reset ends the handler or the tasks, and may cut short the call being made.
Reset ==
  /\ Config!Restart /\ Recorder!Restart
  /\ \/ InHandler /\ (Crash!SystemReset \/ Crash!ResetInHandler)
     \/ ~InHandler /\ (UNCHANGED mem \/ Config!Cut \/ Recorder!Cut) /\ UNCHANGED crashVars

Next == Configure \/ Record \/ HandleFault \/ Reset

Spec == Init /\ [][Next]_vars

-----------------------------------------------------------------------------
(***************************************************************************)
(* Properties.                                                             *)
(***************************************************************************)

\* Each with a flash in which nobody else writes.
ConfigAlone ==
  INSTANCE ConfigStore WITH pc <- configPc, mem <- [a \in 0 .. SectorWords - 1 |-> mem[a]]
CrashAlone ==
  INSTANCE CrashLog WITH pc <- crashPc, EntryWords <- CrashWords,
                         mem <- [a \in Crash!Sector |-> mem[a]]
RecorderAlone ==
  INSTANCE Blackbox WITH
    pc <- recorderPc, EntryWords <- LogWords,
    mem <- [a \in DOMAIN mem |-> IF a < BlackboxAddr THEN {Recorder!Other} ELSE mem[a]]

\* Each of the three is, in the flash they share, what it would be in a flash of its
\* own, whatever the others write, erase and leave behind when they are cut short.
EachAsIfAlone == ConfigAlone!Spec /\ CrashAlone!Spec /\ RecorderAlone!Spec

\* A boot loads the configuration that was last stored, or if a save was cut short
\* the one being stored or the defaults.
LoadsOneConfig == Config!LoadsOneConfig

\* The walk of dumpLog from the start of the recorder's region finds every entry of
\* this boot undamaged.
LogReadsBack == Recorder!LogReadsBack

\* The recorder stops only when its region is full.
StopsOnlyWhenFull == Recorder!StopsOnlyWhenFull

=============================================================================
