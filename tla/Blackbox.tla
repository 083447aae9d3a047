------------------------------ MODULE Blackbox ------------------------------
(***************************************************************************)
(* The flight recorder: LoggerTask writes one LogEntry every 10 ms into    *)
(* the flash from FLASH_BLACKBOX_ADDR to FLASH_SIZE_END, and dumpLog reads *)
(* the entries back.  The processor may be reset between any two flash     *)
(* operations, and in the middle of one; the recorder then starts over,    *)
(* over what is left in the flash.  Addresses are words.                   *)
(***************************************************************************)
EXTENDS NorFlash

CONSTANTS
  EntryWords,    (* words in a LogEntry (12)                               *)
  BlackboxAddr,  (* FLASH_BLACKBOX_ADDR                                    *)
  FlashSizeEnd,  (* FLASH_SIZE_END                                         *)
  MaxBoots       (* bound on the number of boots                           *)

BlackboxAssumption ==
  /\ EntryWords \in Nat /\ BlackboxAddr \in Nat /\ FlashSizeEnd \in Nat /\ MaxBoots \in Nat
  /\ 0 < EntryWords /\ EntryWords <= PageWords
  /\ BlackboxAddr < FlashSizeEnd
  /\ BlackboxAddr % SectorWords = 0 /\ FlashSizeEnd % SectorWords = 0

VARIABLES
  mem,                             (* the flash                            *)
  writeAddr, entryCount, logging,  (* the members of LoggerTask            *)
  pc,    (* where the task is: "start" before the first erase, "loop",     *)
         (* "erase" and "program" within writeEntry                        *)
  boot   (* the number of this boot                                        *)

vars == <<mem, writeAddr, entryCount, logging, pc, boot>>

\* Entry number n of a boot.  A word is the entry's boot and number and its place.
EntryOf(b, n) == [k \in 1 .. EntryWords |-> <<b, n, k>>]

\* What the other regions hold: never erased by the recorder.
Other == <<0, 0, 0>>

MaxEntries == FlashSizeEnd - BlackboxAddr

Words == {Other} \cup ((1 .. MaxBoots) \X (0 .. MaxEntries) \X (1 .. EntryWords))

TypeOK ==
  /\ DOMAIN mem = 0 .. FlashSizeEnd - 1
  /\ \A a \in DOMAIN mem : mem[a] \subseteq Words
  /\ writeAddr \in BlackboxAddr .. FlashSizeEnd
  /\ entryCount \in 0 .. MaxEntries
  /\ logging \in BOOLEAN
  /\ pc \in {"start", "loop", "erase", "program"}
  /\ boot \in 1 .. MaxBoots

Init ==
  /\ mem = [a \in 0 .. FlashSizeEnd - 1 |-> IF a < BlackboxAddr THEN {Other} ELSE Erased]
  /\ writeAddr = BlackboxAddr /\ entryCount = 0 /\ logging = FALSE
  /\ pc = "start" /\ boot = 1

\* Mutant: the first sector of the flash is erased.
StartAtZero ==
  /\ pc = "start"
  /\ mem' = EraseSector(mem, 0)
  /\ logging' = TRUE
  /\ pc' = "loop"
  /\ UNCHANGED <<writeAddr, entryCount, boot>>

\* run() erases the first sector before it starts.
Start ==
  /\ pc = "start"
  /\ mem' = EraseSector(mem, BlackboxAddr)
  /\ logging' = TRUE
  /\ pc' = "loop"
  /\ UNCHANGED <<writeAddr, entryCount, boot>>

\* An entry that would cross the page starts on the next one.
AlignToPage(addr) ==
  IF (addr % PageWords) + EntryWords > PageWords
    THEN ((addr \div PageWords) + 1) * PageWords ELSE addr

\* Mutant: the last sector is not used.
FullEarly(addr) == addr + EntryWords + SectorWords >= FlashSizeEnd

Full(addr) == addr + EntryWords >= FlashSizeEnd

\* Mutant: every page is taken for a new sector.
AtNewSectorEveryPage(addr) == addr % PageWords = 0

AtNewSector(addr) == addr % SectorWords = 0

\* writeEntry, up to its first flash operation, once there is sensor data.
WriteEntry ==
  /\ pc = "loop" /\ logging
  /\ writeAddr' = AlignToPage(writeAddr)
  /\ \/ /\ Full(writeAddr')
        /\ logging' = FALSE
        /\ UNCHANGED pc
     \/ /\ ~Full(writeAddr')
        /\ pc' = IF AtNewSector(writeAddr') THEN "erase" ELSE "program"
        /\ UNCHANGED logging
  /\ UNCHANGED <<mem, entryCount, boot>>

EraseNewSector ==
  /\ pc = "erase"
  /\ mem' = EraseSector(mem, writeAddr)
  /\ pc' = "program"
  /\ UNCHANGED <<writeAddr, entryCount, logging, boot>>

ProgramEntry ==
  /\ pc = "program"
  /\ mem' = Program(mem, writeAddr, EntryOf(boot, entryCount))
  /\ writeAddr' = writeAddr + EntryWords
  /\ entryCount' = entryCount + 1
  /\ pc' = "loop"
  /\ UNCHANGED <<logging, boot>>

\* A page program that a reset cuts short: the flash programs what it has received.
Cut ==
  \E n \in 1 .. EntryWords :
    /\ pc = "program"
    /\ mem' = Program(mem, writeAddr, SubSeq(EntryOf(boot, entryCount), 1, n))

\* The members of the task start over.
Restart ==
  /\ boot < MaxBoots
  /\ boot' = boot + 1
  /\ writeAddr' = BlackboxAddr /\ entryCount' = 0 /\ logging' = FALSE
  /\ pc' = "start"

\* A reset; the flash keeps what it has.
Reset == (UNCHANGED mem \/ Cut) /\ Restart

Next == Start \/ WriteEntry \/ EraseNewSector \/ ProgramEntry \/ Reset

Spec == Init /\ [][Next]_vars

-----------------------------------------------------------------------------
(***************************************************************************)
(* dumpLog: where it looks for the entries, starting from an address.      *)
(***************************************************************************)
EntryAddr(first) ==
  LET at[n \in 0 .. entryCount] ==
        IF n = 0 THEN AlignToPage(first) ELSE AlignToPage(at[n - 1] + EntryWords)
  IN  at

Dump(first) ==
  [n \in 0 .. entryCount - 1 |-> Read(mem, EntryAddr(first)[n], EntryWords)]

Logged == [n \in 0 .. entryCount - 1 |-> CellsOf(EntryOf(boot, n))]

(***************************************************************************)
(* Properties.                                                             *)
(***************************************************************************)

\* Between two entries, the walk of dumpLog from the start of the recorder's
\* region finds every entry of this boot undamaged, in order, whatever earlier
\* boots and resets have left in the flash.
LogReadsBack == Dump(BlackboxAddr) = Logged

\* The recorder stops only when every page of its region holds as many entries
\* as fit in a page.
StopsOnlyWhenFull ==
  pc = "loop" /\ ~logging =>
    entryCount = ((FlashSizeEnd - BlackboxAddr) \div PageWords) * (PageWords \div EntryWords)

\* Known deviation, which no run checks.
\* dumpLog reads the log back (TODO.md:21 "Log dump command (read flash back over
\* UART)").  The code breaks it: dumpLog starts at address 0, in the
\* configuration sector, not at FLASH_BLACKBOX_ADDR.
DumpReturnsLog == Dump(0) = Logged

=============================================================================
