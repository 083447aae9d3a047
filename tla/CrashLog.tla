------------------------------ MODULE CrashLog ------------------------------
(***************************************************************************)
(* The crash log in its flash sector: HardFault_Handle records a crash and *)
(* resets the processor, and the next boot dumps what is recorded.  The    *)
(* processor may be reset (watchdog, reset pin) at any point of the        *)
(* handler; the flash keeps its supply, so an operation it has received is *)
(* finished, and of a page program cut short it programs what it received. *)
(* Addresses are words; a word cut short counts as not received.           *)
(***************************************************************************)
EXTENDS NorFlash

CONSTANTS
  CrashAddr,    (* FLASH_CRASH_ADDR                                        *)
  EntryWords,   (* words in a CrashEntry (12)                              *)
  MaxCrashes    (* bound on the number of crashes                          *)

CrashLogAssumption ==
  /\ EntryWords \in Nat /\ MaxCrashes \in Nat /\ CrashAddr \in Nat
  /\ CrashAddr % SectorWords = 0
  /\ 1 < EntryWords /\ EntryWords <= PageWords /\ EntryWords < SectorWords

VARIABLES
  mem,       (* the crash sector                                           *)
  pc,        (* what the processor does                                    *)
  slot,      (* the slot findNextSlot has chosen                           *)
  crash,     (* the number of the current crash, 0 before the first        *)
  records    (* history: the records that have reached the flash since the *)
             (* sector was last erased, in order: the crash, and how many  *)
             (* words of its entry                                         *)

vars == <<mem, pc, slot, crash, records>>

Sector == CrashAddr .. CrashAddr + SectorWords - 1
DataOffset == CrashAddr + 1
MaxEntries == (SectorWords - 1) \div EntryWords
Slots == 0 .. MaxEntries - 1
Addr(i) == DataOffset + (i * EntryWords)

\* A word is a number and its place; crash number 0 stands for the magic.
Magic == <<0, 1>>
EntryOf(c) == [k \in 1 .. EntryWords |-> IF k = 1 THEN Magic ELSE <<c, k>>]
Words == {Magic} \cup ((1 .. MaxCrashes) \X (2 .. EntryWords))

TypeOK ==
  /\ mem \in [Sector -> SUBSET Words]
  /\ pc \in {"running", "erase", "write", "reset"}
  /\ slot \in Slots
  /\ crash \in 0 .. MaxCrashes
  /\ records \in Seq([crash : 1 .. MaxCrashes, words : 1 .. EntryWords])

HasMagic(i) == mem[Addr(i)] = {Magic}

Init ==
  /\ mem = [a \in Sector |-> Erased]
  /\ pc = "running" /\ slot = 0 /\ crash = 0
  /\ records = <<>>

\* Mutant: the last slot is never looked at.
FreeSlotsButLast == {i \in Slots : i < MaxEntries - 1 /\ ~HasMagic(i)}

FreeSlots == {i \in Slots : ~HasMagic(i)}

\* Mutant: a full log is erased, and the crash forgotten.
HardFaultForgets ==
  /\ pc = "running" /\ crash < MaxCrashes
  /\ crash' = crash + 1
  /\ \/ \E i \in FreeSlots :
           /\ \A j \in FreeSlots : i <= j
           /\ slot' = i
           /\ pc' = "write"
     \/ /\ FreeSlots = {}
        /\ slot' = 0
        /\ pc' = "reset"
  /\ UNCHANGED <<mem, records>>

\* A hard fault; write() looks for the first slot without a magic.
HardFault ==
  /\ pc = "running" /\ crash < MaxCrashes
  /\ crash' = crash + 1
  /\ \/ \E i \in FreeSlots :
           /\ \A j \in FreeSlots : i <= j
           /\ slot' = i
           /\ pc' = "write"
     \/ /\ FreeSlots = {}
        /\ slot' = 0
        /\ pc' = "erase"
  /\ UNCHANGED <<mem, records>>

\* Mutant: the sector is reused without erasing it.
EraseFullForgotten ==
  /\ pc = "erase"
  /\ pc' = "write"
  /\ records' = <<>>
  /\ UNCHANGED <<mem, slot, crash>>

EraseFull ==
  /\ pc = "erase"
  /\ mem' = EraseSector(mem, CrashAddr)
  /\ pc' = "write"
  /\ records' = <<>>
  /\ UNCHANGED <<slot, crash>>

\* The record of this crash, of which n words have reached the flash.
Record(n) == [crash |-> crash, words |-> n]

WriteEntry ==
  /\ pc = "write"
  /\ mem' = Program(mem, Addr(slot), EntryOf(crash))
  /\ pc' = "reset"
  /\ records' = Append(records, Record(EntryWords))
  /\ UNCHANGED <<slot, crash>>

\* A page program that a reset cuts short: the flash has received n words.
Cut ==
  \E n \in 1 .. EntryWords - 1 :
    /\ pc = "write"
    /\ mem' = Program(mem, Addr(slot), SubSeq(EntryOf(crash), 1, n))
    /\ records' = Append(records, Record(n))

\* The processor is reset in the handler.
ResetInHandler ==
  /\ pc # "running"
  /\ UNCHANGED <<mem, records>> \/ Cut
  /\ pc' = "running"
  /\ UNCHANGED <<slot, crash>>

\* The handler ends in NVIC_SystemReset.
SystemReset ==
  /\ pc = "reset"
  /\ pc' = "running"
  /\ UNCHANGED <<mem, slot, crash, records>>

Clear ==
  /\ pc = "running"
  /\ mem' = EraseSector(mem, CrashAddr)
  /\ records' = <<>>
  /\ UNCHANGED <<pc, slot, crash>>

Next == HardFault \/ EraseFull \/ WriteEntry \/ ResetInHandler \/ SystemReset \/ Clear

Spec == Init /\ [][Next]_vars

-----------------------------------------------------------------------------
(***************************************************************************)
(* Properties.                                                             *)
(***************************************************************************)

\* The number of entries that dump() prints and counts.
DumpCount ==
  IF FreeSlots = {} THEN MaxEntries ELSE CHOOSE i \in FreeSlots : \A j \in FreeSlots : i <= j

\* The entries as dump() reads and prints them, in order: every one whose magic is
\* there, those cut short behind it included.
Dumped == [i \in 1 .. DumpCount |-> Read(mem, Addr(i - 1), EntryWords)]

\* What there is to read of a record: its words, and behind them erased flash.
AsFarAsReceived(record) ==
  [k \in 1 .. EntryWords |->
     IF k <= record.words THEN {EntryOf(record.crash)[k]} ELSE Erased]

\* The slots before the first one that does not fit in its page.
InPage(i) == (Addr(i) % PageWords) + EntryWords <= PageWords
GoodSlots == {i \in Slots : \A j \in 0 .. i : InPage(j)}
AllInPage == \A i \in 0 .. Len(records) - 1 : i \in GoodSlots

\* Until the slots that fit in their pages are used up, a boot dumps exactly one entry
\* for each record begun since the sector was erased, in the order of the crashes: whole
\* and undamaged those whose handler was not reset in the write, and of the others all
\* that had reached the flash, followed by nothing of any other crash.
EarlyCrashesAreDumped ==
  pc = "running" /\ AllInPage =>
    Dumped = [i \in 1 .. Len(records) |-> AsFarAsReceived(records[i])]

\* write() erases the history only when every slot holds an entry.
ErasedOnlyWhenFull == pc = "erase" => Len(records) = MaxEntries

\* Known deviations, which no run checks.
\* dump(), "called at boot, prints crash history" (crash_log.hpp:65): every crash
\* recorded since the sector was erased is dumped.  The code breaks it: the first
\* entry that crosses a page wraps around and destroys the magic of slot 0.
CrashHistoryIsDumped ==
  pc = "running" => Dumped = [i \in 1 .. Len(records) |-> AsFarAsReceived(records[i])]

\* What dump() prints as a crash, and counts in "crash(es) recorded"
\* (crash_log.hpp:104), is a crash that was recorded.  The code breaks it: it looks at
\* the magic only, so an entry cut short behind it is printed as well, with the words
\* that erased flash reads as for registers.
OnlyRecordedCrashesAreDumped ==
  pc = "running" =>
    \A i \in DOMAIN Dumped : \E c \in 1 .. crash : Dumped[i] = CellsOf(EntryOf(c))

=============================================================================
