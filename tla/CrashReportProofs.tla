-------------------------- MODULE CrashReportProofs --------------------------
(***************************************************************************)
(* The boot reason is right, the crash log is erased only when it is full, *)
(* and a boot dumps what the handlers before it have recorded, for every   *)
(* size of the flash and of the log and any number of crashes and resets.  *)
(***************************************************************************)
EXTENDS CrashReport, Arithmetic

-----------------------------------------------------------------------------
(***************************************************************************)
(* The boot reason.                                                        *)
(***************************************************************************)

Software == {"hardFault", "earlyFault", "stackOverflow"}

\* The flags tell of these resets, and of no others.
Tells(flags) ==
  /\ "IWDG" \in flags <=> "watchdog" \in resets
  /\ "SFT" \in flags <=> resets \cap Software # {}

\* The flags that are set tell of the resets until they are cleared, those that
\* were read from then on.
FlagsTell ==
  /\ bootPc \in {"read", "clear"} => Tells(csr)
  /\ bootPc \in {"decide", "run"} => csr = {}
  /\ bootPc \in {"clear", "decide", "run"} => Tells(seen)
  /\ bootPc = "run" => reason = Why!ReasonOf(seen)

IInv == bootPc \in {"read", "clear", "decide", "run"} /\ FlagsTell

\* The flags of one reset tell of it.
LEMMA FlagsOfOne ==
  ASSUME NEW r \in Why!Resets
  PROVE  /\ "IWDG" \in Why!FlagsOf(r) <=> r = "watchdog"
         /\ "SFT" \in Why!FlagsOf(r) <=> r \in Software
BY DEF Why!FlagsOf, Why!Resets, Software

LEMMA InitInvariant == ReportInit => IInv
<1> SUFFICES ASSUME ReportInit PROVE IInv
  OBVIOUS
<1>1. csr = Why!FlagsOf("powerOn") /\ resets = {"powerOn"} /\ bootPc = "read"
  BY DEF ReportInit, Why!Init
<1>2. "powerOn" \in Why!Resets /\ "powerOn" \notin Software
  BY DEF Why!Resets, Software
<1>3. Tells(csr)
  BY <1>1, <1>2, FlagsOfOne DEF Tells
<1> QED BY <1>1, <1>3 DEF IInv, FlagsTell

\* A reset adds its flags to those that were set, and its name to the resets they
\* stand for.
LEMMA ResetKeeps ==
  ASSUME IInv, NEW r \in Why!Resets, Why!Reset(r)
  PROVE  IInv'
<1>1. bootPc' = "read"
  BY DEF Why!Reset
<1>2. Tells(csr)'
  <2>1. CASE r = "powerOn" \/ bootPc \in {"decide", "run"}
    <3>1. csr' = Why!FlagsOf(r) /\ resets' = {r}
      BY <2>1 DEF Why!Reset, IInv, FlagsTell
    <3> QED BY <3>1, FlagsOfOne DEF Tells
  <2>2. CASE r # "powerOn" /\ bootPc \in {"read", "clear"}
    <3>1. csr' = csr \cup Why!FlagsOf(r) /\ resets' = resets \cup {r}
      BY <2>2 DEF Why!Reset
    <3>2. Tells(csr)
      BY <2>2 DEF IInv, FlagsTell
    <3> QED BY <3>1, <3>2, FlagsOfOne DEF Tells
  <2> QED BY <2>1, <2>2 DEF IInv
<1> QED BY <1>1, <1>2 DEF IInv, FlagsTell

\* A step of the boot reason, or none, is all that a step of the report does to it.
LEMMA BootStep ==
  ASSUME [ReportNext]_reportVars
  PROVE  \/ Why!Read \/ Why!Clear \/ Why!Report
         \/ \E r \in Why!Resets : Why!Reset(r)
         \/ UNCHANGED boot
<1>1. "hardFault" \in Why!Resets /\ "earlyFault" \in Why!Resets
  BY DEF Why!Resets
<1>2. CASE PrintReason
  BY <1>2 DEF PrintReason
<1>3. CASE DumpLog \/ Fault \/ Handler \/ Cleared
  BY <1>3 DEF DumpLog, Fault, Handler, Cleared
<1>4. CASE HandlerResets \/ FaultUnrecorded
  BY <1>1, <1>4 DEF HandlerResets, FaultUnrecorded
<1>5. CASE \E r \in Why!Resets \ {"hardFault", "earlyFault"} : OtherReset(r)
  BY <1>5 DEF OtherReset
<1>6. CASE UNCHANGED reportVars
  BY <1>6 DEF reportVars
<1> QED BY <1>2, <1>3, <1>4, <1>5, <1>6 DEF ReportNext

LEMMA StepKeepsInvariant == IInv /\ [ReportNext]_reportVars => IInv'
<1> SUFFICES ASSUME IInv, [ReportNext]_reportVars PROVE IInv'
  OBVIOUS
<1>1. CASE Why!Read
  BY <1>1 DEF Why!Read, IInv, FlagsTell, Tells
<1>2. CASE Why!Clear
  BY <1>2 DEF Why!Clear, IInv, FlagsTell, Tells
<1>3. CASE Why!Report
  BY <1>3 DEF Why!Report, IInv, FlagsTell, Tells
<1>4. CASE \E r \in Why!Resets : Why!Reset(r)
  BY <1>4, ResetKeeps
<1>5. CASE UNCHANGED boot
  BY <1>5 DEF boot, IInv, FlagsTell, Tells, Why!ReasonOf
<1> QED BY <1>1, <1>2, <1>3, <1>4, <1>5, BootStep

\* The flags tell of the resets at every step of the boot.
THEOREM Invariance == ReportSpec => []IInv
BY InitInvariant, StepKeepsInvariant, PTL DEF ReportSpec

\* The watchdog is named exactly when it has bitten since the last report
\* (getBootReason, after any resets in the handler and the boot).
THEOREM WatchdogNamed == ReportSpec => []WatchdogIsNamed
<1>1. IInv => WatchdogIsNamed
  BY DEF IInv, FlagsTell, Tells, Why!ReasonOf, WatchdogIsNamed, Why!WatchdogIsNamed
<1> QED BY <1>1, Invariance, PTL

\* A software reset is named exactly when the program has reset itself since the
\* last report and the watchdog has not bitten.
THEOREM SoftwareNamed == ReportSpec => []SoftwareIsNamed
<1>1. IInv => SoftwareIsNamed
  BY DEF IInv, FlagsTell, Tells, Software, Why!ReasonOf, SoftwareIsNamed, Why!SoftwareIsNamed
<1> QED BY <1>1, Invariance, PTL

-----------------------------------------------------------------------------
(***************************************************************************)
(* The crash log.                                                          *)
(***************************************************************************)

\* An entry that crosses a page has wrapped around onto the first word of a slot,
\* which then holds no magic any more, and never will until the sector is erased.
Damaged == \E i \in Slots : mem[Addr(i)] \notin {Erased, {Magic}}

\* The records begun since the sector was erased.
Begun == Len(records)

RecordsType == crash \in Nat /\ records \in Seq([crash : Nat, words : 1 .. EntryWords])

\* Otherwise the slots written since the sector was erased are the first ones, and
\* the next is the one to write to.
FilledInOrder ==
  /\ Begun \in 0 .. MaxEntries
  /\ \A i \in Slots : HasMagic(i) <=> i < Begun
  /\ pc = "write" => slot = Begun

LogInv ==
  /\ RecordsType
  /\ DOMAIN mem = Sector
  /\ slot \in Slots
  /\ Damaged \/ FilledInOrder
  /\ pc = "erase" => FreeSlots = {} /\ slot = 0

LEMMA LogSizes ==
  /\ SectorWords \in Nat /\ 0 < SectorWords /\ PageWords \in Nat /\ 0 < PageWords
  /\ CrashAddr \in Nat /\ CrashAddr % SectorWords = 0
  /\ EntryWords \in Nat /\ 1 < EntryWords /\ EntryWords < SectorWords /\ EntryWords <= PageWords
BY FlashAssumption, CrashReportAssumption DEF CrashLogAssumption

LEMMA SlotCount == MaxEntries \in Nat /\ 0 < MaxEntries
<1> DEFINE n == MaxEntries
<1>1. /\ n \in Nat /\ (SectorWords - 1) % EntryWords < EntryWords
      /\ (SectorWords - 1) % EntryWords \in Nat
      /\ SectorWords - 1 = n * EntryWords + ((SectorWords - 1) % EntryWords)
  BY LogSizes, Division DEF MaxEntries
<1> HIDE DEF n
<1>2. n # 0
  <2> SUFFICES ASSUME n = 0 PROVE FALSE
    OBVIOUS
  <2>1. n * EntryWords = 0
    BY LogSizes
  <2> QED BY <1>1, <2>1, LogSizes
<1> QED BY <1>1, <1>2 DEF n

\* A slot is in the sector, and in one place only.
LEMMA SlotPlace ==
  ASSUME NEW i \in Slots
  PROVE  /\ Addr(i) \in Sector /\ Addr(i) \in Nat
         /\ Addr(i) \div SectorWords = CrashAddr \div SectorWords
<1> DEFINE n == MaxEntries
           c == CrashAddr \div SectorWords
<1>1. /\ n \in Nat /\ (SectorWords - 1) % EntryWords \in Nat
      /\ SectorWords - 1 = n * EntryWords + ((SectorWords - 1) % EntryWords)
  BY LogSizes, Division DEF MaxEntries
<1>2. i \in Nat /\ i + 1 <= n
  BY <1>1 DEF Slots
<1>3. c \in Nat /\ CrashAddr = c * SectorWords + 0
  BY LogSizes, Division
<1> HIDE DEF n, c
<1>4. (i + 1) * EntryWords <= n * EntryWords
  BY <1>1, <1>2, LogSizes, Times
<1>5. /\ i * EntryWords \in Nat /\ n * EntryWords \in Nat
      /\ (i + 1) * EntryWords = i * EntryWords + EntryWords
      /\ c * SectorWords \in Nat /\ (c + 1) * SectorWords = c * SectorWords + SectorWords
  BY <1>1, <1>2, <1>3, LogSizes, Z3
<1>6. Addr(i) \in Nat /\ CrashAddr <= Addr(i) /\ Addr(i) < CrashAddr + SectorWords
  BY <1>1, <1>2, <1>4, <1>5, LogSizes DEF Addr, DataOffset
<1>7. Addr(i) \div SectorWords = c
  BY <1>3, <1>5, <1>6, LogSizes, Quotient
<1> QED BY <1>6, <1>7, LogSizes DEF Sector, c

LEMMA SlotsApart ==
  ASSUME NEW i \in Slots, NEW j \in Slots, i # j
  PROVE  Addr(i) # Addr(j)
<1>1. ASSUME NEW k \in Nat, NEW l \in Nat, k < l PROVE k * EntryWords < l * EntryWords
  <2>1. (k + 1) * EntryWords <= l * EntryWords
    BY <1>1, LogSizes, Times
  <2>2. (k + 1) * EntryWords = k * EntryWords + EntryWords /\ k * EntryWords \in Nat
        /\ l * EntryWords \in Nat
    BY LogSizes, Z3
  <2> QED BY <2>1, <2>2, LogSizes
<1>2. i \in Nat /\ j \in Nat
  BY SlotCount DEF Slots
<1>3. i * EntryWords # j * EntryWords /\ i * EntryWords \in Nat /\ j * EntryWords \in Nat
  <2>1. i * EntryWords \in Nat /\ j * EntryWords \in Nat
    BY <1>2, LogSizes, Z3
  <2> QED BY <1>1, <1>2, <2>1
<1> QED BY <1>3, LogSizes DEF Addr, DataOffset

\* An erase frees every slot.
LEMMA EraseFrees ==
  ASSUME DOMAIN mem = Sector, NEW i \in Slots
  PROVE  EraseSector(mem, CrashAddr)[Addr(i)] = Erased
BY SlotPlace DEF EraseSector

\* The first words of an entry leave the magic in its slot, and no other where there
\* was none.
LEMMA ProgramEffect ==
  ASSUME DOMAIN mem = Sector, slot \in Slots, NEW n \in 1 .. EntryWords,
         NEW words,
         words = SubSeq(EntryOf(crash), 1, n) \/ (words = EntryOf(crash) /\ n = EntryWords),
         NEW j \in Slots
  PROVE  LET cell == Program(mem, Addr(slot), words)[Addr(j)]
         IN  /\ mem[Addr(j)] \subseteq cell
             /\ j = slot => Magic \in cell
             /\ j # slot /\ Magic \in cell => Magic \in mem[Addr(j)]
<1> DEFINE here == {k \in 0 .. n - 1 : Target(Addr(slot), k) = Addr(j)}
           new == {words[k + 1] : k \in here}
<1>1. n \in Nat /\ Len(words) = n /\ n <= PageWords
      /\ \A k \in 1 .. n : words[k] = IF k = 1 THEN Magic ELSE <<crash, k>>
  <2> DEFINE entry == EntryOf(crash)
  <2>1. n \in Nat /\ n <= EntryWords /\ EntryWords \in Nat /\ n <= PageWords
    BY LogSizes
  <2>2. /\ entry = [k \in 1 .. EntryWords |-> entry[k]]
        /\ \A k \in 1 .. EntryWords : entry[k] = IF k = 1 THEN Magic ELSE <<crash, k>>
    BY DEF EntryOf
  <2> HIDE DEF entry
  <2>3. entry \in Seq({entry[k] : k \in 1 .. EntryWords}) /\ Len(entry) = EntryWords
    BY <2>1, <2>2
  <2>4. CASE words = entry /\ n = EntryWords
    BY <2>1, <2>2, <2>3, <2>4
  <2>5. CASE words = SubSeq(entry, 1, n)
    <3>1. Len(words) = n /\ \A k \in 1 .. n : words[k] = entry[k]
      BY <2>1, <2>3, <2>5
    <3>2. ASSUME NEW k \in 1 .. n PROVE words[k] = IF k = 1 THEN Magic ELSE <<crash, k>>
      <4>1. k \in 1 .. EntryWords
        BY <2>1
      <4> QED BY <2>2, <3>1, <4>1, Zenon
    <3> QED BY <2>1, <3>1, <3>2, Zenon
  <2> QED BY <2>4, <2>5 DEF entry
<1>2. Program(mem, Addr(slot), words)[Addr(j)] = mem[Addr(j)] \cup new
  <2>1. (IF Len(words) > PageWords THEN PageWords ELSE Len(words)) = n
    BY <1>1, LogSizes
  <2>2. Addr(j) \in DOMAIN mem
    BY SlotPlace
  <2> QED BY <2>1, <2>2, Zenon DEF Program
<1>3. Target(Addr(slot), 0) = Addr(slot)
  <2>1. Addr(slot) \in Nat
    BY SlotPlace
  <2>2. Addr(slot) % PageWords \in 0 .. PageWords - 1
    BY <2>1, LogSizes, ModFacts
  <2>3. ((0 * PageWords) + (Addr(slot) % PageWords)) % PageWords = Addr(slot) % PageWords
    BY <2>2, LogSizes, ModUnique
  <2>4. ((Addr(slot) % PageWords) + 0) % PageWords = Addr(slot) % PageWords
    BY <2>2, <2>3, LogSizes
  <2> QED BY <2>1, <2>2, <2>4, LogSizes DEF Target
<1>4. j = slot => Magic \in new
  <2> SUFFICES ASSUME j = slot PROVE Magic \in new
    OBVIOUS
  <2>1. 0 \in here /\ words[0 + 1] = Magic
    BY <1>1, <1>3
  <2> QED BY <2>1
<1>5. j # slot => Magic \notin new
  <2> SUFFICES ASSUME j # slot, NEW k \in here, words[k + 1] = Magic PROVE FALSE
    OBVIOUS
  <2>1. k # 0
    BY <1>3, SlotsApart
  <2>2. words[k + 1] = <<crash, k + 1>> /\ k + 1 # 1
    BY <1>1, <2>1
  <2> QED BY <2>2 DEF Magic
<1> HIDE DEF new
<1> QED BY <1>2, <1>4, <1>5

\* A record begun is one more, and of this crash.
LEMMA OneMore ==
  ASSUME RecordsType, NEW n \in 1 .. EntryWords, records' = Append(records, Record(n)),
         crash' = crash
  PROVE  /\ RecordsType' /\ Begun \in Nat /\ Begun' = Begun + 1
         /\ records'[Begun + 1] = Record(n)
         /\ \A i \in 1 .. Begun : records'[i] = records[i]
BY DEF RecordsType, Begun, Record

LEMMA RecordWords ==
  ASSUME RecordsType, NEW i \in 1 .. Len(records)
  PROVE  records[i].words \in 1 .. EntryWords /\ records[i].words \in Nat
<1>1. records[i] \in [crash : Nat, words : 1 .. EntryWords]
  <2> DEFINE S == [crash : Nat, words : 1 .. EntryWords]
  <2>1. records \in Seq(S)
    BY DEF RecordsType
  <2> HIDE DEF S
  <2>2. records[i] \in S
    BY <2>1
  <2> QED BY <2>2 DEF S
<1>2. records[i].words \in 1 .. EntryWords
  BY <1>1
<1> QED BY <1>2, LogSizes

LEMMA NoRecords == records = <<>> => Begun = 0
BY DEF Begun

LEMMA NoRecordsOn == (records = <<>> => Begun = 0)'
BY NoRecords, PTL

\* A write that has reached the flash, whole or cut short, fills the next slot, or
\* has wrapped onto another.
LEMMA WriteFills ==
  ASSUME LogInv, pc = "write", NEW n \in 1 .. EntryWords,
         NEW words,
         words = SubSeq(EntryOf(crash), 1, n) \/ (words = EntryOf(crash) /\ n = EntryWords),
         mem' = Program(mem, Addr(slot), words), records' = Append(records, Record(n)),
         crash' = crash, slot' = slot, pc' \in {"running", "reset"}
  PROVE  LogInv'
<1> USE DEF LogInv
<1>1. DOMAIN mem' = Sector /\ RecordsType' /\ Begun' = Begun + 1
  BY OneMore DEF Program
<1>2. \A j \in Slots : /\ mem[Addr(j)] \subseteq mem'[Addr(j)]
                       /\ j = slot => Magic \in mem'[Addr(j)]
                       /\ j # slot /\ Magic \in mem'[Addr(j)] => Magic \in mem[Addr(j)]
  BY ProgramEffect
<1>3. CASE Damaged
  <2>1. PICK i \in Slots : mem[Addr(i)] \notin {Erased, {Magic}}
    BY <1>3 DEF Damaged
  <2>2. PICK x \in mem[Addr(i)] : x # Magic
    BY <2>1 DEF Erased
  <2>3. mem'[Addr(i)] \notin {Erased, {Magic}}
    BY <1>2, <2>2 DEF Erased
  <2>4. Damaged'
    BY <2>3 DEF Damaged
  <2> QED BY <1>1, <2>4
<1>4. CASE ~Damaged /\ ~Damaged'
  <2>1. \A j \in Slots : /\ mem[Addr(j)] = Erased \/ mem[Addr(j)] = {Magic}
                         /\ mem'[Addr(j)] = Erased \/ mem'[Addr(j)] = {Magic}
    BY <1>4 DEF Damaged
  <2>2. \A j \in Slots : HasMagic(j)' <=> HasMagic(j) \/ j = slot
    BY <1>2, <2>1 DEF HasMagic, Erased
  <2>3. /\ Begun \in 0 .. MaxEntries /\ slot = Begun
        /\ \A i \in Slots : HasMagic(i) <=> i < Begun
    BY <1>4 DEF FilledInOrder
  <2>4. Begun + 1 \in 0 .. MaxEntries
    BY <2>3, SlotCount DEF Slots
  <2>5. \A i \in Slots : HasMagic(i)' <=> i < Begun + 1
    BY <2>2, <2>3, SlotCount DEF Slots
  <2> QED BY <1>1, <2>4, <2>5 DEF FilledInOrder
<1>5. CASE Damaged'
  BY <1>1, <1>5
<1> QED BY <1>3, <1>4, <1>5

LEMMA LogInit == Init => LogInv
<1> SUFFICES ASSUME Init PROVE LogInv
  OBVIOUS
<1>1. DOMAIN mem = Sector /\ pc = "running" /\ slot = 0 /\ Begun = 0 /\ RecordsType
  BY NoRecords DEF Init, RecordsType
<1>2. \A i \in Slots : mem[Addr(i)] = Erased
  BY SlotPlace DEF Init
<1>3. 0 \in Slots /\ 0 \in 0 .. MaxEntries /\ \A i \in Slots : ~(i < 0)
  BY SlotCount DEF Slots
<1>4. \A i \in Slots : ~HasMagic(i)
  BY <1>2 DEF HasMagic, Erased
<1> QED BY <1>1, <1>3, <1>4 DEF LogInv, FilledInOrder

LEMMA LogNext == LogInv /\ [Next]_vars => LogInv'
<1> SUFFICES ASSUME LogInv, [Next]_vars PROVE LogInv'
  OBVIOUS
<1> USE DEF LogInv
<1>1. ASSUME UNCHANGED <<mem, slot, crash, records>>, pc' \in {"running", "reset"}
      PROVE  LogInv'
  BY <1>1 DEF Damaged, FilledInOrder, HasMagic, Begun, RecordsType
<1>2. ASSUME mem' = EraseSector(mem, CrashAddr), records' = <<>>, crash' = crash,
             slot' \in Slots, pc' \in {"running", "write"}, pc' = "write" => slot' = 0
      PROVE  LogInv'
  <2>1. \A i \in Slots : mem'[Addr(i)] = Erased
    BY <1>2, EraseFrees
  <2>2. \A i \in Slots : ~HasMagic(i)' /\ ~(i < 0)
    BY <2>1, SlotCount DEF HasMagic, Erased, Slots
  <2>3. DOMAIN mem' = Sector /\ 0 \in 0 .. MaxEntries /\ Begun' = 0 /\ RecordsType'
    BY <1>2, SlotCount, NoRecordsOn DEF EraseSector, RecordsType
  <2> QED BY <1>2, <2>2, <2>3 DEF FilledInOrder
<1>3. CASE HardFault
  <2>1. mem' = mem /\ Begun' = Begun /\ RecordsType'
    BY <1>3 DEF HardFault, Begun, RecordsType
  <2>2. ASSUME NEW i \in FreeSlots, \A j \in FreeSlots : i <= j, slot' = i, pc' = "write"
        PROVE  LogInv'
    <3>1. i \in Slots /\ i \in Nat /\ ~HasMagic(i)
      BY SlotCount DEF FreeSlots, Slots
    <3>2. ASSUME FilledInOrder PROVE i = Begun
      <4>1. Begun <= i /\ Begun \in Nat
        BY <3>1, <3>2, SlotCount DEF FilledInOrder
      <4>2. Begun \in Slots
        BY <3>1, <4>1, SlotCount DEF Slots
      <4>3. Begun \in FreeSlots
        BY <3>2, <4>1, <4>2 DEF FreeSlots, FilledInOrder
      <4> QED BY <2>2, <3>1, <4>1, <4>3
    <3>3. FilledInOrder => FilledInOrder'
      BY <2>1, <2>2, <3>2 DEF FilledInOrder, HasMagic
    <3>4. Damaged => Damaged'
      BY <2>1 DEF Damaged
    <3> QED BY <2>1, <2>2, <3>1, <3>3, <3>4
  <2>3. ASSUME FreeSlots = {}, slot' = 0, pc' = "erase" PROVE LogInv'
    <3>1. 0 \in Slots /\ FreeSlots' = {}
      BY <2>1, <2>3, SlotCount DEF Slots, FreeSlots, HasMagic
    <3>2. (FilledInOrder => FilledInOrder') /\ (Damaged => Damaged')
      BY <2>1, <2>3 DEF FilledInOrder, HasMagic, Damaged
    <3> QED BY <2>1, <2>3, <3>1, <3>2
  <2> QED BY <1>3, <2>2, <2>3 DEF HardFault
<1>4. CASE EraseFull
  BY <1>2, <1>4 DEF EraseFull
<1>5. CASE WriteEntry
  <2>1. EntryWords \in 1 .. EntryWords
    BY LogSizes
  <2> QED BY <1>5, <2>1, WriteFills DEF WriteEntry
<1>6. CASE ResetInHandler
  <2>1. CASE UNCHANGED <<mem, records>>
    BY <1>1, <1>6, <2>1 DEF ResetInHandler
  <2>2. CASE Cut
    <3>1. PICK n \in 1 .. EntryWords - 1 :
            /\ mem' = Program(mem, Addr(slot), SubSeq(EntryOf(crash), 1, n))
            /\ records' = Append(records, Record(n))
      BY <2>2 DEF Cut
    <3>2. n \in 1 .. EntryWords
      BY LogSizes
    <3> QED BY <1>6, <2>2, <3>1, <3>2, WriteFills DEF Cut, ResetInHandler
  <2> QED BY <1>6, <2>1, <2>2 DEF ResetInHandler
<1>7. CASE SystemReset
  BY <1>1, <1>7 DEF SystemReset
<1>8. CASE Clear
  BY <1>2, <1>8 DEF Clear
<1>9. CASE UNCHANGED vars
  BY <1>9 DEF vars, Damaged, FilledInOrder, FreeSlots, HasMagic, Begun, RecordsType
<1> QED BY <1>3, <1>4, <1>5, <1>6, <1>7, <1>8, <1>9 DEF Next

\* A step of the crash log, or none, is all that a step of the report does to it.
LEMMA LogStep == [ReportNext]_reportVars => [Next]_vars
BY DEF ReportNext, reportVars, PrintReason, DumpLog, Fault, Handler, Cleared, HandlerResets,
       FaultUnrecorded, OtherReset, Next

\* write() erases the history only when every slot holds an entry, for entries that
\* cross pages, too (CrashLog::write, crash_log.hpp:48).
THEOREM ErasedWhenFull == ReportSpec => []ErasedOnlyWhenFull
<1>1. LogInv => ErasedOnlyWhenFull
  <2> SUFFICES ASSUME LogInv, pc = "erase" PROVE Begun = MaxEntries
    BY DEF ErasedOnlyWhenFull, Begun
  <2>1. \A i \in Slots : HasMagic(i)
    BY DEF LogInv, FreeSlots
  <2>2. FilledInOrder
    BY <2>1 DEF LogInv, Damaged, HasMagic
  <2>3. MaxEntries - 1 \in Slots
    BY SlotCount DEF Slots
  <2> QED BY <2>1, <2>2, <2>3, SlotCount DEF FilledInOrder
<1>2. ReportInit => LogInv
  BY LogInit DEF ReportInit
<1>3. LogInv /\ [ReportNext]_reportVars => LogInv'
  BY LogNext, LogStep
<1> QED BY <1>1, <1>2, <1>3, PTL DEF ReportSpec

-----------------------------------------------------------------------------
(***************************************************************************)
(* What a boot dumps.                                                      *)
(***************************************************************************)

\* Slot i holds the first n words of an entry for crash c, and nothing else.
SlotHolds(i, c, n) ==
  \A k \in 0 .. EntryWords - 1 :
    mem[Addr(i) + k] = IF k < n THEN {EntryOf(c)[k + 1]} ELSE Erased

\* Each slot written holds its record, as far as it was received, the others nothing.
Recorded ==
  /\ Begun <= MaxEntries
  /\ \A i \in Slots : i < Begun => SlotHolds(i, records[i + 1].crash, records[i + 1].words)
  /\ \A i \in Slots : i >= Begun => SlotHolds(i, 0, 0)

DumpInv ==
  /\ DOMAIN mem = Sector
  /\ RecordsType
  /\ AllInPage => Recorded

LEMMA EntryWord ==
  ASSUME NEW c, NEW k \in 0 .. EntryWords - 1
  PROVE  EntryOf(c)[k + 1] = IF k = 0 THEN Magic ELSE <<c, k + 1>>
<1>1. k + 1 \in 1 .. EntryWords /\ (k + 1 = 1 <=> k = 0)
  BY LogSizes
<1> QED BY <1>1 DEF EntryOf

\* The words of two slots are apart, and all in the sector.
LEMMA SlotWords ==
  ASSUME NEW i \in Slots, NEW k \in 0 .. EntryWords - 1
  PROVE  /\ Addr(i) + k \in Sector
         /\ \A j \in Slots, l \in 0 .. EntryWords - 1 : Addr(i) + k = Addr(j) + l => i = j /\ k = l
<1>1. i \in Nat /\ k \in Nat /\ k < EntryWords /\ EntryWords \in Nat
  BY SlotCount, LogSizes DEF Slots
<1>2. ASSUME NEW m \in Nat, NEW n \in Nat, m < n
      PROVE  /\ m * EntryWords \in Nat /\ n * EntryWords \in Nat
             /\ m * EntryWords + EntryWords <= n * EntryWords
  <2>1. (m + 1) * EntryWords <= n * EntryWords
    BY <1>1, <1>2, Times
  <2>2. /\ (m + 1) * EntryWords = m * EntryWords + EntryWords /\ m * EntryWords \in Nat
        /\ n * EntryWords \in Nat
    BY <1>1, Z3
  <2> QED BY <2>1, <2>2
<1>3. Addr(i) + k \in Sector
  <2> DEFINE n == MaxEntries
             r == (SectorWords - 1) % EntryWords
  <2>1. n \in Nat /\ r \in Nat /\ SectorWords - 1 = n * EntryWords + r
    BY LogSizes, Division DEF MaxEntries
  <2>2. i < n
    BY <1>1, SlotCount DEF Slots
  <2> HIDE DEF n, r
  <2>3. /\ i * EntryWords \in Nat /\ n * EntryWords \in Nat
        /\ i * EntryWords + EntryWords <= n * EntryWords
    BY <1>1, <1>2, <2>1, <2>2
  <2> QED BY <1>1, <2>1, <2>3, LogSizes DEF Sector, Addr, DataOffset
<1>4. ASSUME NEW j \in Slots, NEW l \in 0 .. EntryWords - 1, Addr(i) + k = Addr(j) + l
      PROVE  i = j /\ k = l
  <2>1. j \in Nat /\ l \in Nat /\ l < EntryWords
    BY <1>1, SlotCount DEF Slots
  <2>2. i * EntryWords \in Nat /\ j * EntryWords \in Nat
    BY <1>1, <2>1, Z3
  <2>3. i * EntryWords + k = j * EntryWords + l
    BY <1>1, <1>4, <2>1, <2>2, LogSizes DEF Addr, DataOffset
  <2>4. ~(i < j)
    BY <1>1, <1>2, <2>1, <2>2, <2>3
  <2>5. ~(j < i)
    BY <1>1, <1>2, <2>1, <2>2, <2>3
  <2>6. i = j
    BY <1>1, <2>1, <2>4, <2>5
  <2> QED BY <1>1, <2>1, <2>2, <2>3, <2>6
<1> QED BY <1>3, <1>4

\* What dump() reads from a slot is its record, as far as it was received.
LEMMA SlotReads ==
  ASSUME NEW i \in Slots, NEW record, SlotHolds(i, record.crash, record.words),
         record.words \in Nat
  PROVE  Read(mem, Addr(i), EntryWords) = AsFarAsReceived(record)
<1>1. ASSUME NEW x \in 1 .. EntryWords
      PROVE  mem[Addr(i) + x - 1] = IF x <= record.words THEN {EntryOf(record.crash)[x]} ELSE Erased
  <2>1. /\ x - 1 \in 0 .. EntryWords - 1 /\ Addr(i) + (x - 1) = Addr(i) + x - 1
        /\ (x - 1) + 1 = x /\ (x - 1 < record.words <=> x <= record.words)
    BY SlotPlace, LogSizes
  <2>2. mem[Addr(i) + (x - 1)] =
          IF x - 1 < record.words THEN {EntryOf(record.crash)[(x - 1) + 1]} ELSE Erased
    BY <2>1 DEF SlotHolds
  <2> QED BY <2>1, <2>2, Zenon
<1> QED BY <1>1, Zenon DEF Read, AsFarAsReceived

\* While the slots are in their pages, those written and no others hold a magic.
LEMMA RecordedMagic ==
  ASSUME Recorded, RecordsType, NEW i \in Slots
  PROVE  /\ HasMagic(i) <=> i < Begun
         /\ mem[Addr(i)] \in {Erased, {Magic}}
<1>1. 0 \in 0 .. EntryWords - 1 /\ Addr(i) + 0 = Addr(i) /\ i \in Nat /\ Begun \in Nat
  BY LogSizes, SlotPlace, SlotCount DEF Slots, RecordsType, Begun
<1>2. CASE i < Begun
  <2>1. PICK n \in 1 .. EntryWords : \E c : SlotHolds(i, c, n)
    <3>1. i + 1 \in 1 .. Len(records)
      BY <1>1, <1>2 DEF Begun
    <3>2. records[i + 1].words \in 1 .. EntryWords
      BY <3>1, RecordWords
    <3>3. SlotHolds(i, records[i + 1].crash, records[i + 1].words)
      BY <1>2 DEF Recorded
    <3> QED BY <3>2, <3>3
  <2>2. 0 < n
    BY LogSizes
  <2>3. mem[Addr(i)] = {Magic}
    <3>1. PICK c : SlotHolds(i, c, n)
      BY <2>1
    <3>2. mem[Addr(i) + 0] = {EntryOf(c)[0 + 1]}
      BY <1>1, <2>2, <3>1 DEF SlotHolds
    <3> QED BY <1>1, <3>2, EntryWord
  <2> QED BY <1>2, <2>3 DEF HasMagic
<1>3. CASE i >= Begun
  <2>1. mem[Addr(i)] = Erased
    <3>1. SlotHolds(i, 0, 0) /\ ~(0 < 0)
      BY <1>3 DEF Recorded
    <3>2. mem[Addr(i) + 0] = Erased
      BY <1>1, <3>1 DEF SlotHolds
    <3> QED BY <1>1, <3>2
  <2> QED BY <1>1, <1>3, <2>1 DEF HasMagic, Erased
<1> QED BY <1>1, <1>2, <1>3

\* A program that stays in its page goes where it is sent.
LEMMA NoWrap ==
  ASSUME NEW i \in Slots, InPage(i), NEW k \in 0 .. EntryWords - 1
  PROVE  Target(Addr(i), k) = Addr(i) + k
<1> DEFINE a == Addr(i)
           r == a % PageWords
<1>1. a \in Nat /\ r \in Nat /\ r < PageWords
  BY SlotPlace, LogSizes, Division
<1>2. r + EntryWords <= PageWords
  BY DEF InPage
<1> HIDE DEF a, r
<1>3. k \in Nat /\ r + k \in 0 .. PageWords - 1
  BY <1>1, <1>2, LogSizes
<1>4. (r + k) % PageWords = r + k
  <2> DEFINE x == r + k
  <2>1. x \in 0 .. PageWords - 1 /\ x \in Int
    BY <1>3, LogSizes
  <2> HIDE DEF x
  <2>2. ((0 * PageWords) + x) % PageWords = x /\ (0 * PageWords) + x = x
    BY <2>1, LogSizes, ModUnique
  <2> QED BY <2>2 DEF x
<1> QED BY <1>1, <1>3, <1>4 DEF Target, r, a

\* A write that stays in its page, whole or cut short, is recorded in its slot alone.
LEMMA SlotWritten ==
  ASSUME Recorded, AllInPage', DumpInv, NEW n \in 1 .. EntryWords,
         NEW words,
         words = SubSeq(EntryOf(crash), 1, n) \/ (words = EntryOf(crash) /\ n = EntryWords),
         slot = Begun, slot \in Slots,
         mem' = Program(mem, Addr(slot), words), crash' = crash,
         records' = Append(records, Record(n))
  PROVE  Recorded'
<1> PICK s, c : s = Begun /\ c = crash
  OBVIOUS
<1>1. /\ s \in Slots /\ InPage(s) /\ s \in Nat /\ Begun' = s + 1 /\ DOMAIN mem = Sector
      /\ records'[s + 1] = Record(n) /\ \A i \in 1 .. s : records'[i] = records[i]
  <2>1. /\ Begun' = s + 1 /\ s \in Nat
        /\ records'[s + 1] = Record(n) /\ \A i \in 1 .. s : records'[i] = records[i]
    BY OneMore DEF DumpInv
  <2>2. s \in 0 .. Len(records') - 1
    BY <2>1 DEF Begun
  <2>3. s \in GoodSlots
    BY <2>2 DEF AllInPage, GoodSlots, InPage
  <2>4. s \in Slots /\ InPage(s)
    <3>1. s \in Slots /\ \A j \in 0 .. s : InPage(j)
      BY <2>3 DEF GoodSlots
    <3>2. s \in 0 .. s
      BY <2>1
    <3> QED BY <3>1, <3>2
  <2> QED BY <2>1, <2>4 DEF DumpInv
<1>2. n \in Nat /\ n <= EntryWords /\ EntryWords \in Nat
  BY LogSizes
<1>3. Len(words) = n /\ n <= PageWords /\ \A k \in 1 .. n : words[k] = EntryOf(c)[k]
  <2> DEFINE entry == EntryOf(c)
  <2>1. entry = [k \in 1 .. EntryWords |-> entry[k]]
    BY DEF EntryOf
  <2> HIDE DEF entry
  <2>2. entry \in Seq({entry[k] : k \in 1 .. EntryWords}) /\ Len(entry) = EntryWords
    BY <1>2, <2>1
  <2>3. CASE words = entry /\ n = EntryWords
    BY <1>2, <2>2, <2>3, LogSizes
  <2>4. CASE words = SubSeq(entry, 1, n)
    BY <1>2, <2>2, <2>4, LogSizes
  <2> QED BY <2>3, <2>4 DEF entry
<1>4. ASSUME NEW i \in Slots, NEW k \in 0 .. EntryWords - 1
      PROVE  mem'[Addr(i) + k] = mem[Addr(i) + k] \cup
                                   (IF i = s /\ k < n THEN {EntryOf(c)[k + 1]} ELSE {})
  <2> DEFINE a == Addr(i) + k
             here == {l \in 0 .. n - 1 : Target(Addr(s), l) = a}
  <2>1. mem'[a] = mem[a] \cup {words[l + 1] : l \in here}
    <3>1. (IF Len(words) > PageWords THEN PageWords ELSE Len(words)) = n
      BY <1>2, <1>3, LogSizes
    <3>2. a \in DOMAIN mem
      BY <1>1, SlotWords
    <3>3. mem' = Program(mem, Addr(s), words)
      OBVIOUS
    <3> HIDE DEF a
    <3> QED BY <3>1, <3>2, <3>3, Zenon DEF Program
  <2>2. ASSUME NEW l \in 0 .. n - 1
        PROVE  Target(Addr(s), l) = a <=> i = s /\ l = k
    <3>1. l \in 0 .. EntryWords - 1
      BY <1>2
    <3>2. Target(Addr(s), l) = Addr(s) + l
      BY <1>1, <3>1, NoWrap
    <3> QED BY <1>1, <3>1, <3>2, SlotWords
  <2>3. CASE i = s /\ k < n
    <3>1. here = {k} /\ k + 1 \in 1 .. n
      BY <1>2, <2>2, <2>3
    <3> HIDE DEF here
    <3> QED BY <1>3, <2>1, <2>3, <3>1
  <2>4. CASE ~(i = s /\ k < n)
    <3>1. here = {}
      BY <1>2, <2>2, <2>4
    <3> HIDE DEF here
    <3> QED BY <2>1, <2>4, <3>1
  <2> HIDE DEF here
  <2> QED BY <2>3, <2>4
<1>5. SlotHolds(s, c, n)'
  <2>1. ASSUME NEW k \in 0 .. EntryWords - 1
        PROVE  mem'[Addr(s) + k] = IF k < n THEN {EntryOf(c)[k + 1]} ELSE Erased
    <3>1. mem[Addr(s) + k] = Erased
      <4>1. SlotHolds(s, 0, 0) /\ ~(k < 0)
        BY <1>1 DEF Recorded
      <4> QED BY <4>1 DEF SlotHolds
    <3> QED BY <1>1, <1>4, <3>1 DEF Erased
  <2> QED BY <2>1 DEF SlotHolds
<1>6. ASSUME NEW i \in Slots, i # s
      PROVE  \A k \in 0 .. EntryWords - 1 : mem'[Addr(i) + k] = mem[Addr(i) + k]
  <2> SUFFICES ASSUME NEW k \in 0 .. EntryWords - 1 PROVE mem'[Addr(i) + k] = mem[Addr(i) + k]
    OBVIOUS
  <2>1. mem'[Addr(i) + k] = mem[Addr(i) + k] \cup {}
    BY <1>4, <1>6
  <2> QED BY <2>1
<1>7. s + 1 <= MaxEntries
  BY <1>1, SlotCount DEF Slots
<1>8. ASSUME NEW i \in Slots, i < s + 1
      PROVE  SlotHolds(i, records[i + 1].crash, records[i + 1].words)'
  <2>1. CASE i = s
    <3>1. records'[i + 1].crash = c /\ records'[i + 1].words = n
      <4>1. records'[i + 1] = [crash |-> c, words |-> n]
        BY <1>1, <2>1 DEF Record
      <4> QED BY <4>1
    <3> QED BY <1>5, <2>1, <3>1 DEF SlotHolds
  <2>2. CASE i # s
    <3>1. i < Begun /\ i + 1 \in 1 .. s
      BY <1>1, <1>8, <2>2, SlotCount DEF Slots
    <3>2. records'[i + 1] = records[i + 1]
      BY <1>1, <3>1
    <3>3. SlotHolds(i, records[i + 1].crash, records[i + 1].words)
      BY <3>1 DEF Recorded
    <3> QED BY <1>6, <2>2, <3>2, <3>3 DEF SlotHolds
  <2> QED BY <2>1, <2>2
<1>9. ASSUME NEW i \in Slots, i >= s + 1 PROVE SlotHolds(i, 0, 0)'
  <2>1. i # s /\ i >= Begun
    BY <1>1, <1>9, SlotCount DEF Slots
  <2> QED BY <1>6, <2>1 DEF Recorded, SlotHolds
<1> QED BY <1>1, <1>7, <1>8, <1>9 DEF Recorded

LEMMA DumpInit == Init => DumpInv
<1> SUFFICES ASSUME Init PROVE DumpInv
  OBVIOUS
<1>1. DOMAIN mem = Sector /\ RecordsType /\ Begun = 0
  BY NoRecords DEF Init, RecordsType
<1>2. \A i \in Slots : SlotHolds(i, 0, 0)
  BY SlotWords DEF Init, SlotHolds
<1>3. 0 <= MaxEntries /\ \A i \in Slots : ~(i < 0)
  BY SlotCount DEF Slots
<1> QED BY <1>1, <1>2, <1>3 DEF DumpInv, Recorded

\* Steps that leave the flash and what is recorded as they were, or erase the sector.
LEMMA DumpKept ==
  ASSUME DumpInv, UNCHANGED <<mem, records>>, crash' \in {crash, crash + 1}
  PROVE  DumpInv'
<1>1. DOMAIN mem' = Sector /\ RecordsType'
  BY DEF DumpInv, RecordsType
<1>2. AllInPage' <=> AllInPage
  BY DEF AllInPage, GoodSlots, InPage
<1>3. Recorded => Recorded'
  BY DEF Recorded, Begun, SlotHolds
<1> QED BY <1>1, <1>2, <1>3 DEF DumpInv

\* The sector's addresses are one sector of the flash.
LEMMA SectorQuotient ==
  ASSUME NEW a \in Sector
  PROVE  a \div SectorWords = CrashAddr \div SectorWords
<1> DEFINE c == CrashAddr \div SectorWords
<1>1. c \in Nat /\ CrashAddr = c * SectorWords + 0
  BY LogSizes, Division
<1> HIDE DEF c
<1>2. c * SectorWords \in Nat /\ (c + 1) * SectorWords = c * SectorWords + SectorWords
  BY <1>1, LogSizes, Z3
<1>3. a \in Nat /\ c * SectorWords <= a /\ a < (c + 1) * SectorWords
  BY <1>1, <1>2, LogSizes DEF Sector
<1>4. a \div SectorWords = c
  BY <1>1, <1>3, LogSizes, Quotient
<1> QED BY <1>4 DEF c

LEMMA DumpErased ==
  ASSUME DumpInv, mem' = EraseSector(mem, CrashAddr), records' = <<>>, crash' = crash
  PROVE  DumpInv'
<1> USE DEF DumpInv
<1>1. DOMAIN mem' = Sector /\ RecordsType' /\ Begun' = 0
  BY NoRecordsOn DEF EraseSector, RecordsType
<1>2. ASSUME NEW i \in Slots PROVE SlotHolds(i, 0, 0)'
  <2>1. ASSUME NEW k \in 0 .. EntryWords - 1 PROVE mem'[Addr(i) + k] = Erased
    <3> DEFINE a == Addr(i) + k
    <3>1. a \in Sector
      BY SlotWords
    <3>2. a \div SectorWords = CrashAddr \div SectorWords
      BY <3>1, SectorQuotient
    <3> HIDE DEF a
    <3>3. mem'[a] = Erased
      BY <3>1, <3>2 DEF EraseSector
    <3> QED BY <3>3 DEF a
  <2> QED BY <2>1 DEF SlotHolds
<1>3. 0 <= MaxEntries /\ \A i \in Slots : ~(i < 0)
  BY SlotCount DEF Slots
<1> QED BY <1>1, <1>2, <1>3 DEF Recorded

LEMMA DumpWritten ==
  ASSUME LogInv, DumpInv, pc = "write", NEW n \in 1 .. EntryWords,
         NEW words,
         words = SubSeq(EntryOf(crash), 1, n) \/ (words = EntryOf(crash) /\ n = EntryWords),
         mem' = Program(mem, Addr(slot), words), crash' = crash,
         records' = Append(records, Record(n))
  PROVE  DumpInv'
<1>1. /\ DOMAIN mem' = Sector /\ RecordsType' /\ Begun' = Begun + 1
      /\ Begun \in Nat
  BY OneMore DEF DumpInv, Program
<1>2. ASSUME AllInPage' PROVE Recorded'
  <2>1. AllInPage
    <3>1. \A i \in 0 .. Len(records) - 1 : i \in 0 .. Len(records') - 1
      BY <1>1 DEF Begun
    <3> QED BY <1>2, <3>1 DEF AllInPage, GoodSlots, InPage
  <2>2. Recorded
    BY <2>1 DEF DumpInv
  <2>3. ~Damaged
    BY <2>2, RecordedMagic DEF Damaged, DumpInv
  <2>4. slot = Begun /\ slot \in Slots
    BY <2>3 DEF LogInv, FilledInOrder
  <2> QED BY <1>2, <2>2, <2>4, SlotWritten
<1> QED BY <1>1, <1>2 DEF DumpInv

LEMMA DumpNext == LogInv /\ DumpInv /\ [Next]_vars => DumpInv'
<1> SUFFICES ASSUME LogInv, DumpInv, [Next]_vars PROVE DumpInv'
  OBVIOUS
<1>1. CASE HardFault
  BY <1>1, DumpKept DEF HardFault
<1>2. CASE EraseFull
  BY <1>2, DumpErased DEF EraseFull
<1>3. CASE WriteEntry
  <2>1. EntryWords \in 1 .. EntryWords
    BY LogSizes
  <2> QED BY <1>3, <2>1, DumpWritten DEF WriteEntry
<1>4. CASE ResetInHandler
  <2>1. CASE UNCHANGED <<mem, records>>
    BY <1>4, <2>1, DumpKept DEF ResetInHandler
  <2>2. CASE Cut
    <3>1. PICK n \in 1 .. EntryWords - 1 :
            /\ mem' = Program(mem, Addr(slot), SubSeq(EntryOf(crash), 1, n))
            /\ records' = Append(records, Record(n))
      BY <2>2 DEF Cut
    <3>2. n \in 1 .. EntryWords
      BY LogSizes
    <3> QED BY <1>4, <2>2, <3>1, <3>2, DumpWritten DEF Cut, ResetInHandler
  <2> QED BY <1>4, <2>1, <2>2 DEF ResetInHandler
<1>5. CASE SystemReset
  BY <1>5, DumpKept DEF SystemReset
<1>6. CASE Clear
  BY <1>6, DumpErased DEF Clear
<1>7. CASE UNCHANGED vars
  BY <1>7, DumpKept DEF vars, DumpInv
<1> QED BY <1>1, <1>2, <1>3, <1>4, <1>5, <1>6, <1>7 DEF Next

\* While the slots are in their pages, a dump shows what is recorded.
LEMMA DumpedIsRecorded ==
  ASSUME DumpInv, AllInPage
  PROVE  Dumped = [i \in 1 .. Len(records) |-> AsFarAsReceived(records[i])]
<1>1. Recorded /\ Begun \in Nat /\ Begun <= MaxEntries /\ RecordsType
  BY DEF DumpInv, Recorded, RecordsType, Begun
<1>2. \A i \in Slots : i \in FreeSlots <=> i >= Begun
  BY <1>1, RecordedMagic, SlotCount DEF FreeSlots, Slots
<1>3. DumpCount = Begun
  <2>1. CASE Begun = MaxEntries
    <3>1. FreeSlots = {}
      BY <1>2, <2>1, SlotCount DEF FreeSlots, Slots
    <3> QED BY <2>1, <3>1 DEF DumpCount
  <2>2. CASE Begun < MaxEntries
    <3>1. Begun \in FreeSlots /\ \A j \in FreeSlots : Begun <= j
      BY <1>1, <1>2, <2>2, SlotCount DEF FreeSlots, Slots
    <3>2. \A i \in FreeSlots : (\A j \in FreeSlots : i <= j) => i = Begun
      <4>1. \A i \in FreeSlots : i \in Nat
        BY SlotCount DEF FreeSlots, Slots
      <4> QED BY <1>1, <3>1, <4>1
    <3> QED BY <3>1, <3>2 DEF DumpCount
  <2> QED BY <1>1, <2>1, <2>2, SlotCount
<1>4. ASSUME NEW i \in 1 .. Begun
      PROVE  Read(mem, Addr(i - 1), EntryWords) = AsFarAsReceived(records[i])
  <2>1. i - 1 \in Slots /\ i - 1 < Begun /\ (i - 1) + 1 = i
    BY <1>1, SlotCount DEF Slots
  <2>2. records[i].words \in Nat
    BY <1>1, RecordWords DEF Begun
  <2>3. SlotHolds(i - 1, records[i].crash, records[i].words)
    <3>1. SlotHolds(i - 1, records[(i - 1) + 1].crash, records[(i - 1) + 1].words)
      BY <1>1, <2>1 DEF Recorded
    <3> QED BY <2>1, <3>1
  <2> QED BY <2>1, <2>2, <2>3, SlotReads
<1> QED BY <1>3, <1>4 DEF Dumped, Begun

LEMMA BothInit == ReportInit => LogInv /\ DumpInv
BY LogInit, DumpInit DEF ReportInit

LEMMA BothNext == LogInv /\ DumpInv /\ [ReportNext]_reportVars => (LogInv /\ DumpInv)'
BY LogNext, DumpNext, LogStep

\* Until the slots that fit in their pages are used up, a boot dumps one entry for each
\* record begun since the sector was erased, in the order of the crashes: the whole ones
\* undamaged, and of those that a reset cut short just what had reached the flash
\* (CrashLog::write and dump, crash_log.hpp:58 and 66).
THEOREM EarlyCrashesDumped == ReportSpec => []EarlyCrashesAreDumped
<1>1. DumpInv => EarlyCrashesAreDumped
  BY DumpedIsRecorded DEF EarlyCrashesAreDumped
<1> QED BY <1>1, BothInit, BothNext, PTL DEF ReportSpec

\* A crash whose handler has come to its reset is the last recorded, whole, and nothing is
\* recorded before the dump that answers it; tasks, and so faults, come after the dump.
AnswerDue ==
  /\ pc = "reset" \/ (shown = NoDump /\ "hardFault" \in resets) =>
       records # <<>> /\ records[Len(records)] = Record(EntryWords)
  /\ shown = NoDump => pc = "running"
  /\ shown # NoDump => bootPc = "run"
  /\ RecordsType

LEMMA AnswerInit == ReportInit => AnswerDue
BY DEF ReportInit, Init, Why!Init, AnswerDue, RecordsType

LEMMA AnswerNext == AnswerDue /\ [ReportNext]_reportVars => AnswerDue'
<1> SUFFICES ASSUME AnswerDue, [ReportNext]_reportVars PROVE AnswerDue'
  OBVIOUS
<1> USE DEF AnswerDue, RecordsType, Record
<1>1. CASE PrintReason
  BY <1>1 DEF PrintReason, Why!Read, Why!Clear, Why!Report, vars
<1>2. CASE DumpLog
  BY <1>2 DEF DumpLog, vars, boot
<1>3. CASE Fault
  BY <1>3 DEF Fault, Started, HardFault, boot
<1>4. CASE Handler
  <2>1. shown # NoDump /\ UNCHANGED <<boot, shown>> /\ crash' = crash
    BY <1>4 DEF Handler, EraseFull, WriteEntry
  <2>2. CASE EraseFull
    BY <2>1, <2>2 DEF EraseFull, boot
  <2>3. CASE WriteEntry
    <3>1. EntryWords \in 1 .. EntryWords /\ records' = Append(records, Record(EntryWords))
      BY <2>3, LogSizes DEF WriteEntry
    <3>2. /\ records' \in Seq([crash : Nat, words : 1 .. EntryWords]) /\ records' # <<>>
          /\ records'[Len(records')] = Record(EntryWords)
      BY <3>1
    <3> QED BY <2>1, <3>2 DEF boot
  <2> QED BY <1>4, <2>2, <2>3 DEF Handler
<1>5. CASE Cleared
  BY <1>5 DEF Cleared, Started, Clear, boot
<1>6. CASE HandlerResets
  BY <1>6 DEF HandlerResets, SystemReset, Why!Reset
<1>7. CASE FaultUnrecorded
  BY <1>7 DEF FaultUnrecorded, Started, Why!Reset, vars
<1>8. ASSUME NEW r \in Why!Resets \ {"hardFault", "earlyFault"}, OtherReset(r) PROVE AnswerDue'
  <2>1. pc' = "running" /\ crash' = crash /\ shown' = NoDump
    BY <1>8 DEF OtherReset, ResetInHandler, vars
  <2>2. "hardFault" \in resets' => "hardFault" \in resets /\ bootPc \notin {"decide", "run"}
    BY <1>8 DEF OtherReset, Why!Reset
  <2>3. "hardFault" \in resets' => shown = NoDump
    BY <2>2
  <2>4. shown = NoDump => records' = records
    BY <1>8 DEF OtherReset, ResetInHandler, vars
  <2>5. RecordsType'
    <3>1. CASE records' = records
      BY <2>1, <3>1
    <3>2. CASE Cut
      <4>1. PICK n \in 1 .. EntryWords - 1 : records' = Append(records, Record(n))
        BY <3>2 DEF Cut
      <4>2. n \in 1 .. EntryWords
        BY LogSizes
      <4> QED BY <2>1, <4>1, <4>2
    <3> QED BY <1>8, <3>1, <3>2 DEF OtherReset, ResetInHandler, vars
  <2> QED BY <2>1, <2>2, <2>3, <2>4, <2>5
<1>9. CASE UNCHANGED reportVars
  BY <1>9 DEF reportVars, vars, boot
<1> QED BY <1>1, <1>2, <1>3, <1>4, <1>5, <1>6, <1>7, <1>8, <1>9 DEF ReportNext

\* A handler that ran to its end is answered by the next dump: its crash is the last one
\* shown, whole, also when more resets come before the dump and when the log was full, as long as
\* the slots are in their pages (HardFault_Handle, fault_handler.hpp, and main()).
THEOREM FaultShown == ReportSpec => FaultIsShown
<1>1. AnswerDue /\ DumpInv /\ [ReportNext]_reportVars =>
        [/\ shown = NoDump /\ shown' # NoDump
         /\ "hardFault" \in resets
         /\ AllInPage
         => shown' # <<>> /\ shown'[Len(shown')] = CellsOf(EntryOf(crash))]_reportVars
  <2> SUFFICES ASSUME AnswerDue, DumpInv, ReportNext, shown = NoDump, shown' # NoDump,
                      "hardFault" \in resets, AllInPage
               PROVE  shown' # <<>> /\ shown'[Len(shown')] = CellsOf(EntryOf(crash))
    BY Zenon
  <2>1. DumpLog
    BY DEF ReportNext, PrintReason, DumpLog, Fault, Handler, Cleared, HandlerResets,
           FaultUnrecorded, OtherReset
  <2>2. shown' = [i \in 1 .. Len(records) |-> AsFarAsReceived(records[i])]
    BY <2>1, DumpedIsRecorded DEF DumpLog
  <2>3. Len(records) \in Nat /\ Len(records) > 0 /\ records[Len(records)] = Record(EntryWords)
    BY DEF AnswerDue, RecordsType
  <2>4. AsFarAsReceived(Record(EntryWords)) = CellsOf(EntryOf(crash))
    <3>1. DOMAIN EntryOf(crash) = 1 .. EntryWords /\ \A k \in 1 .. EntryWords : k <= EntryWords
      BY LogSizes DEF EntryOf
    <3>2. Record(EntryWords).crash = crash /\ Record(EntryWords).words = EntryWords
      BY DEF Record
    <3> QED BY <3>1, <3>2 DEF AsFarAsReceived, CellsOf
  <2>5. Len(shown') = Len(records) /\ shown' # <<>>
    BY <2>2, <2>3
  <2> QED BY <2>2, <2>3, <2>4, <2>5
<1>2. AnswerDue /\ [ReportNext]_reportVars => AnswerDue'
  BY AnswerNext
<1> QED BY <1>1, <1>2, AnswerInit, BothInit, BothNext, PTL DEF ReportSpec, FaultIsShown

=============================================================================
