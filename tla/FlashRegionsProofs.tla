------------------------- MODULE FlashRegionsProofs -------------------------
(***************************************************************************)
(* Proofs about FlashRegions, for any size of pages, sectors and records   *)
(* and any places of the regions: the three users of the flash keep out of *)
(* each other's way, so each is what it would be in a flash of its own.    *)
(* Of the recorder it is shown that its log reads back and when it stops,  *)
(* of the configuration that it is stored and loaded whole.                *)
(***************************************************************************)
EXTENDS FlashRegions, Arithmetic

-----------------------------------------------------------------------------
(***************************************************************************)
(* Pages lie within sectors.                                               *)
(***************************************************************************)

\* A greater address is in no earlier sector.
LEMMA SectorsAscend ==
  ASSUME NEW m \in Nat, NEW n \in Nat, m <= n
  PROVE  m \div SectorWords <= n \div SectorWords
<1> DEFINE p == m \div SectorWords
           q == n \div SectorWords
<1>1. SectorWords \in Nat /\ 0 < SectorWords
  BY FlashAssumption
<1>2. /\ p \in Nat /\ m % SectorWords \in Nat /\ m = p * SectorWords + (m % SectorWords)
      /\ q \in Nat /\ n % SectorWords < SectorWords /\ n % SectorWords \in Nat
      /\ n = q * SectorWords + (n % SectorWords)
  BY <1>1, Division
<1>3. (q + 1) * SectorWords = q * SectorWords + SectorWords
  BY <1>1, <1>2, Z3
<1>4. p * SectorWords \in Nat /\ q * SectorWords \in Nat
  BY <1>1, <1>2, Z3
<1> HIDE DEF p, q
<1>5. ~ q < p
  <2> SUFFICES ASSUME q < p PROVE FALSE
    OBVIOUS
  <2>1. (q + 1) * SectorWords <= p * SectorWords
    BY <1>1, <1>2, Times
  <2> QED BY <1>1, <1>2, <1>3, <1>4, <2>1
<1> QED BY <1>2, <1>5 DEF p, q

\* Where a page program puts a word is in the sector it was given.
LEMMA TargetInSector ==
  ASSUME NEW addr \in Nat, NEW i \in Nat
  PROVE  Target(addr, i) \in Nat /\ Target(addr, i) \div SectorWords = addr \div SectorWords
<1> DEFINE q == addr \div PageWords
           k == SectorWords \div PageWords
           s == addr \div SectorWords
           r == ((addr % PageWords) + i) % PageWords
<1>1. /\ SectorWords \in Nat /\ 0 < SectorWords
      /\ PageWords \in Nat /\ 0 < PageWords /\ SectorWords % PageWords = 0
  BY FlashAssumption
<1>2. /\ q \in Nat /\ addr % PageWords \in Nat
      /\ addr % PageWords < PageWords /\ addr = q * PageWords + (addr % PageWords)
  BY <1>1, Division
<1>3. r \in Nat /\ r < PageWords
  BY <1>1, <1>2, Division
<1>4. k \in Nat /\ SectorWords = k * PageWords
  <2>1. k \in Nat /\ SectorWords = k * PageWords + (SectorWords % PageWords)
    BY <1>1, Division
  <2> HIDE DEF k
  <2>2. k * PageWords \in Nat
    BY <1>1, <2>1, Z3
  <2> QED BY <1>1, <2>1, <2>2
<1>5. /\ s \in Nat /\ addr % SectorWords \in Nat
      /\ addr % SectorWords < SectorWords /\ addr = s * SectorWords + (addr % SectorWords)
  BY <1>1, Division
<1>6. Target(addr, i) = q * PageWords + r
  <2> HIDE DEF q, r
  <2>1. q * PageWords \in Nat
    BY <1>1, <1>2, Z3
  <2>2. addr - (addr % PageWords) = q * PageWords
    BY <1>2, <2>1
  <2> QED BY <2>2 DEF Target, r
<1> HIDE DEF q, k, s, r
<1>7. /\ q * PageWords \in Nat /\ s * SectorWords \in Nat /\ s * k \in Nat /\ (s + 1) * k \in Nat
      /\ s * SectorWords = (s * k) * PageWords
      /\ (s + 1) * SectorWords = s * SectorWords + SectorWords
      /\ (s + 1) * SectorWords = ((s + 1) * k) * PageWords
      /\ (q + 1) * PageWords = q * PageWords + PageWords
  BY <1>1, <1>2, <1>4, <1>5, Z3
<1>8. s * k <= q
  <2> SUFFICES ASSUME q + 1 <= s * k PROVE FALSE
    BY <1>2, <1>7
  <2>1. (q + 1) * PageWords <= (s * k) * PageWords
    BY <1>1, <1>2, <1>7, Times
  <2> QED BY <1>1, <1>2, <1>5, <1>7, <2>1
<1>9. q + 1 <= (s + 1) * k
  <2> SUFFICES ASSUME (s + 1) * k <= q PROVE FALSE
    BY <1>2, <1>7
  <2>1. ((s + 1) * k) * PageWords <= q * PageWords
    BY <1>1, <1>2, <1>7, Times
  <2> QED BY <1>1, <1>2, <1>5, <1>7, <2>1
<1>10. s * SectorWords <= q * PageWords /\ (q + 1) * PageWords <= (s + 1) * SectorWords
  <2>1. (s * k) * PageWords <= q * PageWords
    BY <1>1, <1>2, <1>7, <1>8, Times
  <2>2. (q + 1) * PageWords <= ((s + 1) * k) * PageWords
    BY <1>1, <1>2, <1>7, <1>9, Times
  <2> QED BY <1>7, <2>1, <2>2
<1>11. /\ Target(addr, i) \in Nat
       /\ s * SectorWords <= Target(addr, i) /\ Target(addr, i) < (s + 1) * SectorWords
  BY <1>1, <1>2, <1>3, <1>5, <1>6, <1>7, <1>10
<1> QED BY <1>1, <1>5, <1>11, Quotient DEF s


\* A page program changes nothing outside the sector it was given.
LEMMA ProgramStaysInSector ==
  ASSUME NEW flash, NEW addr \in Nat, NEW words, Len(words) \in Nat,
         NEW a \in DOMAIN flash, a \in Nat, a \div SectorWords # addr \div SectorWords
  PROVE  Program(flash, addr, words)[a] = flash[a]
<1> DEFINE len == IF Len(words) > PageWords THEN PageWords ELSE Len(words)
           here == {j \in 0 .. len - 1 : Target(addr, j) = a}
<1>1. len \in Nat
  BY FlashAssumption
<1>2. here = {}
  <2> SUFFICES ASSUME NEW j \in here PROVE FALSE
    OBVIOUS
  <2>1. j \in Nat /\ Target(addr, j) = a
    BY <1>1
  <2> QED BY <2>1, TargetInSector
<1>3. Program(flash, addr, words)[a] = flash[a] \cup {words[i + 1] : i \in here}
  BY DEF Program
<1> HIDE DEF here
<1> QED BY <1>2, <1>3

-----------------------------------------------------------------------------
(***************************************************************************)
(* The regions are apart.                                                  *)
(***************************************************************************)

LEMMA Sizes ==
  /\ SectorWords \in Nat /\ PageWords \in Nat /\ 0 < SectorWords /\ 0 < PageWords
  /\ CrashAddr \in Nat /\ CrashAddr % SectorWords = 0 /\ SectorWords <= CrashAddr
  /\ BlackboxAddr \in Nat /\ BlackboxAddr % SectorWords = 0
  /\ CrashAddr + SectorWords <= BlackboxAddr
  /\ FlashSizeEnd \in Nat /\ BlackboxAddr < FlashSizeEnd
  /\ ConfigWords \in Nat /\ 2 < ConfigWords /\ ConfigWords <= PageWords
  /\ CrashWords \in Nat /\ 0 < CrashWords /\ CrashWords < SectorWords
  /\ LogWords \in Nat /\ 0 < LogWords
BY FlashAssumption, RegionsAssumption
   DEF Config!ConfigStoreAssumption, Crash!CrashLogAssumption, Recorder!BlackboxAssumption

\* The crash log's addresses are in its sector, in no other region's.
LEMMA CrashSector ==
  ASSUME NEW a \in Crash!Sector
  PROVE  a \in Nat /\ a < BlackboxAddr /\ SectorWords <= a
         /\ a \div SectorWords = CrashAddr \div SectorWords
<1> DEFINE c == CrashAddr \div SectorWords
<1>1. c \in Nat /\ CrashAddr = c * SectorWords + (CrashAddr % SectorWords)
  BY Sizes, Division
<1>2. a \in Nat /\ CrashAddr <= a /\ a < CrashAddr + SectorWords
  BY Sizes DEF Crash!Sector
<1> HIDE DEF c
<1>3. c * SectorWords \in Nat /\ (c + 1) * SectorWords = c * SectorWords + SectorWords
  BY <1>1, Sizes, Z3
<1>4. CrashAddr = c * SectorWords
  BY <1>1, <1>3, Sizes
<1>5. a \div SectorWords = c
  BY <1>1, <1>2, <1>3, <1>4, Sizes, Quotient
<1> QED BY <1>2, <1>5, Sizes DEF c

\* The configuration's sector is the first, and not the crash log's.
LEMMA ConfigSector ==
  /\ \A a \in 0 .. SectorWords - 1 : a \div SectorWords = 0
  /\ 0 \div SectorWords = 0
  /\ \A a \in Nat : SectorWords <= a => a \div SectorWords # 0
<1>1. ASSUME NEW a \in 0 .. SectorWords - 1 PROVE a \div SectorWords = 0
  <2>1. 0 * SectorWords = 0 /\ (0 + 1) * SectorWords = SectorWords
    BY Sizes
  <2> QED BY <2>1, Sizes, Quotient
<1>2. 0 \in 0 .. SectorWords - 1
  BY Sizes
<1>3. ASSUME NEW a \in Nat, SectorWords <= a PROVE a \div SectorWords # 0
  <2> SUFFICES ASSUME a \div SectorWords = 0 PROVE FALSE
    OBVIOUS
  <2>1. a = (a \div SectorWords) * SectorWords + (a % SectorWords) /\ a % SectorWords < SectorWords
        /\ a % SectorWords \in Nat
    BY Sizes, Division
  <2>2. (a \div SectorWords) * SectorWords = 0
    BY Sizes
  <2> QED BY <1>3, <2>1, <2>2, Sizes
<1> QED BY <1>1, <1>2, <1>3

\* The recorder's sectors begin at BlackboxAddr.
LEMMA RecorderSectors ==
  ASSUME NEW a \in Nat, NEW b \in Nat, a < BlackboxAddr, BlackboxAddr <= b
  PROVE  a \div SectorWords # b \div SectorWords
<1> DEFINE k == BlackboxAddr \div SectorWords
           q == a \div SectorWords
<1>1. k \in Nat /\ BlackboxAddr = k * SectorWords + (BlackboxAddr % SectorWords)
  BY Sizes, Division
<1>2. q \in Nat /\ a = q * SectorWords + (a % SectorWords) /\ a % SectorWords \in Nat
  BY Sizes, Division
<1>3. k <= b \div SectorWords
  BY Sizes, SectorsAscend
<1> HIDE DEF k, q
<1>4. k * SectorWords \in Nat /\ q * SectorWords \in Nat
  BY <1>1, <1>2, Sizes, Z3
<1>5. ~ k <= q
  <2> SUFFICES ASSUME k <= q PROVE FALSE
    OBVIOUS
  <2>1. k * SectorWords <= q * SectorWords
    BY <1>1, <1>2, Sizes, Times
  <2> QED BY <1>1, <1>2, <1>4, <2>1, Sizes
<1> QED BY <1>1, <1>2, <1>3, <1>5, Sizes, Division DEF q

-----------------------------------------------------------------------------
(***************************************************************************)
(* Each writes in its own region.                                          *)
(***************************************************************************)

\* The crash log's slot and the recorder's address are in their regions.
Placed ==
  /\ DOMAIN mem = 0 .. FlashSizeEnd - 1
  /\ slot \in Crash!Slots
  /\ writeAddr \in Nat /\ BlackboxAddr <= writeAddr

\* What a component does with the flash.
ConfigWrites == Config!EraseConfig \/ Config!ProgramConfig \/ Config!Cut
CrashWrites == Crash!EraseFull \/ Crash!WriteEntry \/ Crash!Cut
RecorderWrites ==
  Recorder!Start \/ Recorder!EraseNewSector \/ Recorder!ProgramEntry \/ Recorder!Cut

LEMMA SlotAddress ==
  ASSUME NEW i \in Crash!Slots
  PROVE  Crash!Addr(i) \in Crash!Sector
<1> DEFINE n == Crash!MaxEntries
<1>1. /\ n \in Nat /\ (SectorWords - 1) % CrashWords \in Nat
      /\ SectorWords - 1 = n * CrashWords + ((SectorWords - 1) % CrashWords)
  BY Sizes, Division DEF Crash!MaxEntries
<1>2. i \in Nat /\ i + 1 <= n
  BY <1>1 DEF Crash!Slots
<1> HIDE DEF n
<1>3. (i + 1) * CrashWords <= n * CrashWords
  BY <1>1, <1>2, Sizes, Times
<1>4. /\ i * CrashWords \in Nat /\ n * CrashWords \in Nat
      /\ (i + 1) * CrashWords = i * CrashWords + CrashWords
  BY <1>1, <1>2, Sizes, Z3
<1> QED BY <1>1, <1>3, <1>4, Sizes DEF Crash!Addr, Crash!DataOffset, Crash!Sector

LEMMA FirstSlot == 0 \in Crash!Slots
<1> DEFINE n == Crash!MaxEntries
<1>1. /\ n \in Nat /\ (SectorWords - 1) % CrashWords < CrashWords
      /\ SectorWords - 1 = n * CrashWords + ((SectorWords - 1) % CrashWords)
      /\ (SectorWords - 1) % CrashWords \in Nat
  BY Sizes, Division DEF Crash!MaxEntries
<1> HIDE DEF n
<1>2. n # 0
  <2> SUFFICES ASSUME n = 0 PROVE FALSE
    OBVIOUS
  <2>1. n * CrashWords = 0
    BY Sizes
  <2> QED BY <1>1, <2>1, Sizes
<1> QED BY <1>1, <1>2 DEF Crash!Slots, n

LEMMA AlignedAhead ==
  ASSUME NEW addr \in Nat
  PROVE  Recorder!AlignToPage(addr) \in Nat /\ addr <= Recorder!AlignToPage(addr)
<1> DEFINE q == addr \div PageWords
<1>1. /\ q \in Nat /\ addr % PageWords \in Nat /\ addr % PageWords < PageWords
      /\ addr = q * PageWords + (addr % PageWords)
  BY Sizes, Division
<1>2. q * PageWords \in Nat /\ (q + 1) * PageWords = q * PageWords + PageWords
  BY <1>1, Sizes, Z3
<1>3. Recorder!AlignToPage(addr) \in {(q + 1) * PageWords, addr}
  BY DEF Recorder!AlignToPage
<1> HIDE DEF q
<1> QED BY <1>1, <1>2, <1>3, Sizes

\* All use the same driver.
LEMMA SameDriver ==
  /\ \A f, addr : /\ Config!EraseSector(f, addr) = EraseSector(f, addr)
                  /\ Crash!EraseSector(f, addr) = EraseSector(f, addr)
                  /\ Recorder!EraseSector(f, addr) = EraseSector(f, addr)
  /\ \A f, addr, words : /\ Config!Program(f, addr, words) = Program(f, addr, words)
                         /\ Crash!Program(f, addr, words) = Program(f, addr, words)
                         /\ Recorder!Program(f, addr, words) = Program(f, addr, words)
BY DEF EraseSector, Config!EraseSector, Crash!EraseSector, Recorder!EraseSector,
       Erased, Config!Erased, Crash!Erased, Recorder!Erased,
       Program, Config!Program, Crash!Program, Recorder!Program,
       Target, Config!Target, Crash!Target, Recorder!Target

\* An erase and a page program keep the addresses of the flash.
LEMMA SameDomain ==
  /\ \A addr : DOMAIN EraseSector(mem, addr) = DOMAIN mem
  /\ \A addr, words : DOMAIN Program(mem, addr, words) = DOMAIN mem
BY DEF EraseSector, Program

LEMMA ConfigLocal ==
  ASSUME Placed, ConfigWrites
  PROVE  /\ DOMAIN mem' = DOMAIN mem
         /\ \A a \in DOMAIN mem : SectorWords <= a => mem'[a] = mem[a]
<1>1. \A a \in DOMAIN mem : SectorWords <= a => a \in Nat /\ a \div SectorWords # 0 \div SectorWords
  BY ConfigSector, Sizes DEF Placed
<1>2. Len(Config!Record(cfg)) = ConfigWords
  BY Sizes DEF Config!Record
<1>3. \A a \in DOMAIN mem :
        SectorWords <= a => Program(mem, 0, Config!Record(cfg))[a] = mem[a]
  BY <1>1, <1>2, ProgramStaysInSector, Sizes
<1>4. CASE Config!EraseConfig
  BY <1>1, <1>4, SameDriver DEF Config!EraseConfig, EraseSector
<1>5. CASE Config!ProgramConfig
  BY <1>3, <1>5, SameDomain, SameDriver DEF Config!ProgramConfig
<1>6. CASE Config!Cut
  BY <1>3, <1>6, SameDriver DEF Config!Cut
<1> QED BY <1>4, <1>5, <1>6 DEF ConfigWrites

LEMMA CrashLocal ==
  ASSUME Placed, CrashWrites
  PROVE  /\ DOMAIN mem' = DOMAIN mem
         /\ \A a \in DOMAIN mem : a \notin Crash!Sector => mem'[a] = mem[a]
<1> DEFINE c == CrashAddr \div SectorWords
           entry == Crash!EntryOf(crash)
<1>1. ASSUME NEW a \in DOMAIN mem, a \notin Crash!Sector
      PROVE  a \in Nat /\ a \div SectorWords # c
  <2>1. a \in Nat /\ (a < CrashAddr \/ CrashAddr + SectorWords <= a)
    BY <1>1, Sizes DEF Placed, Crash!Sector
  <2> SUFFICES ASSUME a \div SectorWords = c PROVE FALSE
    BY <2>1
  <2>2. /\ c \in Nat /\ CrashAddr = c * SectorWords + 0
        /\ a % SectorWords \in Nat /\ a % SectorWords < SectorWords
        /\ a = c * SectorWords + (a % SectorWords)
    BY <2>1, Sizes, Division
  <2> HIDE DEF c
  <2>3. c * SectorWords \in Nat
    BY <2>2, Sizes, Z3
  <2> QED BY <2>1, <2>2, <2>3, Sizes
<1>2. Crash!Addr(slot) \in Nat /\ Crash!Addr(slot) \div SectorWords = c
  BY SlotAddress, CrashSector DEF Placed
<1>3. Len(entry) = CrashWords
  BY Sizes DEF Crash!EntryOf
<1>4. \A n \in 1 .. CrashWords - 1 : Len(SubSeq(entry, 1, n)) \in Nat
  BY <1>3, Sizes DEF Crash!EntryOf
<1> HIDE DEF c, entry
<1>5. CASE Crash!EraseFull
  BY <1>1, <1>5, SameDriver DEF Crash!EraseFull, EraseSector, c
<1>6. CASE Crash!WriteEntry
  BY <1>1, <1>2, <1>3, <1>6, SameDomain, SameDriver, ProgramStaysInSector, Sizes
     DEF Crash!WriteEntry, entry
<1>7. CASE Crash!Cut
  <2> PICK n \in 1 .. CrashWords - 1 : mem' = Program(mem, Crash!Addr(slot), SubSeq(entry, 1, n))
    BY <1>7, SameDriver DEF Crash!Cut, entry
  <2> QED BY <1>1, <1>2, <1>4, SameDomain, ProgramStaysInSector
<1> QED BY <1>5, <1>6, <1>7 DEF CrashWrites

LEMMA RecorderLocal ==
  ASSUME Placed, RecorderWrites
  PROVE  /\ DOMAIN mem' = DOMAIN mem
         /\ \A a \in DOMAIN mem : a < BlackboxAddr => mem'[a] = mem[a]
<1> DEFINE entry == Recorder!EntryOf(boot, entryCount)
<1>1. \A a \in DOMAIN mem : a < BlackboxAddr =>
        /\ a \in Nat
        /\ a \div SectorWords # BlackboxAddr \div SectorWords
        /\ a \div SectorWords # writeAddr \div SectorWords
  BY RecorderSectors, Sizes DEF Placed
<1>2. Len(entry) = LogWords
  BY Sizes DEF Recorder!EntryOf
<1>3. \A n \in 1 .. LogWords : Len(SubSeq(entry, 1, n)) \in Nat
  BY <1>2, Sizes DEF Recorder!EntryOf
<1> HIDE DEF entry
<1>4. CASE Recorder!Start
  BY <1>1, <1>4, SameDriver DEF Recorder!Start, EraseSector
<1>5. CASE Recorder!EraseNewSector
  BY <1>1, <1>5, SameDriver DEF Recorder!EraseNewSector, EraseSector
<1>6. CASE Recorder!ProgramEntry
  BY <1>1, <1>2, <1>6, SameDomain, SameDriver, ProgramStaysInSector, Sizes
     DEF Recorder!ProgramEntry, entry, Placed
<1>7. CASE Recorder!Cut
  <2> PICK n \in 1 .. LogWords : mem' = Program(mem, writeAddr, SubSeq(entry, 1, n))
    BY <1>7, SameDriver DEF Recorder!Cut, entry
  <2> QED BY <1>1, <1>3, SameDomain, ProgramStaysInSector DEF Placed
<1> QED BY <1>4, <1>5, <1>6, <1>7 DEF RecorderWrites

LEMMA PlacedInit == Init => Placed
BY FirstSlot, Sizes DEF Init, Placed

LEMMA PlacedNext == Placed /\ [Next]_vars => Placed'
<1> SUFFICES ASSUME Placed, [Next]_vars PROVE Placed'
  OBVIOUS
<1> USE DEF Placed
<1>1. CASE Configure
  <2>1. UNCHANGED <<slot, writeAddr>>
    BY <1>1 DEF Configure, crashVars, recorderVars
  <2>2. UNCHANGED mem \/ ConfigWrites
    BY <1>1 DEF Configure, ConfigWrites, Config!Load, Config!Save, Config!Verify
  <2> QED BY <2>1, <2>2, ConfigLocal
<1>2. CASE Record
  <2>1. UNCHANGED slot
    BY <1>2 DEF Record, crashVars
  <2>2. UNCHANGED mem \/ RecorderWrites
    BY <1>2 DEF Record, RecorderWrites, Recorder!WriteEntry
  <2>3. writeAddr' \in {writeAddr, Recorder!AlignToPage(writeAddr), writeAddr + LogWords}
    BY <1>2 DEF Record, Recorder!Start, Recorder!WriteEntry, Recorder!EraseNewSector,
                Recorder!ProgramEntry
  <2>4. writeAddr' \in Nat /\ BlackboxAddr <= writeAddr'
    BY <2>3, AlignedAhead, Sizes
  <2> QED BY <2>1, <2>2, <2>4, RecorderLocal
<1>3. CASE HandleFault
  <2>1. UNCHANGED writeAddr
    BY <1>3 DEF HandleFault, recorderVars
  <2>2. UNCHANGED mem \/ CrashWrites
    BY <1>3 DEF HandleFault, CrashWrites, Crash!HardFault
  <2>3. slot' \in Crash!Slots
    BY <1>3, FirstSlot DEF HandleFault, Crash!HardFault, Crash!EraseFull, Crash!WriteEntry,
                           Crash!FreeSlots
  <2> QED BY <2>1, <2>2, <2>3, CrashLocal
<1>4. CASE Reset
  <2>1. writeAddr' = BlackboxAddr
    BY <1>4 DEF Reset, Recorder!Restart
  <2>2. UNCHANGED slot
    BY <1>4 DEF Reset, crashVars, Crash!SystemReset, Crash!ResetInHandler
  <2>3. UNCHANGED mem \/ ConfigWrites \/ CrashWrites \/ RecorderWrites
    BY <1>4 DEF Reset, Crash!SystemReset, Crash!ResetInHandler, ConfigWrites, CrashWrites,
                RecorderWrites
  <2> QED BY <2>1, <2>2, <2>3, ConfigLocal, CrashLocal, RecorderLocal, Sizes
<1>5. CASE UNCHANGED vars
  BY <1>5 DEF vars, crashVars, recorderVars
<1> QED BY <1>1, <1>2, <1>3, <1>4, <1>5 DEF Next

-----------------------------------------------------------------------------
(***************************************************************************)
(* The configuration in a flash of its own.                                *)
(***************************************************************************)

LEMMA PageNotLonger == PageWords <= SectorWords
<1> DEFINE k == SectorWords \div PageWords
<1>1. k \in Nat /\ SectorWords = k * PageWords + (SectorWords % PageWords)
  BY Sizes, Division
<1> HIDE DEF k
<1>2. SectorWords = k * PageWords + 0
  BY <1>1, FlashAssumption
<1>3. k # 0
  <2> SUFFICES ASSUME k = 0 PROVE FALSE
    OBVIOUS
  <2>1. k * PageWords = 0
    BY Sizes
  <2> QED BY <1>2, <2>1, Sizes
<1>4. 1 * PageWords <= k * PageWords /\ 1 * PageWords = PageWords /\ k * PageWords \in Nat
  BY <1>1, <1>3, Sizes, Times, Z3
<1> QED BY <1>2, <1>4, Sizes

\* The sector of the configuration.
ConfigMem == [a \in 0 .. SectorWords - 1 |-> mem[a]]

LEMMA ConfigMemSame ==
  ASSUME Placed, DOMAIN mem' = DOMAIN mem,
         \A a \in DOMAIN mem : a < SectorWords => mem'[a] = mem[a]
  PROVE  ConfigMem' = ConfigMem
<1>1. \A a \in 0 .. SectorWords - 1 : a \in DOMAIN mem /\ a < SectorWords
  BY Sizes DEF Placed
<1> QED BY <1>1 DEF ConfigMem

LEMMA ConfigReadsSame == ConfigAlone!Stored = Config!Stored
<1>1. \A i \in 1 .. ConfigWords : 0 + i - 1 \in 0 .. SectorWords - 1
  BY Sizes, PageNotLonger
<1> QED BY <1>1 DEF ConfigAlone!Stored, Config!Stored, ConfigAlone!Read, Config!Read

LEMMA ConfigInit == Init => ConfigAlone!Init
<1> SUFFICES ASSUME Init PROVE ConfigAlone!Init
  OBVIOUS
<1>1. \A a \in 0 .. SectorWords - 1 : a \in 0 .. FlashSizeEnd - 1
  BY Sizes
<1>2. [a \in 0 .. SectorWords - 1 |-> mem[a]] = [a \in 0 .. SectorWords - 1 |-> {}]
  BY <1>1 DEF Init, Erased
<1> QED BY <1>2 DEF Init, ConfigAlone!Init, ConfigAlone!Erased, Config!Defaults,
                    ConfigAlone!Defaults, Config!CellsOf, ConfigAlone!CellsOf, Config!Record,
                    ConfigAlone!Record, Config!Magic, ConfigAlone!Magic

\* Every step is one of the configuration's, or none.
LEMMA ConfigStep ==
  ASSUME Placed, [Next]_vars
  PROVE  [ConfigAlone!Next]_(ConfigAlone!vars)
<1>1. ASSUME UNCHANGED configVars, ConfigMem' = ConfigMem
      PROVE  UNCHANGED ConfigAlone!vars
  BY <1>1 DEF configVars, ConfigMem, ConfigAlone!vars
<1>2. \A a \in DOMAIN mem : a < SectorWords => a \notin Crash!Sector /\ a < BlackboxAddr
  BY CrashSector, Sizes DEF Placed
<1>3. \A a \in 0 .. SectorWords - 1 : a \in DOMAIN mem
  BY Sizes DEF Placed
<1>4. ASSUME UNCHANGED mem \/ CrashWrites \/ RecorderWrites PROVE ConfigMem' = ConfigMem
  BY <1>2, <1>4, ConfigMemSame, CrashLocal, RecorderLocal
<1>5. \A c : ConfigAlone!Record(c) = Config!Record(c)
  BY DEF Config!Record, ConfigAlone!Record, Config!Magic, ConfigAlone!Magic
<1>6. \A words : ConfigAlone!CellsOf(words) = Config!CellsOf(words)
  BY DEF ConfigAlone!CellsOf, Config!CellsOf
<1>7. ConfigAlone!Accepted(Config!Stored) = Config!Accepted(Config!Stored)
  BY <1>5, <1>6 DEF ConfigAlone!Accepted, Config!Accepted
<1>8. ConfigAlone!Defaults = Config!Defaults
  BY <1>5, <1>6 DEF ConfigAlone!Defaults, Config!Defaults
<1>9. ConfigAlone!Verified = Config!Verified
  BY ConfigReadsSame DEF ConfigAlone!Verified, Config!Verified, ConfigAlone!CrcOf, Config!CrcOf,
     ConfigAlone!MagicOf, Config!MagicOf, ConfigAlone!Magic, Config!Magic
<1>10. ASSUME NEW words
       PROVE  \A a \in 0 .. SectorWords - 1 :
                /\ ConfigAlone!Program(ConfigMem, 0, words)[a] = Program(mem, 0, words)[a]
                /\ ConfigAlone!EraseSector(ConfigMem, 0)[a] = EraseSector(mem, 0)[a]
  BY <1>3 DEF ConfigMem, Program, ConfigAlone!Program, Target, ConfigAlone!Target, EraseSector,
              ConfigAlone!EraseSector, Erased, ConfigAlone!Erased
<1>11. \A words : /\ ConfigAlone!Program(ConfigMem, 0, words) =
                       [a \in 0 .. SectorWords - 1 |-> Program(mem, 0, words)[a]]
                  /\ ConfigAlone!EraseSector(ConfigMem, 0) =
                       [a \in 0 .. SectorWords - 1 |-> EraseSector(mem, 0)[a]]
  BY <1>10 DEF ConfigMem, ConfigAlone!Program, ConfigAlone!EraseSector
<1>12. CASE Configure
  <2>1. CASE Config!Load
    <3>1. ConfigMem' = ConfigMem
      BY <2>1, <1>4 DEF Config!Load
    <3> QED BY <2>1, <3>1, <1>7, <1>8, ConfigReadsSame
            DEF Config!Load, ConfigAlone!Load, ConfigAlone!Next, ConfigMem
  <2>2. CASE Config!Save
    BY <2>2 DEF Config!Save, ConfigAlone!Save, ConfigAlone!Next
  <2>3. CASE Config!EraseConfig
    BY <2>3, <1>11, SameDriver
       DEF Config!EraseConfig, ConfigAlone!EraseConfig, ConfigAlone!Next, ConfigMem
  <2>4. CASE Config!ProgramConfig
    BY <2>4, <1>5, <1>11, SameDriver
       DEF Config!ProgramConfig, ConfigAlone!ProgramConfig, ConfigAlone!Next, ConfigMem
  <2>5. CASE Config!Verify
    BY <2>5, <1>5, <1>6, <1>9 DEF Config!Verify, ConfigAlone!Verify, ConfigAlone!Next
  <2> QED BY <1>12, <2>1, <2>2, <2>3, <2>4, <2>5 DEF Configure
<1>13. CASE Record
  BY <1>1, <1>4, <1>13 DEF Record, RecorderWrites, Recorder!WriteEntry
<1>14. CASE HandleFault
  BY <1>1, <1>4, <1>14 DEF HandleFault, CrashWrites, Crash!HardFault
<1>15. CASE Reset
  <2>1. configPc' = "boot" /\ UNCHANGED <<cfg, config, stored, torn>>
    BY <1>15 DEF Reset, Config!Restart
  <2>2. CASE Config!Cut
    <3>1. PICK kept \in SUBSET (1 .. ConfigWords) :
            /\ configPc = "program"
            /\ mem' = [a \in DOMAIN mem |->
                         IF a + 1 \in kept THEN Program(mem, 0, Config!Record(cfg))[a] ELSE mem[a]]
      BY <2>2, SameDriver DEF Config!Cut
    <3>2. ConfigMem' =
            [a \in 0 .. SectorWords - 1 |->
               IF a + 1 \in kept THEN Program(mem, 0, Config!Record(cfg))[a] ELSE mem[a]]
      BY <1>3, <3>1 DEF ConfigMem
    <3>3. \A a \in 0 .. SectorWords - 1 :
            ConfigAlone!Program(ConfigMem, 0, ConfigAlone!Record(cfg))[a] =
              Program(mem, 0, Config!Record(cfg))[a]
      BY <1>5, <1>10
    <3>4. DOMAIN ConfigMem = 0 .. SectorWords - 1
          /\ \A a \in 0 .. SectorWords - 1 : ConfigMem[a] = mem[a]
      BY DEF ConfigMem
    <3>5. ConfigMem' =
            [a \in DOMAIN ConfigMem |->
               IF a + 1 \in kept
                 THEN ConfigAlone!Program(ConfigMem, 0, ConfigAlone!Record(cfg))[a]
                 ELSE ConfigMem[a]]
      BY <3>2, <3>3, <3>4
    <3>6. ConfigAlone!Cut
      BY <3>1, <3>5 DEF ConfigAlone!Cut, ConfigMem
    <3> QED BY <2>1, <3>1, <3>6 DEF ConfigAlone!Reset, ConfigAlone!Restart, ConfigAlone!Next
  <2>3. CASE ~Config!Cut
    <3>1. ConfigMem' = ConfigMem
      BY <1>4, <1>15, <2>3 DEF Reset, Crash!SystemReset, Crash!ResetInHandler, CrashWrites,
                               RecorderWrites
    <3> QED BY <2>1, <3>1 DEF ConfigAlone!Reset, ConfigAlone!Restart, ConfigAlone!Next,
                              ConfigAlone!vars, ConfigMem
  <2> QED BY <2>2, <2>3
<1>16. CASE UNCHANGED vars
  BY <1>1, <1>4, <1>16 DEF vars
<1> QED BY <1>12, <1>13, <1>14, <1>15, <1>16 DEF Next

-----------------------------------------------------------------------------
(***************************************************************************)
(* The crash log in a flash of its own.                                    *)
(***************************************************************************)

\* The sector of the crash log.
CrashMem == [a \in Crash!Sector |-> mem[a]]

LEMMA CrashSectorInFlash == Placed => Crash!Sector \subseteq DOMAIN mem
BY CrashSector, Sizes DEF Placed

LEMMA CrashMemSame ==
  ASSUME Placed, DOMAIN mem' = DOMAIN mem,
         \A a \in DOMAIN mem : a \in Crash!Sector => mem'[a] = mem[a]
  PROVE  CrashMem' = CrashMem
BY CrashSectorInFlash DEF CrashMem

\* The definitions that do not look at the flash are the same in both.
LEMMA CrashDefinitions ==
  /\ CrashAlone!Sector = Crash!Sector /\ CrashAlone!Slots = Crash!Slots
  /\ CrashAlone!MaxEntries = Crash!MaxEntries
  /\ \A i : CrashAlone!Addr(i) = Crash!Addr(i)
  /\ \A c : CrashAlone!EntryOf(c) = Crash!EntryOf(c)
  /\ \A n : CrashAlone!Record(n) = Crash!Record(n)
BY DEF CrashAlone!Sector, Crash!Sector, CrashAlone!Slots, Crash!Slots, CrashAlone!MaxEntries,
       Crash!MaxEntries, CrashAlone!Addr, Crash!Addr, CrashAlone!DataOffset, Crash!DataOffset,
       CrashAlone!EntryOf, Crash!EntryOf, CrashAlone!Magic, Crash!Magic,
       CrashAlone!Record, Crash!Record

LEMMA CrashInit == Init => CrashAlone!Init
<1> SUFFICES ASSUME Init PROVE CrashAlone!Init
  OBVIOUS
<1>1. \A a \in Crash!Sector : a \in 0 .. FlashSizeEnd - 1
  BY CrashSector, Sizes
<1>2. [a \in Crash!Sector |-> mem[a]] = [a \in Crash!Sector |-> {}]
  BY <1>1 DEF Init, Erased
<1> QED BY <1>2, CrashDefinitions DEF Init, CrashAlone!Init, CrashAlone!Erased

LEMMA CrashStep ==
  ASSUME Placed, [Next]_vars
  PROVE  [CrashAlone!Next]_(CrashAlone!vars)
<1>1. ASSUME UNCHANGED crashVars, CrashMem' = CrashMem
      PROVE  UNCHANGED CrashAlone!vars
  BY <1>1 DEF crashVars, CrashMem, CrashAlone!vars
<1>2. \A a \in DOMAIN mem : a \in Crash!Sector => SectorWords <= a /\ a < BlackboxAddr
  BY CrashSector
<1>3. ASSUME UNCHANGED mem \/ ConfigWrites \/ RecorderWrites PROVE CrashMem' = CrashMem
  BY <1>2, <1>3, CrashMemSame, ConfigLocal, RecorderLocal
<1>4. CrashAlone!FreeSlots = Crash!FreeSlots
  <2>1. \A i \in Crash!Slots : CrashAlone!HasMagic(i) = Crash!HasMagic(i)
    BY SlotAddress, CrashDefinitions
       DEF CrashAlone!HasMagic, Crash!HasMagic, CrashAlone!Magic, Crash!Magic
  <2> QED BY <2>1, CrashDefinitions DEF CrashAlone!FreeSlots, Crash!FreeSlots
<1>5. DOMAIN CrashMem = Crash!Sector
      /\ \A a \in Crash!Sector : a \in DOMAIN mem /\ CrashMem[a] = mem[a]
  BY CrashSectorInFlash DEF CrashMem
<1>6. ASSUME NEW addr, NEW words
      PROVE  /\ CrashAlone!Program(CrashMem, addr, words) =
                  [a \in Crash!Sector |-> Program(mem, addr, words)[a]]
             /\ CrashAlone!EraseSector(CrashMem, addr) =
                  [a \in Crash!Sector |-> EraseSector(mem, addr)[a]]
  BY <1>5 DEF Program, CrashAlone!Program, Target, CrashAlone!Target, EraseSector,
     CrashAlone!EraseSector, Erased, CrashAlone!Erased
<1>7. ASSUME Crash!HardFault PROVE CrashAlone!HardFault
  <2>1. CrashMem' = CrashMem
    BY <1>3, <1>7 DEF Crash!HardFault
  <2> QED BY <1>4, <1>7, <2>1 DEF Crash!HardFault, CrashAlone!HardFault, CrashMem
<1>8. ASSUME Crash!EraseFull PROVE CrashAlone!EraseFull
  BY <1>6, <1>8, SameDriver DEF Crash!EraseFull, CrashAlone!EraseFull, CrashMem
<1>9. ASSUME Crash!WriteEntry PROVE CrashAlone!WriteEntry
  <2>1. mem' = Program(mem, Crash!Addr(slot), Crash!EntryOf(crash))
    BY <1>9, SameDriver DEF Crash!WriteEntry
  <2>2. CrashMem' = [a \in Crash!Sector |-> mem'[a]]
    BY DEF CrashMem
  <2>3. CrashMem' = CrashAlone!Program(CrashMem, Crash!Addr(slot), Crash!EntryOf(crash))
    BY <1>6, <2>1, <2>2
  <2>4. CrashMem' = CrashAlone!Program(CrashMem, CrashAlone!Addr(slot), CrashAlone!EntryOf(crash))
    BY <2>3, CrashDefinitions
  <2>5. records' = Append(records, CrashAlone!Record(CrashWords))
    BY <1>9, CrashDefinitions DEF Crash!WriteEntry
  <2> QED BY <1>9, <2>4, <2>5 DEF Crash!WriteEntry, CrashAlone!WriteEntry, CrashMem
<1>10. ASSUME Crash!Cut PROVE CrashAlone!Cut
  <2>1. PICK n \in 1 .. CrashWords - 1 :
          /\ crashPc = "write" /\ records' = Append(records, Crash!Record(n))
          /\ mem' = Program(mem, Crash!Addr(slot), SubSeq(Crash!EntryOf(crash), 1, n))
    BY <1>10, SameDriver DEF Crash!Cut
  <2>2. CrashMem' = [a \in Crash!Sector |-> mem'[a]]
    BY DEF CrashMem
  <2>3. CrashMem' =
          CrashAlone!Program(CrashMem, Crash!Addr(slot), SubSeq(Crash!EntryOf(crash), 1, n))
    BY <1>6, <2>1, <2>2
  <2>4. CrashMem' =
          CrashAlone!Program(CrashMem, CrashAlone!Addr(slot),
                             SubSeq(CrashAlone!EntryOf(crash), 1, n))
    BY <2>3, CrashDefinitions
  <2>5. records' = Append(records, CrashAlone!Record(n))
    BY <2>1, CrashDefinitions
  <2> QED BY <2>1, <2>4, <2>5 DEF CrashAlone!Cut, CrashMem
<1>11. ASSUME UNCHANGED mem, Crash!SystemReset \/ Crash!ResetInHandler
       PROVE  CrashAlone!SystemReset \/ CrashAlone!ResetInHandler
  BY <1>3, <1>11, <1>10 DEF Crash!SystemReset, Crash!ResetInHandler, CrashAlone!SystemReset,
                     CrashAlone!ResetInHandler, CrashMem
<1>12. CASE Configure
  BY <1>1, <1>3, <1>12 DEF Configure, ConfigWrites, Config!Load, Config!Save, Config!Verify
<1>13. CASE Record
  BY <1>1, <1>3, <1>13 DEF Record, RecorderWrites, Recorder!WriteEntry
<1>14. CASE HandleFault
  BY <1>7, <1>8, <1>9, <1>14 DEF HandleFault, CrashAlone!Next
<1>15. CASE Reset
  <2>1. CASE UNCHANGED crashVars
    BY <1>1, <1>3, <1>15, <2>1
       DEF Reset, ConfigWrites, RecorderWrites, InHandler, Crash!SystemReset, Crash!ResetInHandler,
           crashVars
  <2>2. CASE Crash!SystemReset
    BY <1>11, <2>2 DEF Crash!SystemReset, CrashAlone!Next
  <2>3. CASE Crash!ResetInHandler
    BY <1>3, <1>10, <2>3 DEF Crash!ResetInHandler, CrashAlone!ResetInHandler, CrashAlone!Next,
                             CrashMem
  <2> QED BY <1>15, <2>1, <2>2, <2>3 DEF Reset
<1>16. CASE UNCHANGED vars
  BY <1>1, <1>3, <1>16 DEF vars
<1> QED BY <1>12, <1>13, <1>14, <1>15, <1>16 DEF Next

-----------------------------------------------------------------------------
(***************************************************************************)
(* The recorder in a flash of its own.                                     *)
(***************************************************************************)

\* The flash, with something in the other regions that never changes.
RecorderMem == [a \in DOMAIN mem |-> IF a < BlackboxAddr THEN {Recorder!Other} ELSE mem[a]]

LEMMA RecorderMemSame ==
  ASSUME DOMAIN mem' = DOMAIN mem,
         \A a \in DOMAIN mem : ~ a < BlackboxAddr => mem'[a] = mem[a]
  PROVE  RecorderMem' = RecorderMem
BY DEF RecorderMem, Recorder!Other

LEMMA RecorderDefinitions ==
  /\ \A b, n : RecorderAlone!EntryOf(b, n) = Recorder!EntryOf(b, n)
  /\ \A a : /\ RecorderAlone!AlignToPage(a) = Recorder!AlignToPage(a)
            /\ RecorderAlone!Full(a) = Recorder!Full(a)
            /\ RecorderAlone!AtNewSector(a) = Recorder!AtNewSector(a)
BY DEF RecorderAlone!EntryOf, Recorder!EntryOf, RecorderAlone!AlignToPage, Recorder!AlignToPage,
       RecorderAlone!Full, Recorder!Full, RecorderAlone!AtNewSector, Recorder!AtNewSector

LEMMA RecorderInit == Init => RecorderAlone!Init
<1> SUFFICES ASSUME Init PROVE RecorderAlone!Init
  OBVIOUS
<1>1. RecorderMem = [a \in 0 .. FlashSizeEnd - 1 |->
                       IF a < BlackboxAddr THEN {RecorderAlone!Other} ELSE RecorderAlone!Erased]
  BY DEF Init, RecorderMem, Recorder!Other, RecorderAlone!Other, RecorderAlone!Erased, Erased
<1> QED BY <1>1 DEF Init, RecorderAlone!Init, RecorderMem

\* An erase and a page program of the recorder do the same to both.
LEMMA RecorderDriver ==
  ASSUME Placed, NEW addr \in Nat, BlackboxAddr <= addr
  PROVE  /\ mem' = EraseSector(mem, addr) =>
              RecorderMem' = RecorderAlone!EraseSector(RecorderMem, addr)
         /\ \A words : Len(words) \in Nat /\ mem' = Program(mem, addr, words) =>
              RecorderMem' = RecorderAlone!Program(RecorderMem, addr, words)
<1>1. /\ DOMAIN RecorderMem = DOMAIN mem
      /\ \A a \in DOMAIN mem : RecorderMem[a] = IF a < BlackboxAddr THEN {Recorder!Other} ELSE mem[a]
  BY DEF RecorderMem
<1>2. \A a \in DOMAIN mem : a \in Nat
  BY Sizes DEF Placed
<1>3. \A a \in DOMAIN mem : a < BlackboxAddr => a \div SectorWords # addr \div SectorWords
  BY <1>2, RecorderSectors
<1>4. \A f, words : /\ RecorderAlone!EraseSector(f, addr) = EraseSector(f, addr)
                    /\ RecorderAlone!Program(f, addr, words) = Program(f, addr, words)
  BY DEF EraseSector, RecorderAlone!EraseSector, Erased, RecorderAlone!Erased,
         Program, RecorderAlone!Program, Target, RecorderAlone!Target
<1>5. ASSUME mem' = EraseSector(mem, addr)
      PROVE  RecorderMem' = EraseSector(RecorderMem, addr)
  <2>1. RecorderMem' =
          [a \in DOMAIN mem |-> IF a < BlackboxAddr THEN {Recorder!Other} ELSE EraseSector(mem, addr)[a]]
    BY <1>5, SameDomain DEF RecorderMem, Recorder!Other
  <2>2. \A a \in DOMAIN mem :
          EraseSector(RecorderMem, addr)[a] =
            IF a < BlackboxAddr THEN {Recorder!Other} ELSE EraseSector(mem, addr)[a]
    BY <1>1, <1>3 DEF EraseSector
  <2>3. EraseSector(RecorderMem, addr) = [a \in DOMAIN mem |-> EraseSector(RecorderMem, addr)[a]]
    BY <1>1 DEF EraseSector
  <2> QED BY <2>1, <2>2, <2>3
<1>6. ASSUME NEW words, Len(words) \in Nat, mem' = Program(mem, addr, words)
      PROVE  RecorderMem' = Program(RecorderMem, addr, words)
  <2>1. RecorderMem' =
          [a \in DOMAIN mem |-> IF a < BlackboxAddr THEN {Recorder!Other} ELSE Program(mem, addr, words)[a]]
    BY <1>6, SameDomain DEF RecorderMem, Recorder!Other
  <2>2. ASSUME NEW a \in DOMAIN mem, a < BlackboxAddr
        PROVE  Program(RecorderMem, addr, words)[a] = {Recorder!Other}
    BY <1>1, <1>2, <1>3, <1>6, <2>2, ProgramStaysInSector
  <2>3. ASSUME NEW a \in DOMAIN mem, ~ a < BlackboxAddr
        PROVE  Program(RecorderMem, addr, words)[a] = Program(mem, addr, words)[a]
    BY <1>1, <2>3 DEF Program
  <2>4. Program(RecorderMem, addr, words) = [a \in DOMAIN mem |-> Program(RecorderMem, addr, words)[a]]
    BY <1>1 DEF Program
  <2> QED BY <2>1, <2>2, <2>3, <2>4
<1> QED BY <1>4, <1>5, <1>6

LEMMA RecorderStep ==
  ASSUME Placed, [Next]_vars
  PROVE  [RecorderAlone!Next]_(RecorderAlone!vars)
<1>1. ASSUME UNCHANGED recorderVars, RecorderMem' = RecorderMem
      PROVE  UNCHANGED RecorderAlone!vars
  BY <1>1 DEF recorderVars, RecorderMem, RecorderAlone!vars
<1>2. \A a \in DOMAIN mem : ~ a < BlackboxAddr => SectorWords <= a /\ a \notin Crash!Sector
  BY CrashSector, Sizes DEF Placed
<1>3. ASSUME UNCHANGED mem \/ ConfigWrites \/ CrashWrites PROVE RecorderMem' = RecorderMem
  BY <1>2, <1>3, RecorderMemSame, ConfigLocal, CrashLocal
<1>4. CASE Record
  <2>1. CASE Recorder!Start
    <3>1. RecorderMem' = RecorderAlone!EraseSector(RecorderMem, BlackboxAddr)
      BY <2>1, SameDriver, RecorderDriver, Sizes DEF Recorder!Start
    <3> QED BY <2>1, <3>1 DEF Recorder!Start, RecorderAlone!Start, RecorderAlone!Next, RecorderMem
  <2>2. CASE Recorder!WriteEntry
    <3>1. RecorderMem' = RecorderMem
      BY <1>3, <2>2 DEF Recorder!WriteEntry
    <3> QED BY <2>2, <3>1, RecorderDefinitions
            DEF Recorder!WriteEntry, RecorderAlone!WriteEntry, RecorderAlone!Next, RecorderMem
  <2>3. CASE Recorder!EraseNewSector
    <3>1. RecorderMem' = RecorderAlone!EraseSector(RecorderMem, writeAddr)
      BY <2>3, SameDriver, RecorderDriver DEF Recorder!EraseNewSector, Placed
    <3> QED BY <2>3, <3>1
            DEF Recorder!EraseNewSector, RecorderAlone!EraseNewSector, RecorderAlone!Next,
                RecorderMem
  <2>4. CASE Recorder!ProgramEntry
    <3>1. Len(Recorder!EntryOf(boot, entryCount)) \in Nat
      BY Sizes DEF Recorder!EntryOf
    <3>2. mem' = Program(mem, writeAddr, Recorder!EntryOf(boot, entryCount))
      BY <2>4, SameDriver DEF Recorder!ProgramEntry
    <3>3. RecorderMem' =
            RecorderAlone!Program(RecorderMem, writeAddr, Recorder!EntryOf(boot, entryCount))
      BY <3>1, <3>2, RecorderDriver DEF Placed
    <3>4. RecorderMem' =
            RecorderAlone!Program(RecorderMem, writeAddr, RecorderAlone!EntryOf(boot, entryCount))
      BY <3>3, RecorderDefinitions
    <3> QED BY <2>4, <3>4
            DEF Recorder!ProgramEntry, RecorderAlone!ProgramEntry, RecorderAlone!Next, RecorderMem
  <2> QED BY <1>4, <2>1, <2>2, <2>3, <2>4 DEF Record
<1>5. CASE Reset
  <2>1. RecorderAlone!Restart
    BY <1>5 DEF Reset, Recorder!Restart, RecorderAlone!Restart
  <2>2. CASE Recorder!Cut
    <3>1. PICK n \in 1 .. LogWords :
            /\ recorderPc = "program"
            /\ mem' = Program(mem, writeAddr, SubSeq(Recorder!EntryOf(boot, entryCount), 1, n))
      BY <2>2, SameDriver DEF Recorder!Cut
    <3>2. Len(SubSeq(Recorder!EntryOf(boot, entryCount), 1, n)) \in Nat
      BY Sizes DEF Recorder!EntryOf
    <3>3. RecorderMem' =
            RecorderAlone!Program(RecorderMem, writeAddr,
                                  SubSeq(Recorder!EntryOf(boot, entryCount), 1, n))
      BY <3>1, <3>2, RecorderDriver DEF Placed
    <3>4. RecorderMem' =
            RecorderAlone!Program(RecorderMem, writeAddr,
                                  SubSeq(RecorderAlone!EntryOf(boot, entryCount), 1, n))
      BY <3>3, RecorderDefinitions
    <3>5. RecorderAlone!Cut
      BY <3>1, <3>4 DEF RecorderAlone!Cut, RecorderMem
    <3> QED BY <2>1, <3>5 DEF RecorderAlone!Reset, RecorderAlone!Next
  <2>3. CASE ~Recorder!Cut
    <3>1. RecorderMem' = RecorderMem
      BY <1>3, <1>5, <2>3 DEF Reset, Crash!SystemReset, Crash!ResetInHandler, ConfigWrites,
                              CrashWrites
    <3> QED BY <2>1, <3>1 DEF RecorderAlone!Reset, RecorderAlone!Next, RecorderMem
  <2> QED BY <2>2, <2>3
<1>6. CASE Configure
  BY <1>1, <1>3, <1>6 DEF Configure, ConfigWrites, Config!Load, Config!Save, Config!Verify
<1>7. CASE HandleFault
  BY <1>1, <1>3, <1>7 DEF HandleFault, CrashWrites, Crash!HardFault
<1>8. CASE UNCHANGED vars
  BY <1>1, <1>3, <1>8 DEF vars
<1> QED BY <1>4, <1>5, <1>6, <1>7, <1>8 DEF Next

-----------------------------------------------------------------------------
(***************************************************************************)
(* Where the recorder is in its region.                                    *)
(***************************************************************************)
PerPage == PageWords \div LogWords
Pages == (FlashSizeEnd - BlackboxAddr) \div PageWords

\* After q pages and r entries of the next one.
At(q, r) ==
  /\ writeAddr = BlackboxAddr + (q * PageWords) + (r * LogWords)
  /\ entryCount = (q * PerPage) + r

\* Every entry is where the pages before it are full, and none is behind the region.
FillsPages ==
  \E q \in 0 .. Pages, r \in 0 .. PerPage :
    /\ At(q, r)
    /\ q = Pages => r = 0
    /\ recorderPc \in {"erase", "program"} => q < Pages /\ r < PerPage /\ logging
    /\ recorderPc = "loop" /\ ~logging => q = Pages

\* The region is of whole pages.
LEMMA WholePages ==
  /\ Pages \in Nat /\ 0 < Pages /\ FlashSizeEnd = BlackboxAddr + (Pages * PageWords)
  /\ \E c \in Nat : BlackboxAddr = c * PageWords
<1> DEFINE k == SectorWords \div PageWords
           b == BlackboxAddr \div SectorWords
           e == FlashSizeEnd \div SectorWords
<1>1. /\ k \in Nat /\ SectorWords = k * PageWords + 0
      /\ b \in Nat /\ BlackboxAddr = b * SectorWords + 0
      /\ e \in Nat /\ FlashSizeEnd = e * SectorWords + 0
  BY Sizes, Division, FlashAssumption, RegionsAssumption DEF Recorder!BlackboxAssumption
<1> HIDE DEF k, b, e
<1>2. k * PageWords \in Nat /\ b * SectorWords \in Nat /\ e * SectorWords \in Nat
  BY <1>1, Sizes, Z3
<1>3. SectorWords = k * PageWords /\ BlackboxAddr = b * SectorWords /\ FlashSizeEnd = e * SectorWords
  BY <1>1, <1>2
<1>4. b < e
  <2> SUFFICES ASSUME e <= b PROVE FALSE
    BY <1>1
  <2>1. e * SectorWords <= b * SectorWords
    BY <1>1, Sizes, Times
  <2> QED BY <1>2, <1>3, <2>1, Sizes
<1> DEFINE n == (e - b) * k
<1>5. n \in Nat /\ b * k \in Nat
  <2>1. e - b \in Nat
    BY <1>1, <1>4
  <2> QED BY <1>1, <2>1, Z3
<1>6. /\ BlackboxAddr = (b * k) * PageWords
      /\ FlashSizeEnd - BlackboxAddr = n * PageWords
  <2>1. BlackboxAddr = b * (k * PageWords) /\ FlashSizeEnd = e * (k * PageWords)
    BY <1>3
  <2>2. /\ b * (k * PageWords) = (b * k) * PageWords
        /\ (e * (k * PageWords)) - (b * (k * PageWords)) = ((e - b) * k) * PageWords
    BY <1>1, Sizes, Z3
  <2> QED BY <2>1, <2>2
<1> HIDE DEF n
<1>7. n * PageWords \in Nat /\ (n + 1) * PageWords = n * PageWords + PageWords
  BY <1>5, Sizes, Z3
<1>8. Pages = n
  BY <1>5, <1>6, <1>7, Sizes, Quotient DEF Pages
<1>9. n # 0
  <2> SUFFICES ASSUME n = 0 PROVE FALSE
    OBVIOUS
  <2>1. n * PageWords = 0
    BY Sizes
  <2> QED BY <1>6, <2>1, Sizes
<1> QED BY <1>5, <1>6, <1>7, <1>8, <1>9, Sizes

\* A page holds some entries, and has no room for another.
LEMMA PageFits ==
  /\ PerPage \in Nat /\ 0 < PerPage
  /\ PerPage * LogWords \in Nat /\ PerPage * LogWords <= PageWords
  /\ PageWords < (PerPage * LogWords) + LogWords
  /\ PageWords % LogWords # 0 => PerPage * LogWords # PageWords
<1>1. /\ PerPage \in Nat /\ PageWords % LogWords \in Nat /\ PageWords % LogWords < LogWords
      /\ PageWords = (PerPage * LogWords) + (PageWords % LogWords)
  BY Sizes, Division DEF PerPage
<1>2. PerPage * LogWords \in Nat
  BY <1>1, Sizes, Z3
<1>3. PerPage # 0
  <2> SUFFICES ASSUME PerPage = 0 PROVE FALSE
    OBVIOUS
  <2>1. PerPage * LogWords = 0
    BY Sizes
  <2>2. LogWords <= PageWords
    BY RegionsAssumption DEF Recorder!BlackboxAssumption
  <2> QED BY <1>1, <2>1, <2>2, Sizes
<1> QED BY <1>1, <1>2, <1>3, Sizes

\* alignToPage goes on in the page while an entry fits, and else with the next page.
LEMMA AlignFills ==
  ASSUME NEW q \in Nat, NEW r \in 0 .. PerPage
  PROVE  Recorder!AlignToPage(BlackboxAddr + (q * PageWords) + (r * LogWords)) =
           IF r = PerPage THEN BlackboxAddr + ((q + 1) * PageWords) + (0 * LogWords)
                          ELSE BlackboxAddr + (q * PageWords) + (r * LogWords)
<1> DEFINE addr == BlackboxAddr + (q * PageWords) + (r * LogWords)
<1>1. PICK c \in Nat : BlackboxAddr = c * PageWords
  BY WholePages
<1>2. r \in Nat /\ r <= PerPage
  BY PageFits
<1>3. /\ q * PageWords \in Nat /\ r * LogWords \in Nat /\ c * PageWords \in Nat
      /\ (c + q) * PageWords = (c * PageWords) + (q * PageWords)
      /\ ((c + q) + 1) * PageWords = (c * PageWords) + ((q + 1) * PageWords)
      /\ (q + 1) * PageWords = (q * PageWords) + PageWords
      /\ (r + 1) * LogWords = (r * LogWords) + LogWords
      /\ 0 * LogWords = 0
  BY <1>1, <1>2, Sizes, Z3
<1>4. r * LogWords <= PerPage * LogWords
  BY <1>2, PageFits, Sizes, Times
<1>5. addr \in Nat /\ addr = ((c + q) * PageWords) + (r * LogWords) /\ r * LogWords <= PageWords
  BY <1>1, <1>3, <1>4, PageFits, Sizes
<1>6. CASE r * LogWords = PageWords
  <2>1. r = PerPage
    <3> SUFFICES ASSUME r # PerPage PROVE FALSE
      OBVIOUS
    <3>1. (r + 1) * LogWords <= PerPage * LogWords
      BY <1>2, PageFits, Sizes, Times
    <3> QED BY <1>3, <1>6, <3>1, PageFits, Sizes
  <2> DEFINE n == (c + q) + 1
  <2>2. n \in Int /\ addr = (n * PageWords) + 0 /\ 0 \in 0 .. PageWords - 1
    BY <1>3, <1>5, <1>6, Sizes
  <2>3. addr = BlackboxAddr + ((q + 1) * PageWords) + (0 * LogWords)
    BY <1>3, <1>6, Sizes
  <2> HIDE DEF n, addr
  <2>4. addr % PageWords = 0
    <3>1. ((n * PageWords) + 0) % PageWords = 0
      BY <2>2, Sizes, ModUnique
    <3> QED BY <2>2, <3>1
  <2>5. Recorder!AlignToPage(addr) = addr
    <3>1. LogWords <= PageWords
      BY RegionsAssumption DEF Recorder!BlackboxAssumption
    <3> QED BY <2>4, <3>1, Sizes DEF Recorder!AlignToPage
  <2> QED BY <2>1, <2>3, <2>5 DEF addr
<1> SUFFICES ASSUME r * LogWords < PageWords
             PROVE  Recorder!AlignToPage(addr) =
                      IF r = PerPage THEN BlackboxAddr + ((q + 1) * PageWords) + (0 * LogWords)
                                     ELSE addr
  BY <1>3, <1>5, <1>6, Sizes
<1>7. addr \div PageWords = c + q
  BY <1>3, <1>5, Sizes, Quotient
<1>8. addr % PageWords = r * LogWords
  <2> DEFINE e == r * LogWords
             n == c + q
  <2>1. n \in Int /\ e \in 0 .. PageWords - 1 /\ addr = (n * PageWords) + e
    BY <1>3, <1>5, Sizes
  <2> HIDE DEF addr, e, n
  <2>2. ((n * PageWords) + e) % PageWords = e
    BY <2>1, Sizes, ModUnique
  <2> QED BY <2>1, <2>2 DEF e
<1>9. CASE r = PerPage
  BY <1>1, <1>3, <1>7, <1>8, <1>9, PageFits, Sizes DEF Recorder!AlignToPage
<1>10. CASE r # PerPage
  <2>1. (r + 1) * LogWords <= PerPage * LogWords
    BY <1>2, <1>10, PageFits, Sizes, Times
  <2>2. ~((addr % PageWords) + LogWords > PageWords)
    BY <1>3, <1>8, <2>1, PageFits, Sizes
  <2> QED BY <1>10, <2>2 DEF Recorder!AlignToPage
<1> QED BY <1>9, <1>10

\* An address in a page has room for an entry exactly when the page is in the region.
LEMMA FullWhenBehind ==
  ASSUME PageWords % LogWords # 0, NEW q \in 0 .. Pages, NEW r \in 0 .. PerPage - 1
  PROVE  Recorder!Full(BlackboxAddr + (q * PageWords) + (r * LogWords)) <=> q = Pages
<1>1. /\ q \in Nat /\ q <= Pages /\ r \in Nat /\ r + 1 <= PerPage
  BY WholePages, PageFits
<1>2. /\ q * PageWords \in Nat /\ r * LogWords \in Nat /\ Pages * PageWords \in Nat
      /\ (q + 1) * PageWords = (q * PageWords) + PageWords
      /\ (r + 1) * LogWords = (r * LogWords) + LogWords
  BY <1>1, WholePages, Sizes, Z3
<1>3. (r + 1) * LogWords <= PerPage * LogWords
  BY <1>1, PageFits, Sizes, Times
<1>4. CASE q = Pages
  BY <1>2, <1>4, WholePages, Sizes DEF Recorder!Full
<1>5. CASE q # Pages
  <2>1. (q + 1) * PageWords <= Pages * PageWords
    BY <1>1, <1>5, WholePages, Sizes, Times
  <2> QED BY <1>2, <1>3, <1>5, <2>1, WholePages, PageFits, Sizes DEF Recorder!Full
<1> QED BY <1>4, <1>5

LEMMA FillsInit ==
  ASSUME PageWords % LogWords # 0, writeAddr = BlackboxAddr, entryCount = 0,
         recorderPc = "start"
  PROVE  FillsPages
<1>1. 0 \in 0 .. Pages /\ 0 \in 0 .. PerPage
  BY WholePages, PageFits
<1>2. 0 * PageWords = 0 /\ 0 * LogWords = 0 /\ 0 * PerPage = 0
  BY Sizes, PageFits
<1>3. At(0, 0)
  BY <1>2, Sizes DEF At
<1> QED BY <1>1, <1>3 DEF FillsPages

LEMMA FillsNext ==
  ASSUME PageWords % LogWords # 0, FillsPages, [Next]_vars
  PROVE  FillsPages'
<1> PICK q \in 0 .. Pages, r \in 0 .. PerPage :
      /\ At(q, r)
      /\ q = Pages => r = 0
      /\ recorderPc \in {"erase", "program"} => q < Pages /\ r < PerPage /\ logging
      /\ recorderPc = "loop" /\ ~logging => q = Pages
  BY DEF FillsPages
<1>1. q \in Nat /\ r \in Nat
  BY WholePages, PageFits
<1>2. CASE UNCHANGED recorderVars
  BY <1>2 DEF recorderVars, At, FillsPages
<1>3. CASE Recorder!Restart
  <2>1. writeAddr' = BlackboxAddr /\ entryCount' = 0 /\ recorderPc' = "start"
    BY <1>3 DEF Recorder!Restart
  <2>2. 0 \in 0 .. Pages /\ 0 \in 0 .. PerPage
    BY WholePages, PageFits
  <2>3. 0 * PageWords = 0 /\ 0 * LogWords = 0 /\ 0 * PerPage = 0
    BY Sizes, PageFits
  <2>4. At(0, 0)'
    BY <2>1, <2>3, Sizes DEF At
  <2> QED BY <2>1, <2>2, <2>4 DEF FillsPages
<1>4. CASE Recorder!Start
  BY <1>4 DEF Recorder!Start, At, FillsPages
<1>5. CASE Recorder!EraseNewSector
  BY <1>5 DEF Recorder!EraseNewSector, At, FillsPages
<1>6. CASE Recorder!ProgramEntry
  <2>1. /\ writeAddr' = writeAddr + LogWords /\ entryCount' = entryCount + 1
        /\ recorderPc' = "loop" /\ logging' /\ q < Pages /\ r < PerPage
    BY <1>6 DEF Recorder!ProgramEntry
  <2>2. (r + 1) * LogWords = (r * LogWords) + LogWords /\ r * LogWords \in Nat
        /\ q * PageWords \in Nat /\ q * PerPage \in Nat
    BY <1>1, Sizes, PageFits, Z3
  <2>3. At(q, r + 1)' /\ r + 1 \in 0 .. PerPage
    BY <1>1, <2>1, <2>2, Sizes, PageFits DEF At
  <2> QED BY <2>1, <2>3 DEF FillsPages
<1>7. CASE Recorder!WriteEntry
  <2> DEFINE q1 == IF r = PerPage THEN q + 1 ELSE q
             r1 == IF r = PerPage THEN 0 ELSE r
  <2>1. /\ writeAddr' = Recorder!AlignToPage(writeAddr) /\ entryCount' = entryCount
        /\ logging /\ recorderPc = "loop"
    BY <1>7 DEF Recorder!WriteEntry
  <2>2. q1 \in 0 .. Pages /\ r1 \in 0 .. PerPage - 1 /\ r1 \in 0 .. PerPage
        /\ (q1 = Pages => r1 = 0)
    BY <1>1, WholePages, PageFits
  <2>3. (q + 1) * PerPage = (q * PerPage) + PerPage /\ q * PerPage \in Nat
    BY <1>1, PageFits, Z3
  <2>4. At(q1, r1)'
    BY <1>1, <2>1, <2>3, AlignFills, PageFits DEF At
  <2>5. Recorder!Full(writeAddr') <=> q1 = Pages
    BY <2>2, <2>4, FullWhenBehind DEF At
  <2> HIDE DEF q1, r1
  <2>6. q1 # Pages => q1 < Pages /\ r1 < PerPage
    BY <2>2, WholePages, PageFits
  <2>7. CASE Recorder!Full(writeAddr')
    <3>1. logging' = FALSE /\ recorderPc' = "loop"
      BY <1>7, <2>1, <2>7 DEF Recorder!WriteEntry
    <3> QED BY <2>2, <2>4, <2>5, <2>7, <3>1 DEF FillsPages
  <2>8. CASE ~Recorder!Full(writeAddr')
    <3>1. recorderPc' \in {"erase", "program"} /\ logging'
      BY <1>7, <2>1, <2>8 DEF Recorder!WriteEntry
    <3> QED BY <2>2, <2>4, <2>5, <2>6, <2>8, <3>1 DEF FillsPages
  <2> QED BY <2>7, <2>8
<1> QED BY <1>2, <1>3, <1>4, <1>5, <1>6, <1>7
        DEF Next, Configure, Record, HandleFault, Reset, vars

-----------------------------------------------------------------------------
(***************************************************************************)
(* The recorder's entries.                                                 *)
(***************************************************************************)

\* Where entry number n is, counted from the start of the region.
Place(n) == BlackboxAddr + ((n \div PerPage) * PageWords) + ((n % PerPage) * LogWords)

\* A word of a page that does not wrap around goes where it is addressed.
LEMMA TargetInPage ==
  ASSUME NEW addr \in Nat, NEW i \in Nat, (addr % PageWords) + i < PageWords
  PROVE  Target(addr, i) = addr + i
<1> DEFINE e == (addr % PageWords) + i
<1>1. addr % PageWords \in Nat /\ addr = (addr \div PageWords) * PageWords + (addr % PageWords)
  BY Sizes, Division
<1>2. e \in 0 .. PageWords - 1
  BY <1>1, Sizes
<1> HIDE DEF e
<1>3. ((0 * PageWords) + e) % PageWords = e
  BY <1>2, Sizes, ModUnique
<1>4. e % PageWords = e
  BY <1>2, <1>3, Sizes
<1> QED BY <1>1, <1>4 DEF Target, e

\* A sector's first word is in a later sector than the words before it.
LEMMA SectorBegins ==
  ASSUME NEW a \in Nat, NEW b \in Nat, a < b, b % SectorWords = 0
  PROVE  a \div SectorWords # b \div SectorWords
<1> DEFINE p == a \div SectorWords
           q == b \div SectorWords
<1>1. /\ p \in Nat /\ a % SectorWords \in Nat /\ a = p * SectorWords + (a % SectorWords)
      /\ q \in Nat /\ b = q * SectorWords + 0
  BY Sizes, Division
<1> HIDE DEF p, q
<1>2. p * SectorWords \in Nat /\ q * SectorWords \in Nat
  BY <1>1, Sizes, Z3
<1> QED BY <1>1, <1>2 DEF p, q

\* The next word is in the same sector, or begins one.
LEMMA NextWord ==
  ASSUME NEW a \in Nat
  PROVE  (a + 1) \div SectorWords = a \div SectorWords \/ (a + 1) % SectorWords = 0
<1> DEFINE q == a \div SectorWords
           m == a % SectorWords
<1>1. q \in Nat /\ m \in Nat /\ m < SectorWords /\ a = (q * SectorWords) + m
  BY Sizes, Division
<1> HIDE DEF q, m
<1>2. /\ q * SectorWords \in Nat /\ (q + 1) * SectorWords = (q * SectorWords) + SectorWords
  BY <1>1, Sizes, Z3
<1>3. CASE m + 1 < SectorWords
  <2>1. (a + 1) \div SectorWords = q
    BY <1>1, <1>2, <1>3, Sizes, Quotient
  <2> QED BY <2>1 DEF q
<1>4. CASE m + 1 = SectorWords
  <2>1. a + 1 = ((q + 1) * SectorWords) + 0 /\ q + 1 \in Int /\ 0 \in 0 .. SectorWords - 1
    BY <1>1, <1>2, <1>4, Sizes
  <2>2. (((q + 1) * SectorWords) + 0) % SectorWords = 0
    BY <2>1, Sizes, ModUnique
  <2> QED BY <2>1, <2>2
<1> QED BY <1>1, <1>3, <1>4, Sizes

\* An entry's number as so many pages and so many entries, and the next one's.
LEMMA Numbering ==
  ASSUME NEW n \in Nat
  PROVE  /\ n \div PerPage \in Nat /\ n % PerPage \in 0 .. PerPage - 1
         /\ (n % PerPage) + 1 < PerPage =>
              /\ (n + 1) \div PerPage = n \div PerPage
              /\ (n + 1) % PerPage = (n % PerPage) + 1
         /\ (n % PerPage) + 1 = PerPage =>
              /\ (n + 1) \div PerPage = (n \div PerPage) + 1
              /\ (n + 1) % PerPage = 0
<1> DEFINE q == n \div PerPage
           m == n % PerPage
<1>1. q \in Nat /\ m \in 0 .. PerPage - 1 /\ n = (q * PerPage) + m
  BY PageFits, Division
<1> HIDE DEF q, m
<1>2. /\ q * PerPage \in Nat /\ (q + 1) * PerPage = (q * PerPage) + PerPage
      /\ (q + 1) * PerPage \in Nat /\ ((q + 1) + 1) * PerPage = ((q + 1) * PerPage) + PerPage
  BY <1>1, PageFits, Z3
<1>3. ASSUME m + 1 < PerPage PROVE (n + 1) \div PerPage = q /\ (n + 1) % PerPage = m + 1
  <2>1. n + 1 = (q * PerPage) + (m + 1) /\ m + 1 \in 0 .. PerPage - 1
    BY <1>1, <1>2, <1>3, PageFits
  <2>2. ((q * PerPage) + (m + 1)) % PerPage = m + 1
    BY <1>1, <2>1, PageFits, ModUnique
  <2> QED BY <1>1, <1>2, <1>3, <2>1, <2>2, PageFits, Quotient
<1>4. ASSUME m + 1 = PerPage PROVE (n + 1) \div PerPage = q + 1 /\ (n + 1) % PerPage = 0
  <2>1. n + 1 = ((q + 1) * PerPage) + 0 /\ 0 \in 0 .. PerPage - 1 /\ q + 1 \in Int
    BY <1>1, <1>2, <1>4, PageFits
  <2>2. (((q + 1) * PerPage) + 0) % PerPage = 0
    BY <2>1, PageFits, ModUnique
  <2> QED BY <1>1, <1>2, <2>1, <2>2, PageFits, Quotient
<1> QED BY <1>1, <1>3, <1>4 DEF q, m

\* An entry is within its page.
LEMMA InOnePage ==
  ASSUME NEW q \in Nat, NEW r \in 0 .. PerPage - 1
  PROVE  LET addr == BlackboxAddr + (q * PageWords) + (r * LogWords)
         IN  /\ addr \in Nat /\ BlackboxAddr <= addr
             /\ addr % PageWords = r * LogWords
             /\ r * LogWords \in Nat /\ (r + 1) * LogWords = (r * LogWords) + LogWords
             /\ (addr % PageWords) + LogWords <= PageWords
<1> DEFINE addr == BlackboxAddr + (q * PageWords) + (r * LogWords)
<1>1. PICK c \in Nat : BlackboxAddr = c * PageWords
  BY WholePages
<1>2. r \in Nat /\ r + 1 <= PerPage
  BY PageFits
<1>3. /\ q * PageWords \in Nat /\ r * LogWords \in Nat /\ c * PageWords \in Nat
      /\ (c + q) * PageWords = (c * PageWords) + (q * PageWords)
      /\ (r + 1) * LogWords = (r * LogWords) + LogWords
  BY <1>1, <1>2, Sizes, Z3
<1>4. (r + 1) * LogWords <= PerPage * LogWords
  BY <1>2, PageFits, Sizes, Times
<1> DEFINE n == c + q
           e == r * LogWords
<1>5. n \in Int /\ e \in 0 .. PageWords - 1 /\ addr = (n * PageWords) + e
  BY <1>1, <1>3, <1>4, PageFits, Sizes
<1>6. addr \in Nat /\ BlackboxAddr <= addr
  BY <1>3, Sizes
<1> HIDE DEF addr, n, e
<1>7. ((n * PageWords) + e) % PageWords = e
  BY <1>5, Sizes, ModUnique
<1>8. addr % PageWords = r * LogWords
  BY <1>5, <1>7 DEF e
<1> QED BY <1>3, <1>4, <1>6, <1>8, PageFits, Sizes DEF addr

\* Where an entry is, and that the walk of dumpLog goes on from one to the next.
LEMMA Places ==
  ASSUME NEW n \in Nat
  PROVE  /\ Place(n) \in Nat /\ BlackboxAddr <= Place(n)
         /\ (Place(n) % PageWords) + LogWords <= PageWords
         /\ Recorder!AlignToPage(Place(n)) = Place(n)
         /\ Recorder!AlignToPage(Place(n) + LogWords) = Place(n + 1)
<1> DEFINE q == n \div PerPage
           m == n % PerPage
<1>1. q \in Nat /\ m \in 0 .. PerPage - 1 /\ m + 1 \in 0 .. PerPage
  BY Numbering, PageFits
<1>2. Place(n) = BlackboxAddr + (q * PageWords) + (m * LogWords)
  BY DEF Place
<1>3. Place(n + 1) = IF m + 1 = PerPage
                       THEN BlackboxAddr + ((q + 1) * PageWords) + (0 * LogWords)
                       ELSE BlackboxAddr + (q * PageWords) + ((m + 1) * LogWords)
  BY <1>1, Numbering, PageFits DEF Place
<1> HIDE DEF q, m
<1>4. /\ Place(n) \in Nat /\ BlackboxAddr <= Place(n)
      /\ (Place(n) % PageWords) + LogWords <= PageWords
      /\ (m + 1) * LogWords = (m * LogWords) + LogWords /\ m * LogWords \in Nat
  BY <1>1, <1>2, InOnePage
<1>5. Recorder!AlignToPage(Place(n)) = Place(n)
  BY <1>4, Sizes DEF Recorder!AlignToPage
<1>6. Place(n) + LogWords = BlackboxAddr + (q * PageWords) + ((m + 1) * LogWords)
  <2>1. q * PageWords \in Nat
    BY <1>1, Sizes, Z3
  <2> QED BY <1>2, <1>4, <2>1, Sizes
<1>7. Recorder!AlignToPage(Place(n) + LogWords) = Place(n + 1)
  BY <1>1, <1>3, <1>6, AlignFills
<1> QED BY <1>4, <1>5, <1>7

LEMMA FirstPlace == Place(0) = BlackboxAddr
<1>1. 0 \div PerPage = 0 /\ 0 % PerPage = 0
  <2>1. 0 * PerPage = 0 /\ (0 + 1) * PerPage = PerPage /\ ((0 * PerPage) + 0) % PerPage = 0
    BY PageFits, ModUnique
  <2> QED BY <2>1, PageFits, Quotient
<1> QED BY <1>1, Sizes DEF Place

\* The next entry is behind this one, in its sector or at the beginning of another.
LEMMA NextPlace ==
  ASSUME NEW n \in Nat
  PROVE  /\ Place(n) + LogWords <= Place(n + 1)
         /\ \/ Place(n + 1) \div SectorWords = Place(n) \div SectorWords
            \/ Place(n + 1) % SectorWords = 0
<1> DEFINE a == Place(n)
           b == a + LogWords
           e == a % PageWords
<1>1. a \in Nat /\ b \in Nat /\ e \in Nat /\ e < PageWords /\ e + LogWords <= PageWords
  BY Places, Sizes, Division
<1>2. b <= Place(n + 1)
  BY <1>1, Places, AlignedAhead
<1>3. a - e \in Nat /\ a - e + PageWords \in Nat
  <2>1. a = ((a \div PageWords) * PageWords) + e /\ a \div PageWords \in Nat
    BY <1>1, Sizes, Division
  <2> HIDE DEF a, e
  <2>2. (a \div PageWords) * PageWords \in Nat
    BY <2>1, Sizes, Z3
  <2> QED BY <1>1, <2>1, <2>2, Sizes
<1>4. Place(n + 1) \in {b, a - e + PageWords}
  <2>1. Place(n + 1) = Recorder!AlignToPage(b)
    BY Places
  <2>2. CASE e + LogWords < PageWords
    <3>1. b \div PageWords = a \div PageWords
      <4> DEFINE q == a \div PageWords
      <4>1. a = (q * PageWords) + e /\ q \in Nat
        BY <1>1, Sizes, Division
      <4> HIDE DEF q, e
      <4>2. q * PageWords \in Nat /\ (q + 1) * PageWords = (q * PageWords) + PageWords
        BY <4>1, Sizes, Z3
      <4>3. b = (q * PageWords) + (e + LogWords)
        BY <1>1, <4>1, <4>2, Sizes
      <4>4. b \div PageWords = q
        BY <1>1, <2>2, <4>1, <4>2, <4>3, Sizes, Quotient
      <4> QED BY <4>4 DEF q
    <3>2. (a \div PageWords + 1) * PageWords = a - e + PageWords
      <4> DEFINE q == a \div PageWords
      <4>1. a = (q * PageWords) + e /\ q \in Nat
        BY <1>1, Sizes, Division
      <4> HIDE DEF q, e
      <4>2. q * PageWords \in Nat /\ (q + 1) * PageWords = (q * PageWords) + PageWords
        BY <4>1, Sizes, Z3
      <4>3. (q + 1) * PageWords = a - e + PageWords
        BY <1>1, <4>1, <4>2, Sizes
      <4> QED BY <4>3 DEF q
    <3> QED BY <2>1, <3>1, <3>2 DEF Recorder!AlignToPage
  <2>3. CASE e + LogWords = PageWords
    <3>1. b = a - e + PageWords
      BY <1>1, <2>3, Sizes
    <3>2. b % PageWords = 0
      <4> DEFINE q == a \div PageWords
      <4>1. a = (q * PageWords) + e /\ q \in Nat
        BY <1>1, Sizes, Division
      <4> HIDE DEF q, e
      <4>2. q * PageWords \in Nat /\ (q + 1) * PageWords = (q * PageWords) + PageWords
        BY <4>1, Sizes, Z3
      <4>3. b = ((q + 1) * PageWords) + 0 /\ q + 1 \in Int /\ 0 \in 0 .. PageWords - 1
        BY <1>1, <2>3, <4>1, <4>2, Sizes
      <4>4. (((q + 1) * PageWords) + 0) % PageWords = 0
        BY <4>3, Sizes, ModUnique
      <4> QED BY <4>3, <4>4
    <3>3. Recorder!AlignToPage(b) = b
      <4>1. ~((b % PageWords) + LogWords > PageWords)
        BY <1>1, <3>2, Sizes
      <4> QED BY <4>1 DEF Recorder!AlignToPage
    <3> QED BY <2>1, <3>1, <3>3
  <2> HIDE DEF a, b, e
  <2> QED BY <1>1, <2>2, <2>3, Sizes
<1>5. CASE Place(n + 1) = b /\ e + LogWords < PageWords
  <2>1. Target(a, LogWords) = b
    BY <1>1, <1>5, Sizes, TargetInPage
  <2> QED BY <1>1, <1>2, <1>5, <2>1, Sizes, TargetInSector
<1>6. CASE Place(n + 1) = a - e + PageWords
  <2> DEFINE i == PageWords - 1 - e
  <2>1. i \in Nat /\ e + i < PageWords /\ (a + i) + 1 = Place(n + 1) /\ a + i \in Nat
    BY <1>1, <1>3, <1>6, Sizes
  <2> HIDE DEF i
  <2>2. (a + i) \div SectorWords = a \div SectorWords
    BY <1>1, <2>1, TargetInPage, TargetInSector
  <2>3. \/ Place(n + 1) \div SectorWords = (a + i) \div SectorWords
        \/ Place(n + 1) % SectorWords = 0
    BY <2>1, NextWord
  <2> QED BY <1>2, <2>2, <2>3
<1> HIDE DEF e
<1>7. e + LogWords < PageWords \/ b = a - e + PageWords
  <2> HIDE DEF a
  <2> QED BY <1>1, Sizes
<1> QED BY <1>2, <1>4, <1>5, <1>6, <1>7

\* The walk of dumpLog comes to where the entries are.
LEMMA Walk ==
  ASSUME entryCount \in Nat
  PROVE  \A n \in 0 .. entryCount : Recorder!EntryAddr(BlackboxAddr)[n] = Place(n)
<1> DEFINE Steps(at) ==
             at = [n \in 0 .. entryCount |->
                     IF n = 0 THEN Recorder!AlignToPage(BlackboxAddr)
                              ELSE Recorder!AlignToPage(at[n - 1] + LogWords)]
           places == [n \in 0 .. entryCount |-> Place(n)]
           walk == CHOOSE at : Steps(at)
<1>1. Recorder!AlignToPage(BlackboxAddr) = Place(0)
  BY FirstPlace, Places
<1>2. \A n \in 1 .. entryCount : n - 1 \in Nat /\ (n - 1) + 1 = n
  OBVIOUS
<1>3. Steps(places)
  <2> SUFFICES ASSUME NEW n \in 0 .. entryCount
               PROVE  Place(n) = IF n = 0 THEN Recorder!AlignToPage(BlackboxAddr)
                                 ELSE Recorder!AlignToPage(places[n - 1] + LogWords)
    OBVIOUS
  <2>1. CASE n = 0
    BY <1>1, <2>1
  <2>2. CASE n # 0
    <3>1. n - 1 \in Nat /\ n - 1 \in 0 .. entryCount /\ (n - 1) + 1 = n
      BY <2>2
    <3>2. Recorder!AlignToPage(Place(n - 1) + LogWords) = Place((n - 1) + 1)
      BY <3>1, Places
    <3> QED BY <2>2, <3>1, <3>2
  <2> QED BY <2>1, <2>2
<1>4. Steps(walk)
  <2> HIDE DEF Steps
  <2>1. \E at : Steps(at)
    BY <1>3
  <2> QED BY <2>1
<1>5. Recorder!EntryAddr(BlackboxAddr) = walk
  BY DEF Recorder!EntryAddr
<1> HIDE DEF walk
<1> DEFINE There == {n \in Nat : n <= entryCount => walk[n] = Place(n)}
<1>6. 0 \in There
  BY <1>1, <1>4
<1>7. \A n \in There : n + 1 \in There
  <2> SUFFICES ASSUME NEW n \in There, n + 1 <= entryCount PROVE walk[n + 1] = Place(n + 1)
    OBVIOUS
  <2>1. n \in Nat /\ n + 1 \in 0 .. entryCount /\ n + 1 # 0 /\ (n + 1) - 1 = n /\ walk[n] = Place(n)
    OBVIOUS
  <2>2. walk[n + 1] = Recorder!AlignToPage(walk[n] + LogWords)
    BY <1>4, <2>1
  <2> QED BY <2>1, <2>2, Places
<1>8. There = Nat
  <2> HIDE DEF There
  <2>1. There \in SUBSET Nat
    BY DEF There
  <2> QED BY <1>6, <1>7, <2>1, Induction
<1> QED BY <1>5, <1>8

\* Every entry of this boot is where the walk comes to, and the next one finds its
\* sector erased from there on, or begins a sector, which is then erased.
EntryIsThere(n) == \A k \in 1 .. LogWords : mem[Place(n) + k - 1] = {<<boot, n, k>>}

FreeFrom(addr) ==
  \A a \in DOMAIN mem : addr <= a /\ a \div SectorWords = addr \div SectorWords => mem[a] = Erased

RecorderInv ==
  /\ entryCount \in Nat
  /\ Recorder!AlignToPage(writeAddr) = Place(entryCount)
  /\ \A n \in 0 .. entryCount - 1 :
       /\ Place(n) + LogWords <= Place(entryCount) /\ Place(n) + LogWords <= FlashSizeEnd
       /\ EntryIsThere(n)
  /\ recorderPc \in {"erase", "program"} =>
       writeAddr = Place(entryCount) /\ writeAddr + LogWords <= FlashSizeEnd
  /\ recorderPc = "erase" => writeAddr % SectorWords = 0
  /\ recorderPc = "program" => FreeFrom(Place(entryCount))
  /\ recorderPc = "loop" => FreeFrom(Place(entryCount)) \/ Place(entryCount) % SectorWords = 0
  /\ recorderPc = "start" => entryCount = 0

\* With no entries, and the first address to write to.
LEMMA NoEntries ==
  /\ Recorder!AlignToPage(BlackboxAddr) = Place(0)
  /\ Place(0) % SectorWords = 0
BY FirstPlace, Places, Sizes

LEMMA RecorderInvInit == Init => RecorderInv
BY NoEntries DEF Init, RecorderInv

\* What the others do to the flash does not matter.
LEMMA OthersKeepEntries ==
  ASSUME RecorderInv, UNCHANGED recorderVars, DOMAIN mem = 0 .. FlashSizeEnd - 1,
         DOMAIN mem' = DOMAIN mem, \A a \in DOMAIN mem : BlackboxAddr <= a => mem'[a] = mem[a]
  PROVE  RecorderInv'
<1>1. UNCHANGED <<recorderPc, writeAddr, entryCount, logging, boot>>
  BY DEF recorderVars
<1>2. ASSUME NEW n \in 0 .. entryCount - 1 PROVE EntryIsThere(n)'
  <2>1. /\ Place(n) \in Nat /\ BlackboxAddr <= Place(n) /\ EntryIsThere(n)
        /\ Place(n) + LogWords <= FlashSizeEnd
    BY Places DEF RecorderInv
  <2>2. \A k \in 1 .. LogWords : /\ Place(n) + k - 1 \in 0 .. FlashSizeEnd - 1
                                 /\ BlackboxAddr <= Place(n) + k - 1
    BY <2>1, Sizes
  <2> QED BY <1>1, <2>1, <2>2 DEF EntryIsThere
<1>3. FreeFrom(Place(entryCount)) => FreeFrom(Place(entryCount))'
  <2>1. Place(entryCount) \in Nat /\ BlackboxAddr <= Place(entryCount)
    BY Places DEF RecorderInv
  <2>2. \A a \in DOMAIN mem : Place(entryCount) <= a => BlackboxAddr <= a
    BY <2>1, Sizes
  <2> QED BY <1>1, <2>2 DEF FreeFrom
<1> QED BY <1>1, <1>2, <1>3 DEF RecorderInv

\* An entry is programmed where it is addressed, and nowhere else.
LEMMA EntryProgrammed ==
  ASSUME NEW f, NEW addr \in Nat, (addr % PageWords) + LogWords <= PageWords,
         NEW words, Len(words) = LogWords, NEW a \in DOMAIN f, a \in Nat
  PROVE  Program(f, addr, words)[a] =
           IF addr <= a /\ a < addr + LogWords THEN f[a] \cup {words[(a - addr) + 1]} ELSE f[a]
<1> DEFINE here == {j \in 0 .. LogWords - 1 : Target(addr, j) = a}
<1>1. addr % PageWords \in Nat /\ LogWords <= PageWords
  BY Sizes, Division
<1>2. Program(f, addr, words)[a] = f[a] \cup {words[i + 1] : i \in here}
  BY <1>1, Sizes DEF Program
<1>3. \A j \in 0 .. LogWords - 1 : Target(addr, j) = addr + j
  BY <1>1, Sizes, TargetInPage
<1>4. CASE addr <= a /\ a < addr + LogWords
  <2>1. here = {a - addr}
    BY <1>3, <1>4, Sizes
  <2> HIDE DEF here
  <2> QED BY <1>2, <1>4, <2>1
<1>5. CASE ~(addr <= a /\ a < addr + LogWords)
  <2>1. here = {}
    BY <1>3, <1>5, Sizes
  <2> HIDE DEF here
  <2> QED BY <1>2, <1>5, <2>1
<1> QED BY <1>4, <1>5

LEMMA EraseKeepsEntries ==
  ASSUME RecorderInv, DOMAIN mem = 0 .. FlashSizeEnd - 1, Recorder!EraseNewSector
  PROVE  RecorderInv'
<1>1. /\ recorderPc = "erase" /\ recorderPc' = "program"
      /\ mem' = EraseSector(mem, writeAddr)
      /\ UNCHANGED <<writeAddr, entryCount, logging, boot>>
  BY SameDriver DEF Recorder!EraseNewSector
<1>2. /\ entryCount \in Nat /\ writeAddr = Place(entryCount) /\ writeAddr % SectorWords = 0
      /\ writeAddr \in Nat
  BY <1>1, Places DEF RecorderInv
<1>3. ASSUME NEW n \in 0 .. entryCount - 1 PROVE EntryIsThere(n)'
  <2>0. n \in Nat
    BY <1>2
  <2>1. /\ Place(n) \in Nat /\ EntryIsThere(n) /\ Place(n) + LogWords <= FlashSizeEnd
        /\ Place(n) + LogWords <= writeAddr
    BY <1>2, <2>0, Places DEF RecorderInv
  <2> SUFFICES ASSUME NEW k \in 1 .. LogWords
               PROVE  mem'[Place(n) + k - 1] = mem[Place(n) + k - 1]
    BY <1>1, <2>1 DEF EntryIsThere
  <2> DEFINE a == Place(n) + k - 1
  <2>2. a \in DOMAIN mem /\ a \in Nat /\ a < writeAddr
    BY <1>2, <2>1, Sizes
  <2> HIDE DEF a
  <2>3. a \div SectorWords # writeAddr \div SectorWords
    BY <1>2, <2>2, SectorBegins
  <2>4. mem'[a] = mem[a]
    BY <1>1, <2>2, <2>3 DEF EraseSector
  <2> QED BY <2>4 DEF a
<1>4. FreeFrom(Place(entryCount))'
  BY <1>1, <1>2 DEF FreeFrom, EraseSector
<1> QED BY <1>1, <1>2, <1>3, <1>4 DEF RecorderInv

LEMMA ProgramKeepsEntries ==
  ASSUME RecorderInv, DOMAIN mem = 0 .. FlashSizeEnd - 1, Recorder!ProgramEntry
  PROVE  RecorderInv'
<1>0. PICK e \in Nat : e = entryCount
  BY DEF RecorderInv
<1> DEFINE addr == Place(e)
           next == Place(e + 1)
           entry == Recorder!EntryOf(boot, e)
<1>1. /\ recorderPc = "program" /\ recorderPc' = "loop"
      /\ mem' = Program(mem, addr, entry)
      /\ writeAddr' = addr + LogWords /\ entryCount' = e + 1 /\ boot' = boot
  BY <1>0, SameDriver DEF Recorder!ProgramEntry, RecorderInv
<1>2. /\ addr \in Nat /\ addr + LogWords <= FlashSizeEnd /\ FreeFrom(addr)
      /\ (addr % PageWords) + LogWords <= PageWords
  BY <1>0, <1>1, Places DEF RecorderInv
<1>3. Len(entry) = LogWords /\ \A k \in 1 .. LogWords : entry[k] = <<boot, e, k>>
  BY Sizes DEF Recorder!EntryOf
<1>4. /\ addr + LogWords <= next /\ next \in Nat /\ Recorder!AlignToPage(addr + LogWords) = next
      /\ next \div SectorWords = addr \div SectorWords \/ next % SectorWords = 0
  <2>1. e + 1 \in Nat
    OBVIOUS
  <2>2. next \in Nat /\ Recorder!AlignToPage(addr + LogWords) = next
    BY <2>1, Places
  <2> QED BY <2>2, NextPlace
<1>5. \A n \in 0 .. e - 1 :
        /\ n \in Nat /\ Place(n) \in Nat
        /\ Place(n) + LogWords <= addr /\ Place(n) + LogWords <= FlashSizeEnd
        /\ \A k \in 1 .. LogWords : mem[Place(n) + k - 1] = {<<boot, n, k>>}
  <2>1. \A n \in 0 .. e - 1 : n \in Nat
    BY <1>0
  <2>2. \A n \in 0 .. e - 1 : Place(n) \in Nat
    BY <2>1, Places
  <2> HIDE DEF next, entry
  <2> QED BY <1>0, <2>1, <2>2 DEF RecorderInv, EntryIsThere
<1> HIDE DEF addr, next, entry
<1>6. ASSUME NEW a \in DOMAIN mem
      PROVE  mem'[a] = IF addr <= a /\ a < addr + LogWords
                         THEN mem[a] \cup {entry[(a - addr) + 1]} ELSE mem[a]
  <2>1. a \in Nat
    BY Sizes
  <2> QED BY <1>1, <1>2, <1>3, <2>1, EntryProgrammed
<1>7. ASSUME NEW n \in 0 .. e - 1, NEW k \in 1 .. LogWords
      PROVE  mem'[Place(n) + k - 1] = {<<boot, n, k>>}
  <2> DEFINE a == Place(n) + k - 1
  <2>1. mem[a] = {<<boot, n, k>>}
    BY <1>5
  <2>2. a \in DOMAIN mem /\ a < addr
    BY <1>2, <1>5, Sizes
  <2> HIDE DEF a
  <2>3. ~(addr <= a)
    BY <1>2, <2>2
  <2>4. mem'[a] = mem[a]
    BY <1>6, <2>2, <2>3
  <2> QED BY <2>1, <2>4 DEF a
<1>8. ASSUME NEW k \in 1 .. LogWords PROVE mem'[addr + k - 1] = {<<boot, e, k>>}
  <2> DEFINE a == addr + k - 1
  <2>1. a \in DOMAIN mem /\ addr <= a /\ a < addr + LogWords /\ (a - addr) + 1 = k
    BY <1>2, Sizes
  <2>2. k - 1 \in Nat /\ (addr % PageWords) + (k - 1) < PageWords /\ a = addr + (k - 1)
    <3>1. addr % PageWords \in Nat
      BY <1>2, Sizes, Division
    <3> QED BY <1>2, <3>1, Sizes
  <2> HIDE DEF a
  <2>3. a \div SectorWords = addr \div SectorWords
    BY <1>2, <2>2, TargetInPage, TargetInSector
  <2>4. mem[a] = {}
    BY <1>2, <2>1, <2>3 DEF FreeFrom, Erased
  <2>5. mem'[a] = mem[a] \cup {entry[k]}
    BY <1>6, <2>1
  <2> QED BY <1>3, <2>4, <2>5 DEF a
<1>9. ASSUME next \div SectorWords = addr \div SectorWords,
             NEW a \in DOMAIN mem, next <= a, a \div SectorWords = next \div SectorWords
      PROVE  mem'[a] = Erased
  <2>1. addr <= a /\ ~(a < addr + LogWords)
    BY <1>2, <1>4, <1>9, Sizes
  <2>2. mem[a] = Erased
    BY <1>2, <1>9, <2>1 DEF FreeFrom
  <2> QED BY <1>6, <2>1, <2>2
<1>10. ASSUME NEW n \in 0 .. entryCount' - 1
       PROVE  /\ Place(n) + LogWords <= next /\ Place(n) + LogWords <= FlashSizeEnd
              /\ EntryIsThere(n)'
  <2>1. CASE n = e
    BY <1>1, <1>2, <1>4, <1>8, <2>1 DEF addr, EntryIsThere
  <2>2. CASE n # e
    <3>1. n \in 0 .. e - 1
      BY <1>1, <2>2
    <3>2. Place(n) + LogWords <= next /\ Place(n) + LogWords <= FlashSizeEnd
      BY <1>2, <1>4, <1>5, <3>1, Sizes
    <3> QED BY <1>1, <1>7, <3>1, <3>2 DEF EntryIsThere
  <2> QED BY <2>1, <2>2
<1>11. DOMAIN mem' = DOMAIN mem
  BY <1>1 DEF Program
<1>12. Place(entryCount') = next
  BY <1>1 DEF next
<1>13. FreeFrom(next)' \/ next % SectorWords = 0
  BY <1>4, <1>9, <1>11 DEF FreeFrom
<1>14. (FreeFrom(Place(entryCount)) \/ Place(entryCount) % SectorWords = 0)'
  BY <1>11, <1>12, <1>13 DEF FreeFrom
<1> QED BY <1>1, <1>4, <1>10, <1>12, <1>14 DEF RecorderInv

LEMMA RecorderInvNext ==
  ASSUME Placed, RecorderInv, [Next]_vars
  PROVE  RecorderInv'
<1>0. DOMAIN mem = 0 .. FlashSizeEnd - 1
  BY DEF Placed
<1>1. CASE UNCHANGED mem /\ UNCHANGED recorderVars
  BY <1>0, <1>1, OthersKeepEntries
<1>2. CASE ConfigWrites /\ UNCHANGED recorderVars
  <2>1. /\ DOMAIN mem' = DOMAIN mem
        /\ \A a \in DOMAIN mem : BlackboxAddr <= a => mem'[a] = mem[a]
    BY <1>0, <1>2, ConfigLocal, Sizes
  <2> QED BY <1>0, <1>2, <2>1, OthersKeepEntries
<1>3. CASE CrashWrites /\ UNCHANGED recorderVars
  <2>1. /\ DOMAIN mem' = DOMAIN mem
        /\ \A a \in DOMAIN mem : BlackboxAddr <= a => mem'[a] = mem[a]
    BY <1>0, <1>3, CrashLocal, CrashSector, Sizes
  <2> QED BY <1>0, <1>3, <2>1, OthersKeepEntries
<1>4. CASE Recorder!Restart
  <2>1. entryCount' = 0 /\ recorderPc' = "start" /\ writeAddr' = BlackboxAddr
    BY <1>4 DEF Recorder!Restart
  <2> QED BY <2>1, NoEntries DEF RecorderInv
<1>5. CASE Recorder!Start
  <2>1. /\ entryCount' = 0 /\ entryCount = 0 /\ recorderPc' = "loop" /\ writeAddr' = writeAddr
    BY <1>5 DEF Recorder!Start, RecorderInv
  <2> QED BY <2>1, NoEntries DEF RecorderInv
<1>6. CASE Recorder!WriteEntry
  <2>1. /\ UNCHANGED <<mem, entryCount, boot>> /\ recorderPc = "loop"
        /\ writeAddr' = Place(entryCount) /\ entryCount \in Nat
        /\ recorderPc' = "loop"
           \/ /\ ~Recorder!Full(writeAddr')
              /\ recorderPc' = IF writeAddr' % SectorWords = 0 THEN "erase" ELSE "program"
    BY <1>6 DEF Recorder!WriteEntry, Recorder!AtNewSector, RecorderInv
  <2>2. Recorder!AlignToPage(writeAddr') = Place(entryCount) /\ Place(entryCount) \in Nat
    BY <2>1, Places
  <2>3. \A n \in 0 .. entryCount - 1 : EntryIsThere(n)' <=> EntryIsThere(n)
    BY <2>1 DEF EntryIsThere
  <2>4. FreeFrom(Place(entryCount))' <=> FreeFrom(Place(entryCount))
    BY <2>1 DEF FreeFrom
  <2>5. ~Recorder!Full(writeAddr') => writeAddr' + LogWords <= FlashSizeEnd
    BY <2>1, <2>2, Sizes DEF Recorder!Full
  <2> QED BY <2>1, <2>2, <2>3, <2>4, <2>5 DEF RecorderInv
<1>7. CASE Recorder!EraseNewSector
  BY <1>0, <1>7, EraseKeepsEntries
<1>8. CASE Recorder!ProgramEntry
  BY <1>0, <1>8, ProgramKeepsEntries
<1> QED BY <1>1, <1>2, <1>3, <1>4, <1>5, <1>6, <1>7, <1>8
        DEF Next, Configure, Record, HandleFault, Reset, vars, ConfigWrites, CrashWrites,
            Config!Load, Config!Save, Config!Verify, Crash!HardFault

-----------------------------------------------------------------------------
(***************************************************************************)
(* The theorem.                                                            *)
(***************************************************************************)

\* The crash log's slot and the recorder's address never leave their regions.
THEOREM AlwaysPlaced == Spec => []Placed
BY PlacedInit, PlacedNext, PTL DEF Spec

\* Between two entries, dumpLog's walk from the start of the recorder's region finds
\* every entry of this boot undamaged and in order (logger_task.hpp:123-142), whatever
\* earlier boots, resets and the region's neighbours have left in the flash, in a flash of
\* any size.
THEOREM LogIsRead == Spec => []LogReadsBack
<1>1. Placed /\ RecorderInv => LogReadsBack
  <2> SUFFICES ASSUME Placed, RecorderInv, NEW n \in 0 .. entryCount - 1
               PROVE  Recorder!Read(mem, Recorder!EntryAddr(BlackboxAddr)[n], LogWords)
                        = Recorder!CellsOf(Recorder!EntryOf(boot, n))
    BY DEF LogReadsBack, Recorder!LogReadsBack, Recorder!Dump, Recorder!Logged
  <2>1. entryCount \in Nat /\ n \in 0 .. entryCount /\ EntryIsThere(n)
    BY DEF RecorderInv
  <2>2. Recorder!EntryAddr(BlackboxAddr)[n] = Place(n)
    BY <2>1, Walk
  <2>3. Recorder!Read(mem, Place(n), LogWords) = [k \in 1 .. LogWords |-> {<<boot, n, k>>}]
    BY <2>1 DEF Recorder!Read, EntryIsThere
  <2>4. Recorder!CellsOf(Recorder!EntryOf(boot, n)) = [k \in 1 .. LogWords |-> {<<boot, n, k>>}]
    BY DEF Recorder!CellsOf, Recorder!EntryOf
  <2> QED BY <2>2, <2>3, <2>4
<1>2. Placed /\ RecorderInv /\ [Next]_vars => RecorderInv'
  BY RecorderInvNext
<1> QED BY <1>1, <1>2, RecorderInvInit, AlwaysPlaced, PTL DEF Spec

\* The recorder stops only when its region is full, in a flash of any size of which
\* an entry does not divide a page: then an entry that fits never ends where the
\* region ends, which writeEntry would refuse (logger_task.hpp:34).
THEOREM StopsFull ==
  ASSUME PageWords % LogWords # 0
  PROVE  Spec => []StopsOnlyWhenFull
<1>1. Init => FillsPages
  BY FillsInit DEF Init
<1>2. FillsPages /\ [Next]_vars => FillsPages'
  BY FillsNext
<1>3. FillsPages => StopsOnlyWhenFull
  <2> SUFFICES ASSUME FillsPages, recorderPc = "loop", ~logging
               PROVE  entryCount = Pages * PerPage
    BY DEF StopsOnlyWhenFull, Recorder!StopsOnlyWhenFull, Pages, PerPage
  <2>1. PICK r \in 0 .. PerPage : At(Pages, r) /\ r = 0
    BY DEF FillsPages
  <2>2. Pages * PerPage \in Nat
    BY WholePages, PageFits, Z3
  <2> QED BY <2>1, <2>2 DEF At
<1> QED BY <1>1, <1>2, <1>3, PTL DEF Spec

\* Configuration, crash log and recorder do to the flash they share what each of
\* them would do to a flash of its own (uav/main.cpp:24-34, flash_map.hpp).
THEOREM AsIfAlone == Spec => EachAsIfAlone
<1>1. Init => ConfigAlone!Init /\ CrashAlone!Init /\ RecorderAlone!Init
  BY ConfigInit, CrashInit, RecorderInit
<1>2. Placed /\ [Next]_vars =>
        /\ [ConfigAlone!Next]_(ConfigAlone!vars)
        /\ [CrashAlone!Next]_(CrashAlone!vars)
        /\ [RecorderAlone!Next]_(RecorderAlone!vars)
  BY ConfigStep, CrashStep, RecorderStep
<1> QED BY <1>1, <1>2, AlwaysPlaced, PTL
        DEF Spec, EachAsIfAlone, ConfigAlone!Spec, CrashAlone!Spec, RecorderAlone!Spec

-----------------------------------------------------------------------------
(***************************************************************************)
(* The configuration.                                                      *)
(***************************************************************************)

\* Its sector.
configMem == [a \in 0 .. SectorWords - 1 |-> mem[a]]

\* The cells of the record being saved, of which only the words in kept are there.
Part(kept) == [k \in 1 .. ConfigWords |-> IF k \in kept THEN {ConfigAlone!Record(cfg)[k]} ELSE {}]

\* A save that has been cut short leaves a part of its record, and nothing else.
TornIsPart == torn => \E kept \in SUBSET (1 .. ConfigWords) : ConfigAlone!Stored = Part(kept)

\* Otherwise the flash holds what was stored, or nothing that a boot would take.
WholeOrDefaults ==
  ~torn => \/ ConfigAlone!Accepted(ConfigAlone!Stored) /\ ConfigAlone!Stored = stored
           \/ ~ConfigAlone!Accepted(ConfigAlone!Stored) /\ stored = ConfigAlone!Defaults

\* Where save() is.
Saving ==
  /\ configPc \in {"running", "erase"} => ~torn
  /\ configPc \in {"program", "verify"} => torn
  /\ configPc = "program" => ConfigAlone!Stored = Part({})
  /\ configPc = "verify" => ConfigAlone!Stored = ConfigAlone!CellsOf(ConfigAlone!Record(cfg))

ConfigInv ==
  /\ cfg \in 0 .. MaxSaves
  /\ configPc \in {"boot", "running", "erase", "program", "verify"}
  /\ torn \in BOOLEAN
  /\ Saving /\ TornIsPart /\ WholeOrDefaults

-----------------------------------------------------------------------------
(***************************************************************************)
(* The record in the flash.                                                *)
(***************************************************************************)

LEMMA ConfigLengths ==
  /\ PageWords \in Nat /\ 0 < PageWords /\ SectorWords \in Nat /\ 0 < SectorWords
  /\ ConfigWords \in Nat /\ 2 < ConfigWords /\ ConfigWords <= PageWords
  /\ MaxSaves \in Nat /\ ConfigWords <= SectorWords
<1>1. /\ PageWords \in Nat /\ 0 < PageWords /\ SectorWords \in Nat /\ 0 < SectorWords
      /\ ConfigWords \in Nat /\ 2 < ConfigWords /\ ConfigWords <= PageWords /\ MaxSaves \in Nat
      /\ SectorWords % PageWords = 0
  BY FlashAssumption, RegionsAssumption DEF Config!ConfigStoreAssumption
<1>2. ~ SectorWords < PageWords
  <2> SUFFICES ASSUME SectorWords < PageWords PROVE FALSE
    OBVIOUS
  <2>1. SectorWords % PageWords = SectorWords
    BY <1>1, Z3
  <2> QED BY <1>1, <2>1
<1> QED BY <1>1, <1>2

\* Where the words of the record are.
LEMMA ConfigPlaces ==
  ASSUME NEW j \in 0 .. ConfigWords - 1
  PROVE  ConfigAlone!Target(0, j) = j
<1>1. 0 % PageWords = 0 /\ j % PageWords = j
  BY ConfigLengths, Z3
<1> QED BY <1>1 DEF ConfigAlone!Target

\* What programming the record leaves.
LEMMA RecordProgrammed ==
  ASSUME NEW k \in 1 .. ConfigWords, k - 1 \in DOMAIN configMem
  PROVE  ConfigAlone!Program(configMem, 0, ConfigAlone!Record(cfg))[k - 1]
           = configMem[k - 1] \cup {ConfigAlone!Record(cfg)[k]}
<1> DEFINE words == ConfigAlone!Record(cfg)
           here == {j \in 0 .. ConfigWords - 1 : ConfigAlone!Target(0, j) = k - 1}
<1>1. Len(words) = ConfigWords /\ ~ ConfigWords > PageWords
  BY ConfigLengths DEF ConfigAlone!Record
<1>2. here = {k - 1}
  BY ConfigPlaces, ConfigLengths
<1>3. ConfigAlone!Program(configMem, 0, words)[k - 1]
        = configMem[k - 1] \cup {words[i + 1] : i \in here}
  BY <1>1, ConfigLengths DEF ConfigAlone!Program
<1> HIDE DEF words, here
<1>4. {words[i + 1] : i \in here} = {words[k]}
  <2>1. (k - 1) + 1 = k
    BY ConfigLengths
  <2> QED BY <1>2, <2>1
<1> QED BY <1>3, <1>4 DEF words

\* A part of a record that a boot takes is the whole record.
LEMMA AcceptedPartIsWhole ==
  ASSUME NEW kept \in SUBSET (1 .. ConfigWords), ConfigAlone!Accepted(Part(kept))
  PROVE  Part(kept) = ConfigAlone!CellsOf(ConfigAlone!Record(cfg))
<1>1. PICK c \in 0 .. MaxSaves : Part(kept) = ConfigAlone!CellsOf(ConfigAlone!Record(c))
  BY DEF ConfigAlone!Accepted
<1>2. \A k \in 1 .. ConfigWords : ConfigAlone!CellsOf(ConfigAlone!Record(c))[k] # {}
  BY DEF ConfigAlone!CellsOf, ConfigAlone!Record
<1>3. \A k \in 1 .. ConfigWords : k \in kept
  BY <1>1, <1>2 DEF Part
<1> QED BY <1>3 DEF Part, ConfigAlone!CellsOf, ConfigAlone!Record

LEMMA WholeIsAccepted ==
  ASSUME cfg \in 0 .. MaxSaves
  PROVE  /\ ConfigAlone!Accepted(ConfigAlone!CellsOf(ConfigAlone!Record(cfg)))
         /\ ConfigAlone!CellsOf(ConfigAlone!Record(cfg)) = Part(1 .. ConfigWords)
BY DEF ConfigAlone!Accepted, Part, ConfigAlone!CellsOf, ConfigAlone!Record

-----------------------------------------------------------------------------
(***************************************************************************)
(* The invariant.                                                          *)
(***************************************************************************)

LEMMA ErasedIsDefaults ==
  ASSUME ConfigAlone!Init
  PROVE  ~ConfigAlone!Accepted(ConfigAlone!Stored)
<1>1. 1 \in 1 .. ConfigWords /\ 0 + 1 - 1 \in 0 .. SectorWords - 1
  BY ConfigLengths
<1>2. ConfigAlone!Stored[1] = {}
  BY <1>1 DEF ConfigAlone!Init, ConfigAlone!Stored, ConfigAlone!Read, ConfigAlone!Erased
<1>3. \A c : ConfigAlone!CellsOf(ConfigAlone!Record(c))[1] # {}
  BY <1>1 DEF ConfigAlone!CellsOf, ConfigAlone!Record
<1> QED BY <1>2, <1>3 DEF ConfigAlone!Accepted

LEMMA ConfigInvInit ==
  ASSUME ConfigAlone!Init
  PROVE  ConfigInv
<1>1. ~ConfigAlone!Accepted(ConfigAlone!Stored)
  BY ErasedIsDefaults
<1>2. stored = ConfigAlone!Defaults /\ ~torn /\ torn \in BOOLEAN /\ configPc = "boot"
  BY DEF ConfigAlone!Init
<1>3. DOMAIN configMem = 0 .. SectorWords - 1 /\ cfg \in 0 .. MaxSaves
  BY ConfigLengths DEF ConfigAlone!Init, configMem
<1>4. Saving /\ TornIsPart /\ WholeOrDefaults
  BY <1>1, <1>2 DEF Saving, TornIsPart, WholeOrDefaults
<1> QED BY <1>2, <1>3, <1>4 DEF ConfigInv

LEMMA ConfigInvNext ==
  ASSUME ConfigInv, [ConfigAlone!Next]_(ConfigAlone!vars)
  PROVE  ConfigInv'
<1> USE DEF ConfigInv, configMem
<1>1. \A k \in 1 .. ConfigWords : k - 1 \in DOMAIN configMem /\ 0 + k - 1 = k - 1
  BY ConfigLengths
<1>2. ConfigAlone!Stored = [k \in 1 .. ConfigWords |-> configMem[k - 1]]
      /\ ConfigAlone!Stored' = [k \in 1 .. ConfigWords |-> configMem'[k - 1]]
  BY <1>1 DEF ConfigAlone!Stored, ConfigAlone!Read
<1>3. ASSUME UNCHANGED configMem
      PROVE  /\ ConfigAlone!Stored' = ConfigAlone!Stored
             /\ ConfigAlone!Accepted(ConfigAlone!Stored)' = ConfigAlone!Accepted(ConfigAlone!Stored)
  BY <1>3 DEF ConfigAlone!Stored, ConfigAlone!Accepted
<1>4. CASE ConfigAlone!Load
  <2>1. CASE torn
    <3>1. PICK kept \in SUBSET (1 .. ConfigWords) : ConfigAlone!Stored = Part(kept)
      BY <2>1 DEF TornIsPart
    <3> QED BY <1>3, <1>4 DEF ConfigAlone!Load, Saving, TornIsPart, WholeOrDefaults
  <2>2. CASE ~torn
    BY <1>3, <1>4, <2>2 DEF ConfigAlone!Load, Saving, TornIsPart, WholeOrDefaults
  <2> QED BY <2>1, <2>2
<1>5. CASE ConfigAlone!Save
  <2>1. ~torn /\ ~torn' /\ cfg' \in 0 .. MaxSaves
    BY <1>5, ConfigLengths DEF ConfigAlone!Save, Saving
  <2> QED BY <1>3, <1>5, <2>1 DEF ConfigAlone!Save, Saving, TornIsPart, WholeOrDefaults
<1>6. CASE ConfigAlone!EraseConfig
  <2>1. DOMAIN configMem' = DOMAIN configMem /\ \A k \in 1 .. ConfigWords : configMem'[k - 1] = {}
    <3>1. \A k \in 1 .. ConfigWords : (k - 1) \div SectorWords = 0 \div SectorWords
      BY ConfigLengths, Z3
    <3> QED BY <1>1, <1>6, <3>1 DEF ConfigAlone!EraseConfig, ConfigAlone!EraseSector,
                                    ConfigAlone!Erased
  <2>2. ConfigAlone!Stored' = Part({})'
    BY <1>2, <2>1 DEF Part
  <2>3. {} \in SUBSET (1 .. ConfigWords)
    OBVIOUS
  <2> QED BY <1>6, <2>1, <2>2, <2>3 DEF ConfigAlone!EraseConfig, Saving, TornIsPart, WholeOrDefaults
<1>7. ASSUME configPc = "program", UNCHANGED cfg, NEW kept \in SUBSET (1 .. ConfigWords),
             \A k \in 1 .. ConfigWords :
               configMem'[k - 1] =
                 IF k \in kept THEN ConfigAlone!Program(configMem, 0, ConfigAlone!Record(cfg))[k - 1]
                              ELSE configMem[k - 1]
      PROVE  ConfigAlone!Stored' = Part(kept)'
  <2>1. \A k \in 1 .. ConfigWords : configMem[k - 1] = {}
    BY <1>2, <1>7 DEF Saving, Part
  <2>2. \A k \in 1 .. ConfigWords :
          ConfigAlone!Program(configMem, 0, ConfigAlone!Record(cfg))[k - 1] = {ConfigAlone!Record(cfg)[k]}
    BY <1>1, <2>1, RecordProgrammed
  <2>3. ConfigAlone!Record(cfg)' = ConfigAlone!Record(cfg)
    BY <1>7 DEF ConfigAlone!Record
  <2>4. ConfigAlone!Stored' = Part(kept)
    BY <1>2, <1>7, <2>1, <2>2 DEF Part
  <2> QED BY <2>3, <2>4, <1>7 DEF Part
<1>8. CASE ConfigAlone!ProgramConfig
  <2>1. DOMAIN configMem' = DOMAIN configMem
    BY <1>8 DEF ConfigAlone!ProgramConfig, ConfigAlone!Program
  <2>2. ConfigAlone!Stored' = Part(1 .. ConfigWords)'
    BY <1>7, <1>8 DEF ConfigAlone!ProgramConfig
  <2>3. ConfigAlone!Stored' = ConfigAlone!CellsOf(ConfigAlone!Record(cfg))'
    BY <1>8, <2>2 DEF ConfigAlone!ProgramConfig, Part, ConfigAlone!CellsOf, ConfigAlone!Record
  <2> QED BY <1>8, <2>1, <2>2, <2>3 DEF ConfigAlone!ProgramConfig, Saving, TornIsPart,
                                        WholeOrDefaults
<1>9. CASE ConfigAlone!Verify
  <2>1. ConfigAlone!Stored = ConfigAlone!CellsOf(ConfigAlone!Record(cfg)) /\ torn
    BY <1>9 DEF ConfigAlone!Verify, Saving
  <2>2. ConfigAlone!Verified
    BY <2>1, ConfigLengths DEF ConfigAlone!Verified, ConfigAlone!CrcOf, ConfigAlone!MagicOf,
                               ConfigAlone!CellsOf, ConfigAlone!Record
  <2>3. /\ ConfigAlone!Accepted(ConfigAlone!Stored)'
        /\ ConfigAlone!Stored' = ConfigAlone!CellsOf(ConfigAlone!Record(cfg))
    BY <1>3, <1>9, <2>1, WholeIsAccepted DEF ConfigAlone!Verify
  <2> QED BY <1>9, <2>1, <2>2, <2>3 DEF ConfigAlone!Verify, Saving, TornIsPart, WholeOrDefaults
<1>10. CASE ConfigAlone!Reset
  <2>1. configPc' = "boot" /\ UNCHANGED <<cfg, config, stored, torn>>
    BY <1>10 DEF ConfigAlone!Reset, ConfigAlone!Restart
  <2>2. CASE UNCHANGED configMem
    BY <1>3, <2>1, <2>2 DEF Saving, TornIsPart, WholeOrDefaults, Part, ConfigAlone!Record
  <2>3. CASE ConfigAlone!Cut
    <3>1. PICK kept \in SUBSET (1 .. ConfigWords) :
            /\ configPc = "program"
            /\ configMem' = [a \in DOMAIN configMem |->
                            IF a + 1 \in kept THEN ConfigAlone!Program(configMem, 0, ConfigAlone!Record(cfg))[a]
                                              ELSE configMem[a]]
      BY <2>3 DEF ConfigAlone!Cut
    <3>2. \A k \in 1 .. ConfigWords :
            configMem'[k - 1] =
              IF k \in kept THEN ConfigAlone!Program(configMem, 0, ConfigAlone!Record(cfg))[k - 1]
                           ELSE configMem[k - 1]
      <4>1. \A k \in 1 .. ConfigWords : (k - 1) + 1 = k
        BY ConfigLengths
      <4> QED BY <1>1, <3>1, <4>1
    <3>3. ConfigAlone!Stored' = Part(kept)'
      BY <1>7, <2>1, <3>1, <3>2
    <3>4. torn /\ torn' /\ DOMAIN configMem' = DOMAIN configMem
      BY <2>1, <3>1 DEF Saving
    <3> QED BY <2>1, <3>3, <3>4 DEF Saving, TornIsPart, WholeOrDefaults
  <2> QED BY <1>10, <2>2, <2>3 DEF ConfigAlone!Reset
<1>11. CASE UNCHANGED ConfigAlone!vars
  BY <1>3, <1>11 DEF ConfigAlone!vars, Saving, TornIsPart, WholeOrDefaults, Part, ConfigAlone!Record
<1> QED BY <1>4, <1>5, <1>6, <1>8, <1>9, <1>10, <1>11 DEF ConfigAlone!Next

LEMMA LoadStep ==
  ASSUME ConfigInv, [ConfigAlone!Next]_(ConfigAlone!vars), configPc = "boot", configPc' # "boot"
  PROVE  \/ config' = stored
         \/ /\ torn
            /\ config' \in {ConfigAlone!Defaults, ConfigAlone!CellsOf(ConfigAlone!Record(cfg))}
<1>1. config' = IF ConfigAlone!Accepted(ConfigAlone!Stored) THEN ConfigAlone!Stored
                ELSE ConfigAlone!Defaults
  BY DEF ConfigAlone!Next, ConfigAlone!Load, ConfigAlone!Save, ConfigAlone!EraseConfig,
         ConfigAlone!ProgramConfig, ConfigAlone!Verify, ConfigAlone!Reset, ConfigAlone!vars
<1>2. CASE torn
  BY <1>1, <1>2, AcceptedPartIsWhole DEF ConfigInv, TornIsPart
<1>3. CASE ~torn
  BY <1>1, <1>3 DEF ConfigInv, WholeOrDefaults
<1> QED BY <1>2, <1>3

-----------------------------------------------------------------------------
(***************************************************************************)
(* The configuration in the flash it shares.                               *)
(***************************************************************************)

\* At every moment of save(), and after any reset in it, the flash holds a whole
\* configuration, a part of the one being saved, or nothing a boot would take,
\* whatever the crash log and the recorder do meanwhile.
THEOREM FlashIsSound == Spec => []ConfigInv
<1>1. Placed /\ ConfigInv /\ [Next]_vars => ConfigInv'
  BY ConfigStep, ConfigInvNext
<1>2. Init => ConfigInv
  BY ConfigInit, ConfigInvInit
<1> QED BY <1>1, <1>2, AlwaysPlaced, PTL DEF Spec

\* A configuration that was stored and not erased since is in the flash, whole
\* (ConfigStore::save, config_store.hpp:75-88).
THEOREM SavedStays == Spec => []ConfigAlone!SavedConfigStays
<1>1. ConfigInv => ConfigAlone!SavedConfigStays
  BY DEF ConfigInv, WholeOrDefaults, ConfigAlone!SavedConfigStays
<1> QED BY <1>1, FlashIsSound, PTL

\* A boot loads the configuration last stored, or if a save was cut short the one
\* being saved or the defaults (ConfigStore::load, config_store.hpp:64-73, and
\* uav/main.cpp:27).
THEOREM ConfigurationIsLoaded == Spec => LoadsOneConfig
<1>1. ConfigAlone!Defaults = Config!Defaults
      /\ ConfigAlone!CellsOf(ConfigAlone!Record(cfg)) = Config!CellsOf(Config!Record(cfg))
  BY DEF ConfigAlone!Defaults, Config!Defaults, ConfigAlone!CellsOf, Config!CellsOf,
         ConfigAlone!Record, Config!Record, ConfigAlone!Magic, Config!Magic
<1>2. Placed /\ ConfigInv /\ [Next]_vars =>
        [configPc = "boot" /\ configPc' # "boot" =>
           \/ config' = stored
           \/ torn /\ config' \in {Config!Defaults, Config!CellsOf(Config!Record(cfg))}]_(Config!vars)
  BY <1>1, ConfigStep, LoadStep
<1> QED BY <1>2, FlashIsSound, AlwaysPlaced, PTL DEF Spec, LoadsOneConfig, Config!LoadsOneConfig

=============================================================================
