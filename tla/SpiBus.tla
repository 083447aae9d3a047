------------------------------- MODULE SpiBus -------------------------------
(***************************************************************************)
(* The bytes on SPI1, which flash and radio share with one chip select     *)
(* (PA4) and no lock.  LoggerTask (priority 1) writes entries to the flash *)
(* through the driver W25q64; RadioRxTask (priority 2) polls the radio     *)
(* between any two bytes of that, and between the two halves of            *)
(* Spi::transfer, writing a byte and reading the reply; a hard fault may   *)
(* come there too, and its handler writes to the crash log.                *)
(*                                                                         *)
(* The addressed words of NorFlash are bytes here.  Only the bytes of      *)
(* Cells are modelled of the flash's memory, 2 of a crash entry and        *)
(* EntryBytes of a LogEntry.  The flash listens to every frame, which is   *)
(* what is on the bus while the chip select is low.  A round of the radio  *)
(* is one step, in which the flash's own end of work is left out, and so   *)
(* are the hard faults within one.                                         *)
(***************************************************************************)
EXTENDS NorFlash

CONSTANTS
  Cells,        (* the addresses modelled                                  *)
  Starts,       (* the sectors the recorder may have reached               *)
  EntryBytes,   (* bytes in a LogEntry                                     *)
  MaxEntries,   (* bound on the entries, one less in each later boot       *)
  MaxCrashes    (* bound on the hard faults                                *)

ASSUME BusAssumption ==
  /\ Cells \subseteq Nat /\ Starts \subseteq Nat
  /\ EntryBytes \in Nat \ {0} /\ MaxEntries \in Nat /\ MaxCrashes \in Nat
  /\ SectorWords = 4096   \* as the addresses below suppose

VARIABLES
  flash,      (* the chip: its memory, write enable latch and busy bit     *)
  cs,         (* the chip select, "low" or "high"                          *)
  frame,      (* the bytes the flash has seen since the chip select fell   *)
  inFlight,   (* the logger has written a byte and not read its reply      *)
  op,         (* the driver call being made, with its address              *)
  script,     (* what is left of it, as steps on the bus                   *)
  hasMagic,   (* what the fault handler has read                           *)
  writeAddr, entryCount,  (* the members of LoggerTask                     *)
  crash,      (* the number of hard faults                                 *)
  disturbed,  (* history: somebody else came into a frame of the call, or  *)
              (* the flash was busy when it began                          *)
  want        (* history: the memory the call is to leave, until disturbed *)

vars == <<flash, cs, frame, inFlight, op, script, hasMagic, writeAddr, entryCount,
          crash, disturbed, want>>

-----------------------------------------------------------------------------
(***************************************************************************)
(* The driver of the flash: each call is a sequence of steps on the bus.   *)
(***************************************************************************)
WRITE_ENABLE == 6
READ_STATUS == 5
PAGE_PROGRAM == 2
READ_DATA == 3
SECTOR_ERASE == 32

csLow == [do |-> "low"]
csHigh == [do |-> "high"]
transfer(byte) == [do |-> "byte", byte |-> byte]
untilReady == [do |-> "poll", byte |-> 0]
takeMagic == [do |-> "take", byte |-> 0]

AddressBytes(addr) == <<addr \div 65536, (addr \div 256) % 256, addr % 256>>
sendAddress(addr) == [i \in 1 .. 3 |-> transfer(AddressBytes(addr)[i])]

\* Mutant: the latch is not set.
writeEnableForgotten == <<>>

writeEnable == <<csLow, transfer(WRITE_ENABLE), csHigh>>

waitBusy == <<csLow, transfer(READ_STATUS), untilReady, csHigh>>

read(addr) == <<csLow, transfer(READ_DATA)>> \o sendAddress(addr) \o <<takeMagic, csHigh>>

writePage(addr, data) ==
  writeEnable \o <<csLow, transfer(PAGE_PROGRAM)>> \o sendAddress(addr)
    \o [i \in DOMAIN data |-> transfer(data[i])] \o <<csHigh>> \o waitBusy

eraseSector(addr) ==
  writeEnable \o <<csLow, transfer(SECTOR_ERASE)>> \o sendAddress(addr) \o <<csHigh>>
    \o waitBusy

-----------------------------------------------------------------------------
(***************************************************************************)
(* The flash.  It takes an instruction when the chip select rises after    *)
(* its last byte, a page program after one byte of data or more; while it  *)
(* is busy it takes none but the status read.  A byte of ones programs     *)
(* nothing.                                                                *)
(***************************************************************************)
Ones == 255
Ignored == <<0>>

Received(f, seen, byte) ==
  IF seen = <<>> /\ f.busy /\ byte # READ_STATUS THEN Ignored
  ELSE IF seen \in {Ignored, <<READ_STATUS>>} THEN seen
  ELSE Append(seen, byte)

AddressIn(seen) == (seen[2] * 65536) + (seen[3] * 256) + seen[4]

Stored(mem, addr, data) ==
  [a \in Cells |-> IF \E i \in DOMAIN data : Target(addr, i - 1) = a
                     THEN Program(mem, addr, data)[a] \ {Ones} ELSE mem[a]]

Latched(f, seen) ==
  CASE seen = <<WRITE_ENABLE>> ->
         [f EXCEPT !.wel = TRUE]
    [] f.wel /\ Len(seen) = 4 /\ seen[1] = SECTOR_ERASE ->
         [mem |-> EraseSector(f.mem, AddressIn(seen)), wel |-> FALSE, busy |-> TRUE]
    [] f.wel /\ Len(seen) > 4 /\ seen[1] = PAGE_PROGRAM ->
         [mem |-> Stored(f.mem, AddressIn(seen), SubSeq(seen, 5, Len(seen))),
          wel |-> FALSE, busy |-> TRUE]
    [] OTHER -> f

\* The end of a frame.  When the reply to an earlier byte was still to be read, each
\* transfer has returned the reply before its own, so the chip select rises within
\* the last byte, and nothing is taken.
EndOfFrame(f, seen) == IF inFlight THEN f ELSE Latched(f, seen)

FlashDone ==
  /\ flash.busy
  /\ flash' = [flash EXCEPT !.busy = FALSE]
  /\ UNCHANGED <<cs, frame, inFlight, op, script, hasMagic, writeAddr, entryCount,
                 crash, disturbed, want>>

-----------------------------------------------------------------------------
(***************************************************************************)
(* What the calls are made for.                                            *)
(***************************************************************************)
Blank == [a \in Cells |-> Erased]
None == [kind |-> "none", addr |-> 0]
InHandler == op.kind \in {"find", "record"}

\* Numbers that are no instructions, so that a stray one shows.
LogEntry(n) == [i \in 1 .. EntryBytes |-> 64 + n]
Magic == 173
CrashEntry(c) == <<Magic, 128 + c>>

CrashSector == 4096
FLASH_BLACKBOX_ADDR == 8192
SlotAddr(i) == CrashSector + 4 + (48 * i)

\* alignToPage, which the entries of these bounds do not need: an entry ends in the page
\* it begins in, and the entries of a page leave two bytes or more (of 48 bytes, 16).
ASSUME RoomAssumption ==
  \A start \in Starts \cup {FLASH_BLACKBOX_ADDR} : \A n \in 0 .. MaxEntries - 1 :
    ((start + (n * EntryBytes)) % PageWords) + EntryBytes + 2 <= PageWords

\* What the handler is to leave: the entry in the first free slot, or alone in the
\* log when that is full.
Free(mem) == {i \in 0 .. MaxCrashes : mem[SlotAddr(i)] # {Magic}}
FirstFree(mem) == CHOOSE i \in Free(mem) : \A j \in Free(mem) : i <= j
Recorded(mem, c) ==
  IF Free(mem) # {} THEN Stored(mem, SlotAddr(FirstFree(mem)), CrashEntry(c))
  ELSE Stored(EraseSector(mem, CrashSector), SlotAddr(0), CrashEntry(c))

\* The crash log holds any number of earlier crashes; the rest is in use.
FormerMemory(crashes) ==
  [a \in Cells |->
     CASE a \div SectorWords # 1                           -> {1}
       [] \E i \in 0 .. crashes - 1 : a = SlotAddr(i)      -> {Magic}
       [] \E i \in 0 .. crashes - 1 : a = SlotAddr(i) + 1  -> {128}
       [] OTHER                                            -> Erased]

Init ==
  /\ \E crashes \in 0 .. MaxCrashes + 1 :
       flash = [mem |-> FormerMemory(crashes), wel |-> FALSE, busy |-> FALSE]
  /\ cs = "high" /\ frame = <<>> /\ inFlight = FALSE
  /\ op = None /\ script = <<>> /\ hasMagic = FALSE
  /\ writeAddr \in Starts /\ entryCount = 0
  /\ crash = 0 /\ disturbed = FALSE /\ want = Blank

Begin(kind, addr, steps, result) ==
  /\ op' = [kind |-> kind, addr |-> addr]
  /\ script' = steps
  /\ disturbed' = flash.busy
  /\ want' = IF disturbed' THEN Blank ELSE result

Erase == Begin("erase", writeAddr, eraseSector(writeAddr), EraseSector(flash.mem, writeAddr))

Write ==
  Begin("program", writeAddr, writePage(writeAddr, LogEntry(entryCount)),
        Stored(flash.mem, writeAddr, LogEntry(entryCount)))

\* writeEntry erases a sector that begins here, and then writes the entry.
WriteEntry ==
  /\ op = None /\ entryCount + crash < MaxEntries
  /\ IF writeAddr % SectorWords = 0 THEN Erase ELSE Write
  /\ UNCHANGED <<flash, cs, frame, inFlight, hasMagic, writeAddr, entryCount, crash>>

SectorErased ==
  /\ op.kind = "erase" /\ script = <<>>
  /\ Write
  /\ UNCHANGED <<flash, cs, frame, inFlight, hasMagic, writeAddr, entryCount, crash>>

EntryWritten ==
  /\ op.kind = "program" /\ script = <<>>
  /\ op' = None
  /\ writeAddr' = writeAddr + EntryBytes /\ entryCount' = entryCount + 1
  /\ disturbed' = FALSE /\ want' = Blank
  /\ UNCHANGED <<flash, cs, frame, inFlight, script, hasMagic, crash>>

\* A hard fault in the logger: the handler looks for a free slot, over what the
\* logger has left of its call.
HardFault ==
  /\ ~InHandler /\ crash < MaxCrashes
  /\ crash' = crash + 1
  /\ op' = [kind |-> "find", addr |-> SlotAddr(0)]
  /\ script' = read(SlotAddr(0))
  /\ disturbed' = (flash.busy \/ cs = "low" \/ inFlight)
  /\ want' = IF disturbed' THEN Blank ELSE Recorded(flash.mem, crash')
  /\ UNCHANGED <<flash, cs, frame, inFlight, hasMagic, writeAddr, entryCount>>

\* The slot's magic decides whether to go on to the next; past the last one the
\* sector is erased.
SlotRead ==
  /\ op.kind = "find" /\ script = <<>>
  /\ \/ /\ hasMagic /\ op.addr < SlotAddr(MaxCrashes)
        /\ op' = [op EXCEPT !.addr = @ + 48]
        /\ script' = read(op.addr + 48)
     \/ /\ hasMagic /\ op.addr = SlotAddr(MaxCrashes)
        /\ op' = [kind |-> "record", addr |-> SlotAddr(0)]
        /\ script' = eraseSector(CrashSector) \o writePage(SlotAddr(0), CrashEntry(crash))
     \/ /\ ~hasMagic
        /\ op' = [op EXCEPT !.kind = "record"]
        /\ script' = writePage(op.addr, CrashEntry(crash))
  /\ UNCHANGED <<flash, cs, frame, inFlight, hasMagic, writeAddr, entryCount, crash,
                 disturbed, want>>

\* The handler ends in a reset, after which the recorder starts over.
SystemReset ==
  /\ op.kind = "record" /\ script = <<>>
  /\ op' = None /\ inFlight' = FALSE /\ hasMagic' = FALSE
  /\ writeAddr' = FLASH_BLACKBOX_ADDR /\ entryCount' = 0
  /\ disturbed' = FALSE /\ want' = Blank
  /\ UNCHANGED <<flash, cs, frame, script, crash>>

-----------------------------------------------------------------------------
(***************************************************************************)
(* Steps on the bus.                                                       *)
(***************************************************************************)
NextStep(do) == script # <<>> /\ Head(script).do \in do

LowerCs ==
  /\ NextStep({"low"})
  /\ cs' = "low"
  /\ frame' = IF cs = "low" THEN frame ELSE <<>>
  /\ script' = Tail(script)
  /\ UNCHANGED <<flash, inFlight, op, hasMagic, writeAddr, entryCount, crash, disturbed, want>>

RaiseCs ==
  /\ NextStep({"high"})
  /\ cs' = "high" /\ frame' = <<>>
  /\ flash' = IF cs = "low" THEN EndOfFrame(flash, frame) ELSE flash
  /\ script' = Tail(script)
  /\ UNCHANGED <<inFlight, op, hasMagic, writeAddr, entryCount, crash, disturbed, want>>

OnBus(byte) == frame' = IF cs = "low" THEN Received(flash, frame, byte) ELSE frame

\* Mutant: the whole status is taken for the busy bit, protection bits included.
StatusRepliesWhole ==
  IF cs = "low" /\ frame # <<>> /\ frame[1] = READ_STATUS THEN {FALSE} ELSE BOOLEAN

\* What a reply says: nobody drives the line when the flash is not selected or has
\* not been asked.
StatusReplies ==
  IF cs = "low" /\ frame # <<>> /\ frame[1] = READ_STATUS THEN {~flash.busy} ELSE BOOLEAN
MagicReplies ==
  IF cs = "low" /\ ~inFlight /\ frame = <<READ_DATA>> \o AddressBytes(op.addr)
    THEN {flash.mem[op.addr] = {Magic}} ELSE BOOLEAN

\* After a reply, a poll goes on until the flash is ready.
AfterReply ==
  CASE Head(script).do = "byte" -> script' = Tail(script) /\ UNCHANGED hasMagic
    [] Head(script).do = "poll" ->
         \E ready \in IF InHandler /\ inFlight THEN BOOLEAN ELSE StatusReplies :
           script' = (IF ready THEN Tail(script) ELSE script) /\ UNCHANGED hasMagic
    [] OTHER -> hasMagic' \in MagicReplies /\ script' = Tail(script)

\* transfer, up to the byte's being written.
Put ==
  /\ NextStep({"byte", "poll"}) /\ ~InHandler /\ ~inFlight
  /\ OnBus(Head(script).byte)
  /\ inFlight' = TRUE
  /\ UNCHANGED <<flash, cs, op, script, hasMagic, writeAddr, entryCount, crash, disturbed, want>>

\* The rest of transfer: the reply is read.
Get ==
  /\ inFlight /\ ~InHandler
  /\ inFlight' = FALSE
  /\ AfterReply
  /\ UNCHANGED <<flash, cs, frame, op, writeAddr, entryCount, crash, disturbed, want>>

\* A whole transfer of the handler, which nobody preempts.
HandlerTransfer ==
  /\ NextStep({"byte", "poll", "take"}) /\ InHandler
  /\ OnBus(Head(script).byte)
  /\ AfterReply
  /\ UNCHANGED <<flash, cs, inFlight, op, writeAddr, entryCount, crash, disturbed, want>>

-----------------------------------------------------------------------------
(***************************************************************************)
(* The radio.                                                              *)
(***************************************************************************)
\* Mutant: the flags are read from FIFO_STATUS.
NRF_STATUS_Fifo == 23

NRF_STATUS == 7
NRF_W_REGISTER == 32
NRF_R_RX_PAYLOAD == 97
NRF_RX_DR == 64

\* Mutant: zeros are sent to clock out a reply.
NRF_NOP_Zero == 0

NRF_NOP == 255

readReg(reg) == <<reg, NRF_NOP>>
writeReg(reg, value) == <<NRF_W_REGISTER + reg, value>>
readPayload == <<NRF_R_RX_PAYLOAD, NRF_NOP, NRF_NOP>>

\* One round of RadioRxTask, up to its delay: the status, and the payload when there
\* is one.  Its first frame goes on where the logger was, if that had pulled the chip
\* select low.
RadioRound(available) ==
  LET status == IF cs = "low" THEN frame \o readReg(NRF_STATUS) ELSE readReg(NRF_STATUS)
      polled == IF flash.busy THEN flash ELSE EndOfFrame(flash, status)
      paid   == IF polled.busy THEN polled ELSE EndOfFrame(polled, readPayload)
      clear  == writeReg(NRF_STATUS, NRF_RX_DR)
  IN  /\ ~InHandler
      /\ flash' = IF ~available THEN polled
                  ELSE IF paid.busy THEN paid ELSE EndOfFrame(paid, clear)
      /\ cs' = "high" /\ frame' = <<>>
      /\ disturbed' = (disturbed \/ cs = "low")
      /\ want' = IF disturbed' THEN Blank ELSE want
      /\ UNCHANGED <<inFlight, op, script, hasMagic, writeAddr, entryCount, crash>>

-----------------------------------------------------------------------------
Logger == WriteEntry \/ SectorErased \/ EntryWritten \/ LowerCs \/ RaiseCs \/ Put \/ Get
Handler == SlotRead \/ SystemReset \/ HandlerTransfer

Next ==
  \/ Logger \/ Handler \/ FlashDone \/ HardFault
  \/ \E available \in BOOLEAN : RadioRound(available)

\* The logger and the handler go on; a busy flash ends.
Spec == Init /\ [][Next]_vars /\ WF_vars(Logger) /\ WF_vars(Handler) /\ WF_vars(FlashDone)

-----------------------------------------------------------------------------
(***************************************************************************)
(* Properties.                                                             *)
(***************************************************************************)

\* Every variable has its type; a frame is of bytes.
TypeOK ==
  /\ flash.mem \in [Cells -> SUBSET (0 .. 255)] /\ flash.wel \in BOOLEAN /\ flash.busy \in BOOLEAN
  /\ cs \in {"low", "high"} /\ frame \in Seq(0 .. 255)
  /\ {inFlight, hasMagic, disturbed} \subseteq BOOLEAN
  /\ op.kind \in {"none", "erase", "program", "find", "record"}
  /\ entryCount \in 0 .. MaxEntries /\ crash \in 0 .. MaxCrashes

\* A driver call into whose frames nobody comes does what it is for, byte for byte,
\* and returns when the flash is ready: erase, page program, and the record of a
\* hard fault that comes with the bus at rest, in the first free slot or, when there is
\* none, in the first one of the erased sector.  The radio's polls between the frames of
\* a call, write enabled or busy, change nothing.  It says nothing of a call that the radio
\* comes into, as it does in flight into nearly every erase, whose poll holds the select
\* low for longer than the radio's period; what such calls may do is below.
UndisturbedIsWhole ==
  op # None /\ op.kind # "find" /\ script = <<>> /\ ~disturbed =>
    flash.mem = want /\ ~flash.busy

\* Whatever the radio's bytes turn an erase into, it is the sector asked for or the
\* first one of its block of 64 KB: never the crash log, never recorded entries in
\* between.
StrayErasesHitBlockStarts ==
  [][\A a \in Cells :
       flash'.mem[a] = Erased /\ flash.mem[a] # Erased =>
         a \div SectorWords \in {op.addr \div SectorWords, (op.addr \div 65536) * 16}]_vars

\* Whatever the radio's bytes turn a page program into, it programs the entry asked
\* for and at most the two bytes behind it: entries written before stay as they are.
StrayProgramsStayInEntry ==
  [][~InHandler =>
       \A a \in Cells :
         ~(flash'.mem[a] \subseteq flash.mem[a]) =>
           a \in op.addr .. op.addr + EntryBytes + 1]_vars

\* A call that nobody comes into ends; so nothing is said of a poll of the busy bit that
\* the radio disturbs, which reads a line that nobody drives.
CallsEnd == op # None ~> op = None \/ disturbed

\* Known deviations, which no run checks.
\* "config" and crash log are sectors of their own (flash_map.hpp): writing the
\* flight recorder leaves the configuration alone.  The code breaks it: the radio's
\* poll after the first address byte of an erase makes it one of the block's first
\* sector, which is the configuration's while the recorder is in the first block.
ConfigSurvives == [][flash'.mem[0] = flash.mem[0]]_vars

\* Every hard fault is recorded.  The code breaks it: the handler writes to a flash
\* that may be busy, or within a frame of the logger's.
CrashIsRecorded ==
  op.kind = "record" /\ script = <<>> =>
    \E i \in 0 .. MaxCrashes : \A k \in 1 .. 2 : flash.mem[SlotAddr(i) + k - 1] = {CrashEntry(crash)[k]}

\* The radio keeps the set-up of Nrf24l01::init, as no other frame it hears writes to
\* its CONFIG register.  The code breaks it: a sector erase is W_REGISTER of CONFIG
\* to the radio, on the same chip select, with the block's number as its value.
RadioStaysConfigured ==
  [][cs = "low" /\ cs' = "high" /\ Len(frame) > 1 => frame[1] # NRF_W_REGISTER]_vars

=============================================================================
