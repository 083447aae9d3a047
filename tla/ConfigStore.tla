---------------------------- MODULE ConfigStore ----------------------------
(***************************************************************************)
(* The configuration in its flash sector: save() erases the sector,        *)
(* programs the record and reads it back, load() runs at every boot and    *)
(* takes the record only when its magic and its CRC are right.  A reset    *)
(* ends save() between two flash operations, or in the middle of the page  *)
(* program; a power loss there leaves any of the record's words            *)
(* programmed.  Addresses are words; FLASH_CONFIG_ADDR is 0.               *)
(***************************************************************************)
EXTENDS NorFlash

CONSTANTS
  ConfigWords,  (* words in a Config, the first its magic, the last its CRC *)
  MaxSaves      (* bound on the number of saves                             *)

ConfigStoreAssumption ==
  /\ ConfigWords \in Nat /\ MaxSaves \in Nat
  /\ 2 < ConfigWords /\ ConfigWords <= PageWords

VARIABLES
  mem,      (* the configuration sector                                    *)
  pc,       (* "boot", "running", or the next flash operation of save()    *)
  cfg,      (* the number of the last configuration passed to save()       *)
  config,   (* what main() loaded, as cells                                *)
  stored,   (* history: what save() last reported stored, or a boot has    *)
            (* loaded since                                                *)
  torn      (* history: since then a save has erased the sector            *)

vars == <<mem, pc, cfg, config, stored, torn>>

Magic == <<0, 1>>

\* The record of configuration c, 0 for defaults().  Its CRC, the last word, stands
\* for the rest: the model leaves out that two contents may have the same CRC.
Record(c) == [k \in 1 .. ConfigWords |-> IF k = 1 THEN Magic ELSE <<c, k>>]

Words == {Magic} \cup ((0 .. MaxSaves) \X (2 .. ConfigWords))
Defaults == CellsOf(Record(0))

Stored == Read(mem, 0, ConfigWords)
MagicOf(cells) == cells[1]
CrcOf(cells) == cells[ConfigWords]

TypeOK ==
  /\ mem \in [0 .. SectorWords - 1 -> SUBSET Words]
  /\ pc \in {"boot", "running", "erase", "program", "verify"}
  /\ cfg \in 0 .. MaxSaves
  /\ {config, stored} \subseteq [1 .. ConfigWords -> SUBSET Words]
  /\ torn \in BOOLEAN

Init ==
  /\ mem = [a \in 0 .. SectorWords - 1 |-> Erased]
  /\ pc = "boot"
  /\ cfg = 0 /\ config = Defaults /\ stored = Defaults /\ torn = FALSE

\* Mutant: load looks at the magic only.
AcceptedOnMagic(cells) == MagicOf(cells) = {Magic}

\* load takes a record when its magic is right and its CRC is that of its content.
Accepted(cells) == \E c \in 0 .. MaxSaves : cells = CellsOf(Record(c))

\* main() loads the configuration at boot.
Load ==
  /\ pc = "boot"
  /\ pc' = "running"
  /\ config' = IF Accepted(Stored) THEN Stored ELSE Defaults
  /\ stored' = config' /\ torn' = FALSE
  /\ UNCHANGED <<mem, cfg>>

Save ==
  /\ pc = "running" /\ cfg < MaxSaves
  /\ cfg' = cfg + 1
  /\ pc' = "erase"
  /\ UNCHANGED <<mem, config, stored, torn>>

EraseConfig ==
  /\ pc = "erase"
  /\ mem' = EraseSector(mem, 0)
  /\ pc' = "program"
  /\ torn' = TRUE
  /\ UNCHANGED <<cfg, config, stored>>

ProgramConfig ==
  /\ pc = "program"
  /\ mem' = Program(mem, 0, Record(cfg))
  /\ pc' = "verify"
  /\ UNCHANGED <<cfg, config, stored, torn>>

\* Only the CRC and the magic are compared.
Verified == CrcOf(Stored) = {<<cfg, ConfigWords>>} /\ MagicOf(Stored) = {Magic}

\* The end of save(), which returns Verified.
Verify ==
  /\ pc = "verify"
  /\ pc' = "running"
  /\ stored' = IF Verified THEN CellsOf(Record(cfg)) ELSE stored
  /\ torn' = (torn /\ ~Verified)
  /\ UNCHANGED <<mem, cfg, config>>

\* A page program that a loss of power cuts short: some of the words are programmed.
Cut ==
  \E kept \in SUBSET (1 .. ConfigWords) :
    /\ pc = "program"
    /\ mem' = [a \in DOMAIN mem |->
                 IF a + 1 \in kept THEN Program(mem, 0, Record(cfg))[a] ELSE mem[a]]

\* What is left after a reset, but for the flash.
Restart ==
  /\ pc' = "boot"
  /\ UNCHANGED <<cfg, config, stored, torn>>

\* A reset or a power loss.
Reset ==
  /\ pc # "boot"
  /\ UNCHANGED mem \/ Cut
  /\ Restart

Next == Load \/ Save \/ EraseConfig \/ ProgramConfig \/ Verify \/ Reset

Spec == Init /\ [][Next]_vars

-----------------------------------------------------------------------------
(***************************************************************************)
(* Properties.                                                             *)
(***************************************************************************)

\* A boot runs on the configuration that was last stored, and only when a save
\* has erased the sector since on the one it was storing or on the defaults: never
\* on a mixture, an older one, or one that was not saved, whatever cut the save
\* short and however many boots and saves there were before.
LoadsOneConfig ==
  [][pc = "boot" /\ pc' # "boot" =>
       config' = stored \/ (torn /\ config' \in {Defaults, CellsOf(Record(cfg))})]_vars

\* A configuration that was stored and not erased since is in the flash, whole,
\* over any number of reboots.
SavedConfigStays == stored # Defaults /\ ~torn => Stored = stored

\* Known deviation, which no run checks.
\* "Parameter storage in flash (PID gains, servo cal, settings persist across
\* reboots)" (TODO.md:27): once a configuration has been stored, a boot finds it
\* or a later one.  The code breaks it: save() erases the only copy before it
\* programs the new one, and a reset in between leaves the defaults.
SettingsPersist == [][pc = "boot" /\ pc' # "boot" /\ stored # Defaults => config' # Defaults]_vars

=============================================================================
