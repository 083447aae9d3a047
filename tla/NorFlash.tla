------------------------------ MODULE NorFlash ------------------------------
(***************************************************************************)
(* The W25Q64 flash as its driver W25q64 uses it, one operator per driver  *)
(* call, over a memory that maps each address to a cell.                   *)
(*                                                                         *)
(* Erasing sets every bit of a sector and programming can only clear bits, *)
(* so a cell is the set of the words programmed into it since it was       *)
(* erased: {} reads as all ones, {w} reads as w, and a cell with two words *)
(* holds the bitwise AND of both, which the model takes to be neither.     *)
(* The address within a page wraps around: words past the end of the page  *)
(* go to its beginning.                                                    *)
(***************************************************************************)
EXTENDS Integers, Sequences

CONSTANTS
  PageWords,    (* words in a page, the unit of programming (256 bytes)    *)
  SectorWords   (* words in a sector, the unit of erasing (4096 bytes)     *)

ASSUME FlashAssumption ==
  /\ PageWords \in Nat /\ SectorWords \in Nat
  /\ 0 < PageWords /\ 0 < SectorWords
  /\ SectorWords % PageWords = 0

Erased == {}

\* Where word number i, from 0, of a page program at addr goes.
Target(addr, i) ==
  (addr - (addr % PageWords)) + (((addr % PageWords) + i) % PageWords)

\* writePage: programs at most one page of words.
Program(mem, addr, words) ==
  LET len == IF Len(words) > PageWords THEN PageWords ELSE Len(words)
  IN  [a \in DOMAIN mem |->
         mem[a] \cup {words[i + 1] : i \in {j \in 0 .. len - 1 : Target(addr, j) = a}}]

EraseSector(mem, addr) ==
  [a \in DOMAIN mem |->
     IF a \div SectorWords = addr \div SectorWords THEN Erased ELSE mem[a]]

\* read: len cells from addr on, across pages.
Read(mem, addr, len) == [i \in 1 .. len |-> mem[addr + i - 1]]

\* The cells that read as these words, and nothing else.
CellsOf(words) == [i \in DOMAIN words |-> {words[i]}]

=============================================================================
