------------------------------- MODULE Packet -------------------------------
(***************************************************************************)
(* A radio packet on its way: buildPacket, bits that flip in the air, and  *)
(* parsePacket with its CRC-16-CCITT, computed as the code computes it.    *)
(* A buffer is the packet's bytes in memory order: sequence number, type,  *)
(* length, payload and its padding, the two bytes of the CRC.              *)
(***************************************************************************)
EXTENDS Integers, FiniteSets, Bitwise, SequencesExt

CONSTANTS
  MaxPayloadSize,  (* MAX_PAYLOAD_SIZE (27)                                *)
  Bytes,           (* the bytes that headers and payloads are made of      *)
  MaxFlips         (* bound on the number of bits flipped in one packet    *)

ASSUME PacketAssumption ==
  /\ MaxPayloadSize \in 1 .. 27 /\ MaxFlips \in Nat
  /\ Bytes \subseteq 0 .. 255

VARIABLES
  sent,   (* the packet as it was built                                    *)
  air,    (* the packet as it arrives                                      *)
  flips,  (* the bits that have flipped, counted from the first byte's low *)
          (* bit                                                           *)
  verdict (* what parsePacket returned, "none" before                      *)

vars == <<sent, air, flips, verdict>>

HeaderSize == 3
PacketSize == HeaderSize + MaxPayloadSize + 2

\* One round of the inner loop of crc16, in 16 bits.
Shift(crc) == IF crc >= 32768 THEN ((crc * 2) % 65536) ^^ 4129 ELSE crc * 2

FeedByte(crc, byte) ==
  FoldLeft(LAMBDA c, i : Shift(c), crc ^^ (byte * 256), <<1, 2, 3, 4, 5, 6, 7, 8>>)

crc16(data) == FoldLeft(FeedByte, 65535, data)

LengthOf(buffer) == buffer[3]
PayloadOf(buffer) == SubSeq(buffer, HeaderSize + 1, HeaderSize + LengthOf(buffer))

\* Mutant: the sender and the receiver disagree on the order of the CRC's bytes.
CrcFieldSwapped(buffer) == 256 * buffer[PacketSize - 1] + buffer[PacketSize]

CrcField(buffer) == buffer[PacketSize - 1] + 256 * buffer[PacketSize]

\* The bytes under the CRC: the header and length bytes of payload.
Covered(buffer) == SubSeq(buffer, 1, HeaderSize + LengthOf(buffer))

buildPacket(seq, type, payload) ==
  LET padding == [i \in 1 .. MaxPayloadSize - Len(payload) |-> 0]
      body == <<seq, type, Len(payload)>> \o payload \o padding
      crc == crc16(Covered(body))
  IN  body \o <<crc % 256, crc \div 256>>


parsePacket(buffer) ==
  /\ LengthOf(buffer) <= MaxPayloadSize
  /\ crc16(Covered(buffer)) = CrcField(buffer)

Payloads == UNION {[1 .. n -> Bytes] : n \in 1 .. MaxPayloadSize}
Bits == 0 .. 8 * PacketSize - 1

FlipBit(buffer, bit) == [buffer EXCEPT ![1 + (bit \div 8)] = @ ^^ (2 ^ (bit % 8))]

TypeOK ==
  /\ {sent, air} \subseteq [1 .. PacketSize -> 0 .. 255]
  /\ flips \in SUBSET Bits
  /\ verdict \in {"none", "accepted", "rejected"}

\* A sender has built a packet.
Init ==
  /\ \E seq \in Bytes, type \in Bytes, payload \in Payloads :
       sent = buildPacket(seq, type, payload)
  /\ air = sent
  /\ flips = {} /\ verdict = "none"

\* The air flips a bit, after those it has flipped.
Flip ==
  /\ verdict = "none" /\ Cardinality(flips) < MaxFlips
  /\ \E bit \in Bits :
       /\ \A f \in flips : f < bit
       /\ air' = FlipBit(air, bit)
       /\ flips' = flips \cup {bit}
  /\ UNCHANGED <<sent, verdict>>

\* The receiving task parses the buffer.
Parse ==
  /\ verdict = "none"
  /\ verdict' = IF parsePacket(air) THEN "accepted" ELSE "rejected"
  /\ UNCHANGED <<sent, air, flips>>

Next == Flip \/ Parse

Spec == Init /\ [][Next]_vars

-----------------------------------------------------------------------------
(***************************************************************************)
(* Properties.                                                             *)
(***************************************************************************)

\* The check value of CRC-16-CCITT that tests/test_crc.cpp:6 expects of crc16,
\* over the text "123456789".
ASSUME KnownVector ==
  crc16(<<49, 50, 51, 52, 53, 54, 55, 56, 57>>) = 10673

\* An undamaged packet of any length is accepted, and gives back its header and
\* its payload.
UndamagedIsAccepted ==
  verdict # "none" /\ flips = {} =>
    verdict = "accepted" /\ Covered(air) = Covered(sent)


\* Known deviation, which no run checks.
\* "CRC-16-CCITT catches corrupted packets" (README.md:70).  The code breaks it:
\* the padding after the payload is not under the CRC, and the receiving task
\* publishes all of the buffer.
AcceptedIsAsSent == verdict = "accepted" => air = sent

=============================================================================
