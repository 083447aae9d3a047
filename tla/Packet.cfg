\* Eight bytes, 64 bits: every damage of one or two bits to every payload over two
\* bytes.
CONSTANTS
  MaxPayloadSize = 3
  Bytes = {1, 170}
  MaxFlips = 2
SPECIFICATION Spec
INVARIANTS
  UndamagedIsAccepted
  
CHECK_DEADLOCK FALSE
