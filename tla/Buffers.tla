------------------------------ MODULE Buffers ------------------------------
(***************************************************************************)
(* The buffer primitives of src/src/SCSI/SCSIRequest.cpp, through which    *)
(* every SCSI request class builds its CDB and its parameter data and      *)
(* reads what the target returned.                                         *)
(*                                                                         *)
(* An unsigned word is the set of the numbers of its bits that are 1, so   *)
(* that C's shifts and masks are operations on sets.  A buffer is a        *)
(* sequence of bytes; offsets count from 0, as in the code.                *)
(***************************************************************************)
EXTENDS Naturals, Sequences

Byte == SUBSET (0..7)

\* A buffer of n zeroed bytes (createInBuffer, createOutBuffer, the CDB).
Zeroed(n) == [i \in 1..n |-> {}]

\* The bits of a number below 2^31, in a word of w bits.
Word(n, w) == {i \in (0..(w - 1)) \cap (0..30) : (n \div 2^i) % 2 = 1}
-----------------------------------------------------------------------------
(* The operators of C, on its 32 bit int.                                  *)

Shl(x, n) == {i \in 0..31 : i - n \in x}
Shr(x, n) == {i \in 0..31 : i + n \in x}
Not(x) == (0..31) \ x

\* ~(0xFF << bitLength)
LowBits(bitLength) == Not(Shl(0..7, bitLength))
-----------------------------------------------------------------------------
(* Setters.  Each throws, and changes nothing, unless its field is inside  *)
(* the buffer and its value fits.                                          *)

\* CHECK_BUFFER_OVERFLOW and CHECK_BUFFER_OVERREAD
Inside(buffer, byteOffset, byteLength) == byteOffset + byteLength <= Len(buffer)

\* CHECK_BYTE_BOUNDARY, and the test of val
FitsBits(startBit, bitLength, val) == startBit + bitLength <= 8 /\ Shr(val, bitLength) = {}

\* Mutant: the old value of the field is not masked out.
OrBits(byte, startBit, bitLength, val) == (byte \cup Shl(val, startBit)) \cap (0..7)

\* The assignment of setBufferBitArray
WithBits(byte, startBit, bitLength, val) ==
  ((byte \cap Not(Shl(LowBits(bitLength), startBit))) \cup Shl(val, startBit)) \cap (0..7)

setBufferBitArray(buffer, byteOffset, startBit, bitLength, val) ==
  [buffer EXCEPT ![byteOffset + 1] = WithBits(@, startBit, bitLength, val)]

setBufferBool(buffer, byteOffset, bitOffset, val) ==
  setBufferBitArray(buffer, byteOffset, bitOffset, 1, IF val THEN {0} ELSE {})

setBufferByte(buffer, byteOffset, val) == [buffer EXCEPT ![byteOffset + 1] = val]

\* memcpy of bytes into the buffer (setBufferString)
setBufferString(buffer, byteOffset, bytes) ==
  [i \in 1..Len(buffer) |->
     IF i - byteOffset \in 1..Len(bytes) THEN bytes[i - byteOffset] ELSE buffer[i]]

\* htons, htonl: the n bytes of a word, the most significant one first.
NetworkOrder(val, n) == [i \in 1..n |-> Shr(val, 8 * (n - i)) \cap (0..7)]

setBufferShort(buffer, byteOffset, val) ==
  setBufferString(buffer, byteOffset, NetworkOrder(val, 2))

setBufferLong(buffer, byteOffset, val) ==
  setBufferString(buffer, byteOffset, NetworkOrder(val, 4))

\* Mutant: sizeof(uint32_t) in the memcpy, as in the test before it.
HalfLongLong(buffer, byteOffset, val) ==
  setBufferString(buffer, byteOffset, SubSeq(NetworkOrder(val, 8), 1, 4))

setBufferLongLong(buffer, byteOffset, val) ==
  setBufferString(buffer, byteOffset, NetworkOrder(val, 8))
-----------------------------------------------------------------------------
(* Getters.                                                                *)

GetBufferString(buffer, byteOffset, byteLength) ==
  SubSeq(buffer, byteOffset + 1, byteOffset + byteLength)

\* The expression of GetInBufferBitArray
BitsOf(byte, startBit, bitLength) == (Shr(byte, startBit) \cap LowBits(bitLength)) \cap (0..7)

GetBufferBitArray(buffer, byteOffset, startBit, bitLength) ==
  BitsOf(buffer[byteOffset + 1], startBit, bitLength)

GetBufferBool(buffer, byteOffset, bitOffset) ==
  GetBufferBitArray(buffer, byteOffset, bitOffset, 1) # {}

\* ntohs, ntohl: the word whose bytes these are.
HostOrder(bytes) ==
  {i \in 0..(8 * Len(bytes) - 1) : i % 8 \in bytes[Len(bytes) - (i \div 8)]}

GetBufferShort(buffer, byteOffset) == HostOrder(GetBufferString(buffer, byteOffset, 2))
GetBufferLong(buffer, byteOffset) == HostOrder(GetBufferString(buffer, byteOffset, 4))
=============================================================================
