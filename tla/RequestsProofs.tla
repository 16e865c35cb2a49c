--------------------------- MODULE RequestsProofs ---------------------------
(***************************************************************************)
(* What module Requests says of a PERSISTENT RESERVE OUT request holds for *)
(* every set of actions, types, keys, lists and port IDs.  The first part  *)
(* is about the operators of module Buffers: the shifts and masks of       *)
(* setBufferBitArray and GetInBufferBitArray, for every field of a byte,   *)
(* and the byte order of the accesses to words, for every value.  The      *)
(* second is about the buffer primitives and where the fields are, the     *)
(* third has a lemma for each action.  The lemmas are stated of a buffer b *)
(* and of the buffer c that a setter makes of it; where a solver is to     *)
(* apply one to numbers, its conclusion is a predicate with a name.        *)
(***************************************************************************)
EXTENDS Requests, SequenceTheorems, TLAPS

\* ~(0xFF << bitLength) has more bits than the comments show (the int is wider
\* than the byte), but none of them can be in the byte.
LEMMA LowBitsOfByte ==
  ASSUME NEW bitLength \in 0..8, NEW i \in 0..7
  PROVE  i \in LowBits(bitLength) <=> i < bitLength
BY DEF LowBits, Not, Shl

\* Which bits setBufferBitArray leaves in the byte.
LEMMA BitsWritten ==
  ASSUME NEW byte \in Byte, NEW val \in Byte,
         NEW startBit \in Nat, NEW bitLength \in Nat,
         FitsBits(startBit, bitLength, val), NEW i \in 0..7
  PROVE  i \in WithBits(byte, startBit, bitLength, val) <=>
           IF startBit <= i /\ i < startBit + bitLength THEN i - startBit \in val
                                                        ELSE i \in byte
<1>1. startBit \in 0..8 /\ bitLength \in 0..8 /\ startBit + bitLength <= 8
  BY DEF FitsBits
<1>2. i \in WithBits(byte, startBit, bitLength, val) <=>
        (i \in byte /\ ~(i - startBit \in LowBits(bitLength))) \/ i - startBit \in val
  BY DEF WithBits, Not, Shl
<1>3. i - startBit \in val => startBit <= i /\ i < startBit + bitLength
  <2>1. SUFFICES ASSUME i - startBit \in val, ~(i - startBit < bitLength)
                 PROVE  FALSE
    BY <1>1 DEF Byte
  <2>2. i - startBit \in 0..7 /\ i - startBit - bitLength \in 0..31
    BY <1>1, <2>1 DEF Byte
  <2>3. (i - startBit - bitLength) + bitLength = i - startBit
    BY <1>1
  <2>4. i - startBit - bitLength \in Shr(val, bitLength)
    BY <2>1, <2>2, <2>3 DEF Shr
  <2> QED BY <2>4 DEF FitsBits
<1>4. CASE startBit <= i
  <2>1. i - startBit \in 0..7
    BY <1>1, <1>4
  <2>2. i - startBit \in LowBits(bitLength) <=> i - startBit < bitLength
    BY <1>1, <2>1, LowBitsOfByte
  <2> QED BY <1>1, <1>2, <1>3, <1>4, <2>1, <2>2
<1>5. CASE ~(startBit <= i)
  <2>1. i - startBit \notin 0..31
    BY <1>1, <1>5
  <2>2. i - startBit \notin LowBits(bitLength)
    BY <2>1 DEF LowBits, Not
  <2> QED BY <1>1, <1>2, <1>3, <1>5, <2>2
<1> QED BY <1>4, <1>5

\* The bits outside the field keep their values: SetAPTPL leaves ALL_TG_PT and
\* SPEC_I_PT alone, which are in the same byte.
THEOREM OtherBitsKept ==
  ASSUME NEW byte \in Byte, NEW val \in Byte,
         NEW startBit \in Nat, NEW bitLength \in Nat,
         FitsBits(startBit, bitLength, val),
         NEW i \in 0..7, i < startBit \/ startBit + bitLength <= i
  PROVE  i \in WithBits(byte, startBit, bitLength, val) <=> i \in byte
BY BitsWritten

\* GetInBufferBitArray reads back what setBufferBitArray has accepted.
THEOREM BitsReadBack ==
  ASSUME NEW byte \in Byte, NEW val \in Byte,
         NEW startBit \in Nat, NEW bitLength \in Nat,
         FitsBits(startBit, bitLength, val)
  PROVE  BitsOf(WithBits(byte, startBit, bitLength, val), startBit, bitLength) = val
<1> DEFINE new == WithBits(byte, startBit, bitLength, val)
<1>1. startBit \in 0..8 /\ bitLength \in 0..8 /\ startBit + bitLength <= 8
  BY DEF FitsBits
<1>2. new \subseteq 0..7
  BY DEF WithBits
<1>3. \A j \in 0..7 :
        j \in BitsOf(new, startBit, bitLength) <=> j + startBit \in new /\ j < bitLength
  BY <1>1, LowBitsOfByte DEF BitsOf, Shr
<1>4. ASSUME NEW j \in 0..7, j < bitLength
      PROVE  j + startBit \in new <=> j \in val
  <2>1. j + startBit \in 0..7 /\ startBit <= j + startBit
        /\ j + startBit < startBit + bitLength /\ (j + startBit) - startBit = j
    BY <1>1, <1>4
  <2> QED BY <2>1, BitsWritten
<1>5. ASSUME NEW j \in 0..7, j \in val
      PROVE  j < bitLength
  <2>1. SUFFICES ASSUME ~(j < bitLength) PROVE FALSE
    OBVIOUS
  <2>2. j - bitLength \in 0..31 /\ (j - bitLength) + bitLength = j
    BY <1>1, <2>1
  <2>3. j - bitLength \in Shr(val, bitLength)
    BY <1>5, <2>2 DEF Shr
  <2> QED BY <2>3 DEF FitsBits
<1>6. BitsOf(new, startBit, bitLength) \subseteq 0..7 /\ val \subseteq 0..7
  BY DEF BitsOf, Byte
<1> QED BY <1>3, <1>4, <1>5, <1>6

\* ntohs, ntohl and their like read back what htons and htonl made, for every word
\* of as many bytes as are written: GetInBufferShort what setBufferShort wrote.
THEOREM WordReadsBack ==
  ASSUME NEW n \in Nat, NEW val \in SUBSET (0..(8 * n - 1))
  PROVE  HostOrder(NetworkOrder(val, n)) = val
<1> DEFINE b == NetworkOrder(val, n)
<1>1. /\ Len(b) = n
      /\ \A k \in 1..n : b[k] = Shr(val, 8 * (n - k)) \cap (0..7)
  BY DEF NetworkOrder
<1> HIDE DEF b
<1>2. HostOrder(b) = {i \in 0..(8 * n - 1) : i % 8 \in b[n - (i \div 8)]}
  BY <1>1 DEF HostOrder
<1>3. ASSUME NEW i \in 0..(8 * n - 1) PROVE i % 8 \in b[n - (i \div 8)] <=> i \in val
  <2>1. PICK q \in Nat, r \in 0..7 : i = 8 * q + r /\ i \div 8 = q /\ i % 8 = r
    OBVIOUS
  <2>2. n - q \in 1..n /\ 8 * (n - (n - q)) = 8 * q
    BY <2>1
  <2>3. b[n - q] = Shr(val, 8 * q) \cap (0..7)
    BY <1>1, <2>2
  <2>4. r \in Shr(val, 8 * q) <=> r + 8 * q \in val
    BY DEF Shr
  <2> QED BY <2>1, <2>3, <2>4
<1>4. HostOrder(b) = val
  BY <1>2, <1>3
<1> QED BY <1>4 DEF b

\* A function on 1 to n is a sequence, for SMT to know when n is a number.
LEMMA AsSequence ==
  ASSUME NEW S, NEW n \in Nat, NEW b \in [1..n -> S]
  PROVE  b \in Seq(S) /\ Len(b) = n
OBVIOUS

\* A zeroed buffer.
LEMMA ZeroedFacts ==
  ASSUME NEW n \in Nat
  PROVE  /\ Zeroed(n) \in Seq(Byte) /\ Len(Zeroed(n)) = n
         /\ \A i \in 1..n : Zeroed(n)[i] = {}
BY DEF Zeroed, Byte

\* What setBufferString writes.
LEMMA StringSet ==
  ASSUME NEW b \in Seq(Byte), NEW offset \in Nat, NEW s \in Seq(Byte)
  PROVE  /\ setBufferString(b, offset, s) \in Seq(Byte)
         /\ Len(setBufferString(b, offset, s)) = Len(b)
         /\ \A i \in 1..Len(b) :
              setBufferString(b, offset, s)[i] =
                IF i - offset \in 1..Len(s) THEN s[i - offset] ELSE b[i]
<1> DEFINE c == setBufferString(b, offset, s)
<1>1. c = [i \in 1..Len(b) |-> IF i - offset \in 1..Len(s) THEN s[i - offset] ELSE b[i]]
  BY DEF setBufferString
<1> HIDE DEF c
<1>2. \A i \in 1..Len(b) : (IF i - offset \in 1..Len(s) THEN s[i - offset] ELSE b[i]) \in Byte
  OBVIOUS
<1>3. c \in [1..Len(b) -> Byte]
  BY <1>1, <1>2
<1>4. Len(b) \in Nat
  OBVIOUS
<1>5. c \in Seq(Byte) /\ Len(c) = Len(b)
  BY <1>3, <1>4
<1> QED BY <1>1, <1>5 DEF c

\* htons and htonl give as many bytes as asked for.
LEMMA OrderFacts ==
  ASSUME NEW val, NEW n \in Nat
  PROVE  NetworkOrder(val, n) \in Seq(Byte) /\ Len(NetworkOrder(val, n)) = n
BY DEF NetworkOrder, Byte

\* A word has no bit beyond its width.
LEMMA WordFacts ==
  ASSUME NEW n \in Nat, NEW w \in Nat
  PROVE  Word(n, w) \in SUBSET (0..(w - 1))
BY DEF Word

\* The bytes that GetBufferString returns.
LEMMA StringGot ==
  ASSUME NEW b \in Seq(Byte), NEW offset \in Nat, NEW n \in Nat, offset + n <= Len(b)
  PROVE  /\ GetBufferString(b, offset, n) \in Seq(Byte)
         /\ Len(GetBufferString(b, offset, n)) = n
         /\ \A i \in 1..n : GetBufferString(b, offset, n)[i] = b[offset + i]
<1> DEFINE first == offset + 1
           last == offset + n
           g == SubSeq(b, first, last)
<1>1. /\ first \in Int /\ last \in Int /\ \A i \in first..last : b[i] \in Byte
      /\ last - first + 1 = n /\ (first <= last <=> n # 0)
      /\ \A i \in 1..n : first + i - 1 = offset + i
  OBVIOUS
<1> HIDE DEF first, last
<1>2. /\ g \in Seq(Byte)
      /\ Len(g) = IF first <= last THEN last - first + 1 ELSE 0
      /\ \A i \in 1..(last - first + 1) : g[i] = b[first + i - 1]
  BY <1>1, SubSeqProperties
<1>3. g = GetBufferString(b, offset, n)
  BY DEF GetBufferString, first, last
<1> HIDE DEF g
<1>4. Len(g) = n /\ \A i \in 1..n : g[i] = b[offset + i]
  BY <1>1, <1>2
<1> QED BY <1>2, <1>3, <1>4

\* Buffers with the same bytes in some place have the same string there.
LEMMA SameString ==
  ASSUME NEW b \in Seq(Byte), NEW c \in Seq(Byte), NEW offset \in Nat, NEW n \in Nat,
         offset + n <= Len(b), offset + n <= Len(c),
         \A i \in 1..Len(b) : offset < i /\ i <= offset + n => b[i] = c[i]
  PROVE  GetBufferString(b, offset, n) = GetBufferString(c, offset, n)
<1> DEFINE g == GetBufferString(b, offset, n)
           h == GetBufferString(c, offset, n)
<1>1. /\ g \in Seq(Byte) /\ Len(g) = n
      /\ \A i \in 1..n : g[i] = b[offset + i]
  BY StringGot
<1>2. /\ h \in Seq(Byte) /\ Len(h) = n
      /\ \A i \in 1..n : h[i] = c[offset + i]
  BY StringGot
<1> HIDE DEF g, h
<1>3. ASSUME NEW i \in 1..n PROVE g[i] = h[i]
  <2>1. b[offset + i] = c[offset + i]
    OBVIOUS
  <2> QED BY <1>1, <1>2, <2>1
<1>4. g = h
  BY <1>1, <1>2, <1>3, SeqEqual
<1> QED BY <1>4 DEF g, h

\* What was written as a string reads back.
LEMMA StringReadsBack ==
  ASSUME NEW b \in Seq(Byte), NEW offset \in Nat, NEW s \in Seq(Byte),
         offset + Len(s) <= Len(b)
  PROVE  GetBufferString(setBufferString(b, offset, s), offset, Len(s)) = s
<1> DEFINE c == setBufferString(b, offset, s)
           g == GetBufferString(c, offset, Len(s))
<1>1. /\ c \in Seq(Byte) /\ Len(c) = Len(b)
      /\ \A i \in 1..Len(b) :
           c[i] = IF i - offset \in 1..Len(s) THEN s[i - offset] ELSE b[i]
  BY StringSet
<1> HIDE DEF c
<1>2. /\ g \in Seq(Byte) /\ Len(g) = Len(s)
      /\ \A i \in 1..Len(s) : g[i] = c[offset + i]
  BY <1>1, StringGot
<1> HIDE DEF g
<1>3. ASSUME NEW i \in 1..Len(s) PROVE g[i] = s[i]
  <2>1. offset + i \in 1..Len(b) /\ (offset + i) - offset = i
    OBVIOUS
  <2> QED BY <1>1, <1>2, <2>1
<1>4. g = s
  BY <1>2, <1>3, SeqEqual
<1> QED BY <1>4 DEF g, c

\* setBufferBitArray writes to one byte.
LEMMA BitArraySet ==
  ASSUME NEW b \in Seq(Byte), NEW offset \in Nat, offset < Len(b),
         NEW startBit, NEW bitLength, NEW val
  PROVE  /\ setBufferBitArray(b, offset, startBit, bitLength, val) \in Seq(Byte)
         /\ Len(setBufferBitArray(b, offset, startBit, bitLength, val)) = Len(b)
         /\ \A i \in 1..Len(b) :
              setBufferBitArray(b, offset, startBit, bitLength, val)[i] =
                IF i = offset + 1 THEN WithBits(b[i], startBit, bitLength, val) ELSE b[i]
<1> DEFINE new == WithBits(b[offset + 1], startBit, bitLength, val)
<1>1. new \in Byte
  BY DEF WithBits, Byte
<1> HIDE DEF new
<1>2. setBufferBitArray(b, offset, startBit, bitLength, val) = [b EXCEPT ![offset + 1] = new]
  BY DEF setBufferBitArray, new
<1> QED BY <1>1, <1>2 DEF new

\* setBufferByte writes one byte.
LEMMA ByteSet ==
  ASSUME NEW b \in Seq(Byte), NEW offset \in Nat, offset < Len(b), NEW val \in Byte
  PROVE  /\ setBufferByte(b, offset, val) \in Seq(Byte)
         /\ Len(setBufferByte(b, offset, val)) = Len(b)
         /\ \A i \in 1..Len(b) :
              setBufferByte(b, offset, val)[i] = IF i = offset + 1 THEN val ELSE b[i]
BY DEF setBufferByte

\* What setBufferBool writes, given the word that it makes of the flag's value.
WithFlag(b, offset, bit, v) == setBufferBitArray(b, offset, bit, 1, v)

Bit == 0..7
FlagWord == SUBSET {0}

\* A flag is one bit of its byte, and setting it in b leaves the others in c.
FlagWritten(b, c, offset, bit, v) ==
  /\ c \in Seq(Byte) /\ Len(c) = Len(b)
  /\ \A i \in 1..Len(b) : i # offset + 1 => c[i] = b[i]
  /\ c[offset + 1] = IF 0 \in v THEN b[offset + 1] \cup {bit} ELSE b[offset + 1] \ {bit}

\* setBufferBool writes its bit and nothing else.
LEMMA FlagSet ==
  ASSUME NEW b \in Seq(Byte), NEW offset \in Nat, offset < Len(b), NEW bit \in Bit,
         NEW v \in FlagWord
  PROVE  FlagWritten(b, WithFlag(b, offset, bit, v), offset, bit, v)
<1>a. bit \in Nat /\ bit <= 7 /\ bit \in 0..7 /\ v \in SUBSET {0}
  BY DEF Bit, FlagWord
<1> DEFINE c == WithFlag(b, offset, bit, v)
<1>1. v = {0} \/ v = {}
  BY <1>a
<1>2. v \in Byte /\ FitsBits(bit, 1, v)
  <2>1. v \in Byte
    BY <1>1 DEF Byte
  <2>2. Shr(v, 1) = {}
    <3> SUFFICES ASSUME NEW i \in 0..31, i + 1 \in v PROVE FALSE
      BY DEF Shr
    <3> QED BY <1>1
  <2> QED BY <1>a, <2>1, <2>2 DEF FitsBits
<1>3. ASSUME NEW byte \in Byte
      PROVE  WithBits(byte, bit, 1, v) = IF 0 \in v THEN byte \cup {bit} ELSE byte \ {bit}
  <2> DEFINE new == WithBits(byte, bit, 1, v)
  <2>1. \A i \in 0..7 :
          i \in new <=> IF bit <= i /\ i < bit + 1 THEN i - bit \in v ELSE i \in byte
    BY <1>a, <1>2, BitsWritten
  <2>2. new \subseteq 0..7 /\ byte \subseteq 0..7
    BY DEF WithBits, Byte
  <2> HIDE DEF new
  <2>3. \A i \in 0..7 : i \in new <=> IF i = bit THEN 0 \in v ELSE i \in byte
    BY <1>a, <2>1
  <2>4. CASE 0 \in v
    <3>1. \A i : i \in new <=> i \in byte \/ i = bit
      BY <1>a, <2>2, <2>3, <2>4
    <3> QED BY <2>4, <3>1 DEF new
  <2>5. CASE 0 \notin v
    <3>1. \A i : i \in new <=> i \in byte /\ i # bit
      BY <1>a, <2>2, <2>3, <2>5
    <3> QED BY <2>5, <3>1 DEF new
  <2> QED BY <2>4, <2>5
<1>4. offset + 1 \in 1..Len(b) /\ b[offset + 1] \in Byte
  OBVIOUS
<1>5. /\ c \in Seq(Byte) /\ Len(c) = Len(b)
      /\ \A i \in 1..Len(b) : c[i] = IF i = offset + 1 THEN WithBits(b[i], bit, 1, v) ELSE b[i]
  BY BitArraySet DEF WithFlag
<1>6. c[offset + 1] = WithBits(b[offset + 1], bit, 1, v)
  BY <1>4, <1>5
<1>7. \A i \in 1..Len(b) : i # offset + 1 => c[i] = b[i]
  BY <1>5
<1> HIDE DEF c
<1>8. FlagWritten(b, c, offset, bit, v)
  BY <1>3, <1>4, <1>5, <1>6, <1>7 DEF FlagWritten
<1> QED BY <1>8 DEF c

\* GetBufferBool reads one bit.
LEMMA BoolGot ==
  ASSUME NEW b \in Seq(Byte), NEW offset \in Nat, offset < Len(b), NEW bit \in 0..7
  PROVE  GetBufferBool(b, offset, bit) <=> bit \in b[offset + 1]
<1>1. b[offset + 1] \in Byte
  OBVIOUS
<1>2. ASSUME NEW j \in 0..7
      PROVE  j \in BitsOf(b[offset + 1], bit, 1) <=> j = 0 /\ bit \in b[offset + 1]
  BY <1>2, LowBitsOfByte DEF BitsOf, Shr
<1>3. BitsOf(b[offset + 1], bit, 1) \subseteq 0..7
  BY DEF BitsOf
<1> QED BY <1>2, <1>3 DEF GetBufferBool, GetBufferBitArray

\* setBufferShort and setBufferLong write their own bytes, and the getters read
\* them back.
LEMMA WordSet ==
  ASSUME NEW b \in Seq(Byte), NEW offset \in Nat, NEW n \in Nat, offset + n <= Len(b),
         NEW val \in SUBSET (0..(8 * n - 1)),
         NEW c, c = setBufferString(b, offset, NetworkOrder(val, n))
  PROVE  /\ c \in Seq(Byte) /\ Len(c) = Len(b)
         /\ \A i \in 1..Len(b) : i - offset \notin 1..n => c[i] = b[i]
         /\ HostOrder(GetBufferString(c, offset, n)) = val
<1> DEFINE s == NetworkOrder(val, n)
<1>1. s \in Seq(Byte) /\ Len(s) = n /\ HostOrder(s) = val
  BY OrderFacts, WordReadsBack
<1>2. c = setBufferString(b, offset, s)
  OBVIOUS
<1> HIDE DEF s
<1>3. GetBufferString(c, offset, n) = s
  BY <1>1, <1>2, StringReadsBack
<1> QED BY <1>1, <1>2, <1>3, StringSet

\* The same, to be cited with numbers for offset and n.
WordWritten(b, c, offset, n, val) ==
  /\ c \in Seq(Byte) /\ Len(c) = Len(b)
  /\ \A i \in 1..Len(b) : i - offset \notin 1..n => c[i] = b[i]
  /\ HostOrder(GetBufferString(c, offset, n)) = val

LEMMA WordSetAt ==
  ASSUME NEW b \in Seq(Byte), NEW offset \in Nat, NEW n \in Nat, offset + n <= Len(b),
         NEW val \in SUBSET (0..(8 * n - 1))
  PROVE  WordWritten(b, setBufferString(b, offset, NetworkOrder(val, n)), offset, n, val)
<1> DEFINE c == setBufferString(b, offset, NetworkOrder(val, n))
<1> HIDE DEF c
<1>1. /\ c \in Seq(Byte) /\ Len(c) = Len(b)
      /\ \A i \in 1..Len(b) : i - offset \notin 1..n => c[i] = b[i]
      /\ HostOrder(GetBufferString(c, offset, n)) = val
  BY WordSet DEF c
<1> QED BY <1>1 DEF WordWritten, c

-----------------------------------------------------------------------------
(* Where the fields of a PERSISTENT RESERVE OUT request are.               *)

\* The fields of a buffer b, of a request of class k.
KeyIn(b) == GetBufferString(b, 0, 8)
SaKeyIn(b) == GetBufferString(b, 8, 8)
FlagsIn(k, b) == {f \in DOMAIN FlagAt[k] : FlagAt[k][f][2] \in b[FlagAt[k][f][1] + 1]}
PortIdIn(k, b) == IF k = "move" THEN GetBufferShort(b, 18) ELSE {}
IdLengthIn(k, b) == IF k = "move" THEN GetBufferLong(b, 20) ELSE {}
ListIn(b) == SubSeq(b, HeaderLength + 1, Len(b))
ClearIn(k, b) ==
  IF k = "move" THEN b[17] = {} /\ b[18] \subseteq {0, 1}
  ELSE b[21] \subseteq {0, 2, 4} /\ \A i \in {17, 18, 19, 20, 22, 23, 24} : b[i] = {}

\* The places of the flags of the two classes.
LEMMA FlagPlaces ==
  /\ DOMAIN FlagAt["plain"] = {"aptpl", "allTgPt", "specIPt"}
  /\ DOMAIN FlagAt["move"] = {"aptpl", "unreg"}
  /\ FlagAt["plain"]["aptpl"] = <<20, 0>> /\ FlagAt["plain"]["allTgPt"] = <<20, 2>>
  /\ FlagAt["plain"]["specIPt"] = <<20, 4>>
  /\ FlagAt["move"]["aptpl"] = <<17, 0>> /\ FlagAt["move"]["unreg"] = <<17, 1>>
BY DEF FlagAt

\* No flag is outside the header.
LEMMA FlagRange ==
  ASSUME NEW k \in OutKinds, NEW f \in DOMAIN FlagAt[k]
  PROVE  /\ FlagAt[k][f][1] \in {17, 20} /\ FlagAt[k][f][1] \in Nat
         /\ FlagAt[k][f][2] \in 0..7
BY FlagPlaces DEF OutKinds

\* FieldsIntact, field by field.
Intact ==
  /\ fields = [action |-> cdb[2], type |-> BitsOf(cdb[3], 0, 4),
               key |-> KeyIn(mOutBuffer), saKey |-> SaKeyIn(mOutBuffer),
               flags |-> FlagsIn(kind, mOutBuffer), portId |-> PortIdIn(kind, mOutBuffer),
               idLength |-> IdLengthIn(kind, mOutBuffer), list |-> ListIn(mOutBuffer),
               whole |-> TRUE]
  /\ ClearIn(kind, mOutBuffer)

\* Intact implies the property that the runs check.
LEMMA IntactIsFieldsIntact ==
  ASSUME kind \in OutKinds, mOutBuffer \in Seq(Byte), Len(mOutBuffer) >= HeaderLength
  PROVE  Intact => FieldsIntact
<1>1. FlagsIn(kind, mOutBuffer) =
        {f \in DOMAIN FlagAt[kind] :
           GetBufferBool(mOutBuffer, FlagAt[kind][f][1], FlagAt[kind][f][2])}
  <2>1. ASSUME NEW f \in DOMAIN FlagAt[kind]
        PROVE  GetBufferBool(mOutBuffer, FlagAt[kind][f][1], FlagAt[kind][f][2])
                 <=> FlagAt[kind][f][2] \in mOutBuffer[FlagAt[kind][f][1] + 1]
    <3>1. FlagAt[kind][f][1] < Len(mOutBuffer)
      BY FlagRange DEF HeaderLength
    <3> QED BY <3>1, FlagRange, BoolGot
  <2> QED BY <2>1 DEF FlagsIn
<1>2. Intact => Decoded = fields
  BY <1>1 DEF Intact, Decoded, KeyIn, SaKeyIn, PortIdIn, IdLengthIn, ListIn,
              GetBufferBitArray
<1>3. ClearIn(kind, mOutBuffer)
        => \A b \in 0..(HeaderLength - 1) : mOutBuffer[b + 1] \cap Reserved(b) = {}
  <2> SUFFICES ASSUME ClearIn(kind, mOutBuffer), NEW b \in 0..23
               PROVE  mOutBuffer[b + 1] \cap Reserved(b) = {}
    BY DEF HeaderLength
  <2>1. CASE kind = "move"
    BY <2>1 DEF ClearIn, Reserved
  <2>2. CASE kind # "move"
    <3>1. CASE b = 20
      BY <2>2, <3>1 DEF ClearIn, Reserved
    <3>2. CASE b \in (16..23) /\ b # 20
      <4>1. mOutBuffer[b + 1] = {}
        BY <2>2, <3>2 DEF ClearIn
      <4> QED BY <4>1
    <3>3. CASE b \notin 16..23
      BY <2>2, <3>3 DEF Reserved
    <3> QED BY <3>1, <3>2, <3>3
  <2> QED BY <2>1, <2>2
<1> QED BY <1>2, <1>3 DEF Intact, FieldsIntact

\* A field keeps its value if its bytes do.
LEMMA KeptFields ==
  ASSUME NEW k \in OutKinds, NEW b \in Seq(Byte), NEW c \in Seq(Byte),
         Len(b) >= 24, Len(c) >= 24
  PROVE  /\ (\A i \in 1..8 : c[i] = b[i]) => KeyIn(c) = KeyIn(b)
         /\ (\A i \in 9..16 : c[i] = b[i]) => SaKeyIn(c) = SaKeyIn(b)
         /\ (\A i \in {18, 21} : c[i] = b[i]) => FlagsIn(k, c) = FlagsIn(k, b)
         /\ (\A i \in 19..20 : c[i] = b[i]) => PortIdIn(k, c) = PortIdIn(k, b)
         /\ (\A i \in 21..24 : c[i] = b[i]) => IdLengthIn(k, c) = IdLengthIn(k, b)
         /\ Len(c) = Len(b) /\ (\A i \in 25..Len(b) : c[i] = b[i]) => ListIn(c) = ListIn(b)
         /\ (\A i \in 17..24 : c[i] = b[i]) /\ ClearIn(k, b) => ClearIn(k, c)
<1>0. ASSUME NEW offset \in Nat, NEW n \in Nat, offset + n <= 24,
             \A i \in 1..24 : offset < i /\ i <= offset + n => c[i] = b[i]
      PROVE  GetBufferString(c, offset, n) = GetBufferString(b, offset, n)
  <2>1. offset + n <= Len(b) /\ offset + n <= Len(c)
    BY <1>0
  <2>2. ASSUME NEW i \in 1..Len(c), offset < i /\ i <= offset + n
        PROVE  c[i] = b[i]
    <3>1. i \in 1..24
      BY <1>0, <2>2
    <3> QED BY <1>0, <2>2, <3>1
  <2> QED BY <2>1, <2>2, SameString
<1>1. (\A i \in 1..8 : c[i] = b[i]) => KeyIn(c) = KeyIn(b)
  <2> SUFFICES ASSUME \A i \in 1..8 : c[i] = b[i]
               PROVE  GetBufferString(c, 0, 8) = GetBufferString(b, 0, 8)
    BY DEF KeyIn
  <2>1. ASSUME NEW i \in 1..24, 0 < i /\ i <= 0 + 8
        PROVE  c[i] = b[i]
    <3>1. i \in 1..8
      BY <2>1
    <3> QED BY <3>1
  <2> QED BY <1>0, <2>1
<1>2. (\A i \in 9..16 : c[i] = b[i]) => SaKeyIn(c) = SaKeyIn(b)
  <2> SUFFICES ASSUME \A i \in 9..16 : c[i] = b[i]
               PROVE  GetBufferString(c, 8, 8) = GetBufferString(b, 8, 8)
    BY DEF SaKeyIn
  <2>1. ASSUME NEW i \in 1..24, 8 < i /\ i <= 8 + 8
        PROVE  c[i] = b[i]
    <3>1. i \in 9..16
      BY <2>1
    <3> QED BY <3>1
  <2> QED BY <1>0, <2>1
<1>3. (\A i \in {18, 21} : c[i] = b[i]) => FlagsIn(k, c) = FlagsIn(k, b)
  <2> SUFFICES ASSUME \A i \in {18, 21} : c[i] = b[i],
                      NEW f \in DOMAIN FlagAt[k]
               PROVE  c[FlagAt[k][f][1] + 1] = b[FlagAt[k][f][1] + 1]
    BY DEF FlagsIn
  <2>1. FlagAt[k][f][1] + 1 \in {18, 21}
    BY FlagRange
  <2> QED BY <2>1
<1>4. (\A i \in 19..20 : c[i] = b[i]) => PortIdIn(k, c) = PortIdIn(k, b)
  <2> SUFFICES ASSUME \A i \in 19..20 : c[i] = b[i]
               PROVE  GetBufferString(c, 18, 2) = GetBufferString(b, 18, 2)
    BY DEF PortIdIn, GetBufferShort
  <2>1. ASSUME NEW i \in 1..24, 18 < i /\ i <= 18 + 2
        PROVE  c[i] = b[i]
    <3>1. i \in 19..20
      BY <2>1
    <3> QED BY <3>1
  <2> QED BY <1>0, <2>1
<1>5. (\A i \in 21..24 : c[i] = b[i]) => IdLengthIn(k, c) = IdLengthIn(k, b)
  <2> SUFFICES ASSUME \A i \in 21..24 : c[i] = b[i]
               PROVE  GetBufferString(c, 20, 4) = GetBufferString(b, 20, 4)
    BY DEF IdLengthIn, GetBufferLong
  <2>1. ASSUME NEW i \in 1..24, 20 < i /\ i <= 20 + 4
        PROVE  c[i] = b[i]
    <3>1. i \in 21..24
      BY <2>1
    <3> QED BY <3>1
  <2> QED BY <1>0, <2>1
<1>6. Len(c) = Len(b) /\ (\A i \in 25..Len(b) : c[i] = b[i]) => ListIn(c) = ListIn(b)
  <2> SUFFICES ASSUME Len(c) = Len(b), \A i \in 25..Len(b) : c[i] = b[i]
               PROVE  ListIn(c) = ListIn(b)
    OBVIOUS
  <2>1. PICK n \in Nat : Len(b) = 24 + n
    <3>1. Len(b) - 24 \in Nat /\ Len(b) = 24 + (Len(b) - 24)
      OBVIOUS
    <3> QED BY <3>1
  <2>2. GetBufferString(c, 24, n) = GetBufferString(b, 24, n)
    BY <2>1, SameString
  <2> QED BY <2>1, <2>2 DEF GetBufferString, ListIn, HeaderLength
<1>7. (\A i \in 17..24 : c[i] = b[i]) /\ ClearIn(k, b) => ClearIn(k, c)
  BY DEF ClearIn
<1> QED BY <1>1, <1>2, <1>3, <1>4, <1>5, <1>6, <1>7

-----------------------------------------------------------------------------
(* Constructors and setters, one by one.                                   *)

\* Of a request without room for the header: it is marked as such.
Marked == "whole" \in DOMAIN fields /\ fields.whole \in BOOLEAN

PRInv ==
  /\ PRTypeOK /\ LengthWord
  /\ kind \in OutKinds => Marked
  /\ kind \in OutKinds /\ fields.whole => Intact

\* The length in a CDB of ten bytes.
LEMMA LengthSet ==
  ASSUME NEW b \in [1..10 -> Byte], NEW n \in Nat
  PROVE  /\ setBufferShort(b, 7, Word(n, 16)) \in [1..10 -> Byte]
         /\ setBufferShort(b, 7, Word(n, 16))[2] = b[2]
         /\ setBufferShort(b, 7, Word(n, 16))[3] = b[3]
         /\ GetBufferShort(setBufferShort(b, 7, Word(n, 16)), 7) = Word(n, 16)
<1> DEFINE c == setBufferShort(b, 7, Word(n, 16))
<1>1. b \in Seq(Byte) /\ Len(b) = 10
  <2>1. PICK m \in Nat : m = 10
    OBVIOUS
  <2> QED BY <2>1, AsSequence
<1>2. 7 \in Nat /\ 2 \in Nat /\ 7 + 2 <= Len(b)
  BY <1>1
<1>3. Word(n, 16) \in SUBSET (0..(8 * 2 - 1))
  <2>1. Word(n, 16) \in SUBSET (0..15)
    BY WordFacts
  <2> QED BY <2>1
<1>4. c = setBufferString(b, 7, NetworkOrder(Word(n, 16), 2))
  BY DEF setBufferShort
<1> HIDE DEF c
<1>5. WordWritten(b, c, 7, 2, Word(n, 16))
  BY <1>1, <1>2, <1>3, <1>4, WordSetAt, Zenon
<1>6. /\ c \in Seq(Byte) /\ Len(c) = 10
      /\ \A i \in 1..10 : i - 7 \notin 1..2 => c[i] = b[i]
      /\ HostOrder(GetBufferString(c, 7, 2)) = Word(n, 16)
  BY <1>1, <1>5 DEF WordWritten
<1>7. c[2] = b[2] /\ c[3] = b[3]
  BY <1>6
<1>8. c \in [1..10 -> Byte]
  BY <1>6, LenProperties
<1> QED BY <1>6, <1>7, <1>8 DEF c, GetBufferShort

\* The CDB that the constructors make.
LEMMA NewCdbFacts ==
  ASSUME NEW action \in Byte, NEW n \in Nat
  PROVE  /\ NewCdb(action, n) \in [1..10 -> Byte]
         /\ NewCdb(action, n)[2] = action /\ NewCdb(action, n)[3] = {}
         /\ GetBufferShort(NewCdb(action, n), 7) = Word(n, 16)
<1> DEFINE a == setBufferByte(Zeroed(10), 0, Opcode)
           b == setBufferByte(a, 1, action)
<1>1. /\ Zeroed(10) \in Seq(Byte) /\ Len(Zeroed(10)) = 10
      /\ \A i \in 1..10 : Zeroed(10)[i] = {}
  BY ZeroedFacts
<1>2. Opcode \in Byte
  BY DEF Opcode, Byte
<1>3. a \in [1..10 -> Byte] /\ a[3] = {}
  <2>1. Zeroed(10) \in [1..10 -> Byte]
    BY <1>1, LenProperties
  <2> QED BY <1>1, <1>2, <2>1 DEF setBufferByte
<1> HIDE DEF a
<1>4. b \in [1..10 -> Byte] /\ b[2] = action /\ b[3] = {}
  BY <1>3 DEF setBufferByte
<1>5. NewCdb(action, n) = setBufferShort(b, 7, Word(n, 16))
  BY DEF NewCdb, b, a
<1> HIDE DEF b
<1> QED BY <1>4, <1>5, LengthSet

\* A buffer of zeroed bytes has no fields set.
LEMMA ZeroedFields ==
  ASSUME NEW k \in OutKinds, NEW n \in Nat, n >= 24
  PROVE  /\ KeyIn(Zeroed(n)) = NoKey /\ SaKeyIn(Zeroed(n)) = NoKey
         /\ FlagsIn(k, Zeroed(n)) = {} /\ PortIdIn(k, Zeroed(n)) = {}
         /\ IdLengthIn(k, Zeroed(n)) = {} /\ ListIn(Zeroed(n)) = Zeroed(n - 24)
         /\ ClearIn(k, Zeroed(n))
<1> DEFINE z == Zeroed(n)
<1>1. z \in Seq(Byte) /\ Len(z) = n /\ \A i \in 1..n : z[i] = {}
  BY ZeroedFacts
<1> HIDE DEF z
<1>2. ASSUME NEW offset \in Nat, NEW m \in Nat, offset + m <= n
      PROVE  GetBufferString(z, offset, m) = Zeroed(m)
  <2> DEFINE g == GetBufferString(z, offset, m)
  <2>1. g \in Seq(Byte) /\ Len(g) = m /\ \A i \in 1..m : g[i] = z[offset + i]
    BY <1>1, <1>2, StringGot
  <2> HIDE DEF g
  <2>2. Zeroed(m) \in Seq(Byte) /\ Len(Zeroed(m)) = m /\ \A i \in 1..m : Zeroed(m)[i] = {}
    BY ZeroedFacts
  <2>3. ASSUME NEW i \in 1..m PROVE g[i] = Zeroed(m)[i]
    <3>1. offset + i \in 1..n
      BY <1>2
    <3> QED BY <1>1, <2>1, <2>2, <3>1
  <2>4. g = Zeroed(m)
    BY <2>1, <2>2, <2>3, SeqEqual
  <2> QED BY <2>4 DEF g
<1>3. ASSUME NEW m \in Nat PROVE HostOrder(Zeroed(m)) = {}
  <2>1. Len(Zeroed(m)) = m /\ \A i \in 1..m : Zeroed(m)[i] = {}
    BY ZeroedFacts
  <2>2. ASSUME NEW i \in 0..(8 * m - 1) PROVE i % 8 \notin Zeroed(m)[m - (i \div 8)]
    <3>1. m - (i \div 8) \in 1..m
      OBVIOUS
    <3> QED BY <2>1, <3>1
  <2> QED BY <2>1, <2>2 DEF HostOrder
<1>4. KeyIn(z) = NoKey /\ SaKeyIn(z) = NoKey
  BY <1>2 DEF KeyIn, SaKeyIn, NoKey
<1>5. FlagsIn(k, z) = {}
  <2>1. ASSUME NEW f \in DOMAIN FlagAt[k] PROVE z[FlagAt[k][f][1] + 1] = {}
    <3>1. FlagAt[k][f][1] + 1 \in 1..n
      BY FlagRange
    <3> QED BY <1>1, <3>1
  <2> QED BY <2>1 DEF FlagsIn
<1>6. PortIdIn(k, z) = {} /\ IdLengthIn(k, z) = {}
  BY <1>2, <1>3 DEF PortIdIn, IdLengthIn, GetBufferShort, GetBufferLong
<1>7. ListIn(z) = Zeroed(n - 24)
  <2>1. PICK m \in Nat : n = 24 + m /\ n - 24 = m
    <3>1. n - 24 \in Nat /\ n = 24 + (n - 24)
      OBVIOUS
    <3> QED BY <3>1
  <2>2. GetBufferString(z, 24, m) = Zeroed(m)
    BY <1>2, <2>1
  <2> QED BY <1>1, <2>1, <2>2 DEF ListIn, GetBufferString, HeaderLength
<1>8. ClearIn(k, z)
  BY <1>1 DEF ClearIn
<1> QED BY <1>4, <1>5, <1>6, <1>7, <1>8 DEF z

\* The constructor of SCSIPersistentReserveOut, whatever length it is given.
LEMMA NewHolds == ASSUME NEW a \in Actions, NEW n \in Lengths, New(a, n) PROVE PRInv'
<1>0. n \in Nat /\ a \in Byte
  BY InputsAssumption
<1>1. /\ kind' = "plain" /\ kind' \in OutKinds
      /\ cdb' = NewCdb(a, n) /\ mOutBuffer' = Zeroed(n)
      /\ fields' = [NoFields EXCEPT !.action = a, !.list = Zeroed(n - 24),
                                    !.whole = n >= 24]
  BY DEF New, HeaderLength, OutKinds
<1>2. /\ cdb' \in [1..10 -> Byte] /\ cdb'[2] = a /\ cdb'[3] = {}
      /\ GetBufferShort(cdb', 7) = Word(n, 16)
  BY <1>0, <1>1, NewCdbFacts
<1>3. mOutBuffer' \in Seq(Byte) /\ Len(mOutBuffer') = n
  BY <1>0, <1>1, ZeroedFacts
<1>8. Marked' /\ (fields'.whole <=> n >= 24)
  <2>1. CASE n >= 24
    <3>1. fields' = [NoFields EXCEPT !.action = a, !.list = Zeroed(n - 24), !.whole = TRUE]
      BY <1>1, <2>1
    <3> QED BY <2>1, <3>1 DEF Marked, NoFields
  <2>2. CASE ~(n >= 24)
    <3>1. fields' = [NoFields EXCEPT !.action = a, !.list = Zeroed(n - 24), !.whole = FALSE]
      <4>1. (n >= 24) = FALSE
        BY <1>0, <2>2
      <4> QED BY <1>1, <4>1, Zenon
    <3> QED BY <2>2, <3>1 DEF Marked, NoFields
  <2> QED BY <2>1, <2>2
<1>4. PRTypeOK'
  BY <1>2, <1>3, <1>8 DEF PRTypeOK, HeaderLength
<1>9. LengthWord'
  BY <1>2, <1>3 DEF LengthWord
<1>7. ASSUME n >= 24 PROVE Intact'
  <2>1. /\ KeyIn(mOutBuffer') = NoKey /\ SaKeyIn(mOutBuffer') = NoKey
        /\ FlagsIn("plain", mOutBuffer') = {} /\ PortIdIn("plain", mOutBuffer') = {}
        /\ IdLengthIn("plain", mOutBuffer') = {} /\ ListIn(mOutBuffer') = Zeroed(n - 24)
        /\ ClearIn("plain", mOutBuffer')
    BY <1>0, <1>1, <1>7, ZeroedFields
  <2>2. BitsOf({}, 0, 4) = {}
    BY DEF BitsOf, Shr
  <2>3. fields' = [NoFields EXCEPT !.action = a, !.list = Zeroed(n - 24), !.whole = TRUE]
    BY <1>1, <1>7
  <2> QED BY <1>1, <1>2, <2>1, <2>2, <2>3 DEF Intact, NoFields
<1> QED BY <1>4, <1>7, <1>8, <1>9 DEF PRInv

\* What PRInv says of a request with room for the header.
LEMMA Unfolded ==
  ASSUME PRInv, kind \in OutKinds, fields.whole
  PROVE  /\ mOutBuffer \in Seq(Byte) /\ Len(mOutBuffer) >= 24 /\ Len(mOutBuffer) \in Nat
         /\ cdb \in [1..10 -> Byte]
         /\ Intact
BY DEF PRInv, PRTypeOK, HeaderLength

\* What is intact is marked as having room for the header.
LEMMA IntactMarked == Intact => Marked /\ fields.whole
BY DEF Intact, Marked

\* The same of the next state.
LEMMA IntactMarkedNext == Intact' => Marked' /\ fields'.whole
BY DEF Intact, Marked

\* Of a request without room for the header little is claimed.
LEMMA ShortHolds ==
  ASSUME PRInv, kind \in OutKinds, UNCHANGED <<kind, cdb>>, mOutBuffer' \in Seq(Byte),
         Len(mOutBuffer') = Len(mOutBuffer), ~fields.whole, NEW name, name # "whole",
         NEW v, fields' = [fields EXCEPT ![name] = v]
  PROVE  PRInv'
<1>1. Marked' /\ ~fields'.whole
  BY DEF PRInv, Marked
<1>2. PRTypeOK' /\ LengthWord'
  BY <1>1 DEF PRInv, PRTypeOK, LengthWord
<1> QED BY <1>1, <1>2 DEF PRInv

\* A setter that writes to the buffer leaves its size and the CDB alone.
LEMMA SetterHolds ==
  ASSUME PRInv, kind \in OutKinds, fields.whole, UNCHANGED <<kind, cdb>>,
         mOutBuffer' \in Seq(Byte), Len(mOutBuffer') = Len(mOutBuffer), Intact'
  PROVE  PRInv'
<1>1. PRTypeOK'
  BY DEF PRInv, PRTypeOK
<1>2. LengthWord'
  BY DEF PRInv, LengthWord
<1> QED BY <1>1, <1>2, IntactMarkedNext DEF PRInv

\* What writing a string leaves of the buffer.
LEMMA StringKept ==
  ASSUME NEW b \in Seq(Byte), NEW offset \in Nat, NEW s \in Seq(Byte),
         offset + Len(s) <= Len(b), NEW c, c = setBufferString(b, offset, s)
  PROVE  /\ c \in Seq(Byte) /\ Len(c) = Len(b)
         /\ \A i \in 1..Len(b) : i <= offset \/ offset + Len(s) < i => c[i] = b[i]
         /\ GetBufferString(c, offset, Len(s)) = s
<1>1. /\ c \in Seq(Byte) /\ Len(c) = Len(b)
      /\ \A i \in 1..Len(b) : c[i] = IF i - offset \in 1..Len(s) THEN s[i - offset] ELSE b[i]
  BY StringSet
<1>2. GetBufferString(c, offset, Len(s)) = s
  BY StringReadsBack
<1> QED BY <1>1, <1>2

\* SetReservationType writes to the CDB only.
LEMMA TypeHolds ==
  ASSUME PRInv, NEW t \in Types, SetReservationType(t)
  PROVE  PRInv'
<1>1. /\ kind \in OutKinds /\ UNCHANGED <<kind, mOutBuffer>>
      /\ cdb' = setBufferBitArray(cdb, 2, 0, 4, t)
      /\ FitsBits(0, 4, t)
      /\ fields' = [fields EXCEPT !.type = t]
  BY DEF SetReservationType
<1>2. cdb \in [1..10 -> Byte] /\ Marked
  BY <1>1 DEF PRInv, PRTypeOK
<1>3. cdb' = [cdb EXCEPT ![3] = WithBits(cdb[3], 0, 4, t)]
  BY <1>1 DEF setBufferBitArray
<1>4. WithBits(cdb[3], 0, 4, t) \in Byte /\ BitsOf(WithBits(cdb[3], 0, 4, t), 0, 4) = t
  <2>1. PICK start \in Nat, n \in Nat : start = 0 /\ n = 4
    OBVIOUS
  <2>2. cdb[3] \in Byte /\ t \in Byte
    BY <1>2, InputsAssumption DEF Byte
  <2>3. FitsBits(start, n, t)
    BY <1>1, <2>1
  <2>4. BitsOf(WithBits(cdb[3], start, n, t), start, n) = t
    BY <2>2, <2>3, BitsReadBack
  <2>5. WithBits(cdb[3], 0, 4, t) \in Byte
    BY DEF WithBits, Byte
  <2> QED BY <2>1, <2>4, <2>5
<1>5. cdb' \in [1..10 -> Byte] /\ cdb'[2] = cdb[2] /\ BitsOf(cdb'[3], 0, 4) = t
  BY <1>2, <1>3, <1>4
<1>6. GetBufferShort(cdb', 7) = GetBufferShort(cdb, 7)
  <2>1. PICK n \in Nat, offset \in Nat, m \in Nat : n = 10 /\ offset = 7 /\ m = 2
    OBVIOUS
  <2>2. cdb \in [1..n -> Byte] /\ cdb' \in [1..n -> Byte]
    BY <1>2, <1>5, <2>1
  <2>3. cdb \in Seq(Byte) /\ cdb' \in Seq(Byte) /\ Len(cdb) = n /\ Len(cdb') = n
    BY <2>2, AsSequence
  <2>4. ASSUME NEW i \in 1..n, offset < i PROVE cdb'[i] = cdb[i]
    BY <1>2, <1>3, <2>1, <2>4
  <2>5. offset + m <= n
    BY <2>1
  <2>6. GetBufferString(cdb', offset, m) = GetBufferString(cdb, offset, m)
    BY <2>3, <2>4, <2>5, SameString
  <2> QED BY <2>1, <2>6 DEF GetBufferShort
<1>9. Marked' /\ fields'.whole = fields.whole
  BY <1>1, <1>2 DEF Marked
<1>7. PRTypeOK' /\ LengthWord'
  <2>1. PRTypeOK'
    BY <1>1, <1>5, <1>9 DEF PRInv, PRTypeOK
  <2>2. LengthWord'
    BY <1>1, <1>6 DEF PRInv, LengthWord
  <2> QED BY <2>1, <2>2
<1>8. ASSUME fields.whole PROVE Intact'
  <2>1. Intact
    BY <1>1, <1>8, Unfolded
  <2> QED BY <1>1, <1>5, <2>1 DEF Intact
<1> QED BY <1>7, <1>8, <1>9 DEF PRInv

\* SetReservationKey and SetServiceActionReservationKey, with room for the header.
LEMMA KeyHolds ==
  ASSUME PRInv, fields.whole, NEW key \in Keys,
         SetReservationKey(key) \/ SetServiceActionReservationKey(key)
  PROVE  PRInv'
<1>1. kind \in OutKinds /\ UNCHANGED <<kind, cdb>>
  BY DEF SetReservationKey, SetServiceActionReservationKey
<1>2. /\ mOutBuffer \in Seq(Byte) /\ Len(mOutBuffer) >= 24 /\ Len(mOutBuffer) \in Nat
      /\ Intact
  BY <1>1, Unfolded
<1>3. PICK m \in Nat : m = 8
  OBVIOUS
<1>4. key \in Seq(Byte) /\ Len(key) = m
  <2>1. key \in [1..m -> Byte]
    BY <1>3, InputsAssumption
  <2> QED BY <2>1, AsSequence
<1>5. ASSUME NEW offset \in Nat, offset = 0 \/ offset = 8,
             mOutBuffer' = setBufferString(mOutBuffer, offset, key)
      PROVE  /\ mOutBuffer' \in Seq(Byte) /\ Len(mOutBuffer') = Len(mOutBuffer)
             /\ \A i \in 1..Len(mOutBuffer) :
                  i <= offset \/ offset + m < i => mOutBuffer'[i] = mOutBuffer[i]
             /\ GetBufferString(mOutBuffer', offset, m) = key
  <2>1. offset + m <= Len(mOutBuffer)
    BY <1>2, <1>3, <1>5
  <2>2. mOutBuffer \in Seq(Byte) /\ offset + Len(key) <= Len(mOutBuffer)
    BY <1>2, <1>4, <2>1
  <2>3. /\ mOutBuffer' \in Seq(Byte) /\ Len(mOutBuffer') = Len(mOutBuffer)
        /\ \A i \in 1..Len(mOutBuffer) :
             i <= offset \/ offset + Len(key) < i => mOutBuffer'[i] = mOutBuffer[i]
        /\ GetBufferString(mOutBuffer', offset, Len(key)) = key
    BY <1>4, <1>5, <2>2, StringKept
  <2> QED BY <1>4, <2>3
<1>6. CASE SetReservationKey(key)
  <2>1. /\ mOutBuffer' = setBufferString(mOutBuffer, 0, key)
        /\ fields' = [fields EXCEPT !.key = key]
    BY <1>6 DEF SetReservationKey
  <2>2. /\ mOutBuffer' \in Seq(Byte) /\ Len(mOutBuffer') = Len(mOutBuffer)
        /\ \A i \in 1..Len(mOutBuffer) : 8 < i => mOutBuffer'[i] = mOutBuffer[i]
        /\ KeyIn(mOutBuffer') = key
    BY <1>3, <1>5, <2>1 DEF KeyIn
  <2>3. /\ \A i \in 9..16 : mOutBuffer'[i] = mOutBuffer[i]
        /\ \A i \in {18, 21} : mOutBuffer'[i] = mOutBuffer[i]
        /\ \A i \in 19..20 : mOutBuffer'[i] = mOutBuffer[i]
        /\ \A i \in 21..24 : mOutBuffer'[i] = mOutBuffer[i]
        /\ \A i \in 17..24 : mOutBuffer'[i] = mOutBuffer[i]
        /\ \A i \in 25..Len(mOutBuffer) : mOutBuffer'[i] = mOutBuffer[i]
    <3>1. PICK n \in Nat : n = Len(mOutBuffer) /\ n >= 24
      BY <1>2
    <3>2. \A i \in 9..n : mOutBuffer'[i] = mOutBuffer[i]
      BY <2>2, <3>1
    <3>3. \A i \in 9..16 : mOutBuffer'[i] = mOutBuffer[i]
      BY <3>1, <3>2
    <3>4. \A i \in {18, 21} : mOutBuffer'[i] = mOutBuffer[i]
      BY <3>1, <3>2
    <3>5. \A i \in 19..20 : mOutBuffer'[i] = mOutBuffer[i]
      BY <3>1, <3>2
    <3>6. \A i \in 21..24 : mOutBuffer'[i] = mOutBuffer[i]
      BY <3>1, <3>2
    <3>7. \A i \in 17..24 : mOutBuffer'[i] = mOutBuffer[i]
      BY <3>1, <3>2
    <3>8. \A i \in 25..n : mOutBuffer'[i] = mOutBuffer[i]
      BY <3>1, <3>2
    <3> QED BY <3>1, <3>3, <3>4, <3>5, <3>6, <3>7, <3>8
  <2>4. /\ SaKeyIn(mOutBuffer') = SaKeyIn(mOutBuffer)
        /\ FlagsIn(kind, mOutBuffer') = FlagsIn(kind, mOutBuffer)
        /\ PortIdIn(kind, mOutBuffer') = PortIdIn(kind, mOutBuffer)
        /\ IdLengthIn(kind, mOutBuffer') = IdLengthIn(kind, mOutBuffer)
        /\ ListIn(mOutBuffer') = ListIn(mOutBuffer)
        /\ ClearIn(kind, mOutBuffer) => ClearIn(kind, mOutBuffer')
    BY <1>1, <1>2, <2>2, <2>3, KeptFields
  <2>5. Intact'
    BY <1>1, <1>2, <2>1, <2>2, <2>4 DEF Intact
  <2> QED BY <1>1, <2>2, <2>5, SetterHolds
<1>7. CASE SetServiceActionReservationKey(key)
  <2>1. /\ mOutBuffer' = setBufferString(mOutBuffer, 8, key)
        /\ fields' = [fields EXCEPT !.saKey = key]
    BY <1>7 DEF SetServiceActionReservationKey
  <2>2. /\ mOutBuffer' \in Seq(Byte) /\ Len(mOutBuffer') = Len(mOutBuffer)
        /\ \A i \in 1..Len(mOutBuffer) : i <= 8 \/ 16 < i => mOutBuffer'[i] = mOutBuffer[i]
        /\ SaKeyIn(mOutBuffer') = key
    BY <1>3, <1>5, <2>1 DEF SaKeyIn
  <2>3. /\ \A i \in 1..8 : mOutBuffer'[i] = mOutBuffer[i]
        /\ \A i \in {18, 21} : mOutBuffer'[i] = mOutBuffer[i]
        /\ \A i \in 19..20 : mOutBuffer'[i] = mOutBuffer[i]
        /\ \A i \in 21..24 : mOutBuffer'[i] = mOutBuffer[i]
        /\ \A i \in 17..24 : mOutBuffer'[i] = mOutBuffer[i]
        /\ \A i \in 25..Len(mOutBuffer) : mOutBuffer'[i] = mOutBuffer[i]
    <3>1. PICK n \in Nat : n = Len(mOutBuffer) /\ n >= 24
      BY <1>2
    <3>2. \A i \in 17..n : mOutBuffer'[i] = mOutBuffer[i]
      BY <2>2, <3>1
    <3>3. \A i \in 1..8 : mOutBuffer'[i] = mOutBuffer[i]
      BY <2>2, <3>1
    <3>4. \A i \in {18, 21} : mOutBuffer'[i] = mOutBuffer[i]
      BY <3>1, <3>2
    <3>5. \A i \in 19..20 : mOutBuffer'[i] = mOutBuffer[i]
      BY <3>1, <3>2
    <3>6. \A i \in 21..24 : mOutBuffer'[i] = mOutBuffer[i]
      BY <3>1, <3>2
    <3>7. \A i \in 17..24 : mOutBuffer'[i] = mOutBuffer[i]
      BY <3>1, <3>2
    <3>8. \A i \in 25..n : mOutBuffer'[i] = mOutBuffer[i]
      BY <3>1, <3>2
    <3> QED BY <3>1, <3>3, <3>4, <3>5, <3>6, <3>7, <3>8
  <2>4. /\ KeyIn(mOutBuffer') = KeyIn(mOutBuffer)
        /\ FlagsIn(kind, mOutBuffer') = FlagsIn(kind, mOutBuffer)
        /\ PortIdIn(kind, mOutBuffer') = PortIdIn(kind, mOutBuffer)
        /\ IdLengthIn(kind, mOutBuffer') = IdLengthIn(kind, mOutBuffer)
        /\ ListIn(mOutBuffer') = ListIn(mOutBuffer)
        /\ ClearIn(kind, mOutBuffer) => ClearIn(kind, mOutBuffer')
    BY <1>1, <1>2, <2>2, <2>3, KeptFields
  <2>5. Intact'
    BY <1>1, <1>2, <2>1, <2>2, <2>4 DEF Intact
  <2> QED BY <1>1, <2>2, <2>5, SetterHolds
<1> QED BY <1>6, <1>7

\* The two setters without, where they do not throw.
LEMMA KeyShort ==
  ASSUME PRInv, ~fields.whole, NEW key \in Keys,
         SetReservationKey(key) \/ SetServiceActionReservationKey(key)
  PROVE  PRInv'
<1>1. /\ kind \in OutKinds /\ UNCHANGED <<kind, cdb>>
      /\ mOutBuffer \in Seq(Byte)
  BY DEF SetReservationKey, SetServiceActionReservationKey, PRInv, PRTypeOK
<1>2. PICK m \in Nat : m = 8
  OBVIOUS
<1>3. key \in Seq(Byte) /\ Len(key) = m
  <2>1. key \in [1..m -> Byte]
    BY <1>2, InputsAssumption
  <2> QED BY <2>1, AsSequence
<1>4. PICK offset \in Nat, name \in {"key", "saKey"} :
        /\ mOutBuffer' = setBufferString(mOutBuffer, offset, key)
        /\ fields' = [fields EXCEPT ![name] = key]
        /\ offset + m <= Len(mOutBuffer)
  <2>1. CASE SetReservationKey(key)
    <3>1. /\ mOutBuffer' = setBufferString(mOutBuffer, 0, key)
          /\ fields' = [fields EXCEPT !["key"] = key]
          /\ 0 + m <= Len(mOutBuffer)
      BY <1>2, <2>1 DEF SetReservationKey, Inside
    <3> QED BY <3>1
  <2>2. CASE SetServiceActionReservationKey(key)
    <3>1. /\ mOutBuffer' = setBufferString(mOutBuffer, 8, key)
          /\ fields' = [fields EXCEPT !["saKey"] = key]
          /\ 8 + m <= Len(mOutBuffer)
      BY <1>2, <2>2 DEF SetServiceActionReservationKey, Inside
    <3> QED BY <3>1
  <2> QED BY <2>1, <2>2
<1>5. mOutBuffer' \in Seq(Byte) /\ Len(mOutBuffer') = Len(mOutBuffer)
  BY <1>1, <1>3, <1>4, StringKept
<1> QED BY <1>1, <1>4, <1>5, ShortHolds

\* What writing to the bytes from one after lo to hi leaves of the others.
LEMMA RangesKept ==
  ASSUME NEW b, NEW c, NEW n \in Nat, n >= 24, NEW lo \in Nat, NEW hi \in Nat, lo <= hi,
         lo >= 16, hi <= 24,
         \A i \in 1..n : i <= lo \/ hi < i => c[i] = b[i]
  PROVE  /\ \A i \in 1..8 : c[i] = b[i]
         /\ \A i \in 9..16 : c[i] = b[i]
         /\ lo >= 20 \/ hi <= 18 => \A i \in 19..20 : c[i] = b[i]
         /\ hi <= 20 => \A i \in 21..24 : c[i] = b[i]
         /\ \A i \in 25..n : c[i] = b[i]
<1>1. ASSUME NEW i \in 1..8 PROVE c[i] = b[i]
  <2>1. i \in 1..n /\ i <= lo
    OBVIOUS
  <2> QED BY <2>1
<1>2. ASSUME NEW i \in 9..16 PROVE c[i] = b[i]
  <2>1. i \in 1..n /\ i <= lo
    OBVIOUS
  <2> QED BY <2>1
<1>3. ASSUME lo >= 20 \/ hi <= 18, NEW i \in 19..20 PROVE c[i] = b[i]
  <2>1. i \in 1..n /\ (i <= lo \/ hi < i)
    BY <1>3
  <2> QED BY <2>1
<1>4. ASSUME hi <= 20, NEW i \in 21..24 PROVE c[i] = b[i]
  <2>1. i \in 1..n /\ (i <= lo \/ hi < i)
    BY <1>4
  <2> QED BY <2>1
<1>5. ASSUME NEW i \in 25..n PROVE c[i] = b[i]
  <2>1. i \in 1..n /\ hi < i
    OBVIOUS
  <2> QED BY <2>1
<1> QED BY <1>1, <1>2, <1>3, <1>4, <1>5

\* Setting the flag f, which is at bit of the byte at offset.
IsAt(k, f, offset, bit) ==
  f \in DOMAIN FlagAt[k] /\ offset = FlagAt[k][f][1] /\ bit = FlagAt[k][f][2]

\* f is read as set in c if 0 is in v, and the other flags as in b.
FlagPut(k, f, v, b, c) ==
  /\ FlagsIn(k, c) = IF 0 \in v THEN FlagsIn(k, b) \cup {f} ELSE FlagsIn(k, b) \ {f}
  /\ ClearIn(k, c)

\* Setting a flag does not change how another is read.
LEMMA FlagWords ==
  ASSUME NEW k \in OutKinds, NEW f, NEW v, NEW b, NEW c, ClearIn(k, b),
         Len(b) >= HeaderLength, NEW offset \in Nat, NEW bit, IsAt(k, f, offset, bit),
         FlagWritten(b, c, offset, bit, v)
  PROVE  FlagPut(k, f, v, b, c)
<1>1. \A i \in 17..24 : i # offset + 1 => c[i] = b[i]
  <2>1. ASSUME NEW i \in 17..24 PROVE i \in 1..Len(b)
    BY DEF HeaderLength, FlagWritten
  <2> QED BY <2>1 DEF FlagWritten
<1>2. \A i \in {18, 21} : i # offset + 1 => c[i] = b[i]
  BY <1>1
<1>3. c[offset + 1] = IF 0 \in v THEN b[offset + 1] \cup {bit} ELSE b[offset + 1] \ {bit}
  BY DEF FlagWritten
<1>4. /\ f \in DOMAIN FlagAt[k] /\ offset = FlagAt[k][f][1] /\ bit = FlagAt[k][f][2]
      /\ bit \in 0..7
  BY FlagRange DEF IsAt
<1>5. /\ k = "move" => offset = 17 /\ bit \in {0, 1}
      /\ k = "plain" => offset = 20 /\ bit \in {0, 2, 4}
  BY <1>4, FlagPlaces
<1>6. FlagsIn(k, c) = IF 0 \in v THEN FlagsIn(k, b) \cup {f} ELSE FlagsIn(k, b) \ {f}
  <2>1. ASSUME NEW g \in DOMAIN FlagAt[k]
        PROVE  FlagAt[k][g][2] \in c[FlagAt[k][g][1] + 1] <=>
                 IF g = f THEN 0 \in v ELSE FlagAt[k][g][2] \in b[FlagAt[k][g][1] + 1]
    <3>1. PICK o \in Nat, j \in 0..7 :
            o = FlagAt[k][g][1] /\ j = FlagAt[k][g][2] /\ o \in {17, 20}
      BY FlagRange
    <3>2. g # f => o # offset \/ j # bit
      BY <1>4, <3>1, FlagPlaces DEF OutKinds
    <3>3. o + 1 \in {18, 21}
      BY <3>1
    <3>4. CASE g = f
      <4>1. o = offset /\ j = bit
        BY <1>4, <3>1, <3>4
      <4>2. j \in c[o + 1] <=> 0 \in v
        BY <1>3, <4>1
      <4> QED BY <3>1, <3>4, <4>2
    <3>5. CASE g # f /\ o = offset
      <4>1. j # bit
        BY <3>2, <3>5
      <4>2. j \in c[o + 1] <=> j \in b[o + 1]
        BY <1>3, <3>5, <4>1
      <4> QED BY <3>1, <3>5, <4>2
    <3>6. CASE g # f /\ o # offset
      <4>1. o + 1 # offset + 1
        BY <3>6
      <4>2. c[o + 1] = b[o + 1]
        BY <1>2, <3>3, <4>1
      <4> QED BY <3>1, <3>6, <4>2
    <3> QED BY <3>4, <3>5, <3>6
  <2>2. CASE 0 \in v
    BY <1>4, <2>1, <2>2 DEF FlagsIn
  <2>3. CASE 0 \notin v
    BY <1>4, <2>1, <2>3 DEF FlagsIn
  <2> QED BY <2>2, <2>3
<1>7. ClearIn(k, c)
  <2>1. CASE k = "move"
    <3>1. c[18] \subseteq b[18] \cup {0, 1}
      BY <1>3, <1>5, <2>1
    <3>2. c[17] = b[17]
      BY <1>1, <1>5, <2>1
    <3> QED BY <2>1, <3>1, <3>2 DEF ClearIn
  <2>2. CASE k = "plain"
    <3>1. c[21] \subseteq b[21] \cup {0, 2, 4}
      BY <1>3, <1>5, <2>2
    <3>2. \A i \in {17, 18, 19, 20, 22, 23, 24} : c[i] = b[i]
      BY <1>1, <1>5, <2>2
    <3> QED BY <2>2, <3>1, <3>2 DEF ClearIn
  <2> QED BY <2>1, <2>2 DEF OutKinds
<1> QED BY <1>6, <1>7 DEF FlagPut

\* What no flag is a part of.
RestKept(k, b, c) ==
  /\ KeyIn(c) = KeyIn(b) /\ SaKeyIn(c) = SaKeyIn(b)
  /\ PortIdIn(k, c) = PortIdIn(k, b) /\ IdLengthIn(k, c) = IdLengthIn(k, b)
  /\ ListIn(c) = ListIn(b)

\* Setting a flag does not change the other fields.
LEMMA FlagRest ==
  ASSUME NEW k \in OutKinds, NEW f, NEW v, NEW b \in Seq(Byte), NEW c,
         Len(b) >= HeaderLength, NEW offset \in Nat, NEW bit, IsAt(k, f, offset, bit),
         FlagWritten(b, c, offset, bit, v)
  PROVE  RestKept(k, b, c)
<1>1. PICK hi \in Nat, n \in Nat : hi = offset + 1 /\ n = Len(b)
  OBVIOUS
<1>2. /\ n >= 24 /\ offset >= 16 /\ offset <= hi /\ hi <= 24
      /\ (offset >= 20 \/ hi <= 18) /\ (k = "move" => hi <= 20)
  <2>1. f \in DOMAIN FlagAt[k] /\ offset = FlagAt[k][f][1]
    BY DEF IsAt
  <2>2. offset \in {17, 20} /\ (k = "move" => offset = 17)
    BY <2>1, FlagRange, FlagPlaces
  <2> QED BY <1>1, <2>2 DEF HeaderLength
<1>3. \A i \in 1..n : i <= offset \/ hi < i => c[i] = b[i]
  <2>1. ASSUME NEW i \in 1..n, i <= offset \/ hi < i PROVE i \in 1..Len(b) /\ i # offset + 1
    BY <1>1, <2>1
  <2> QED BY <2>1 DEF FlagWritten
<1>4. /\ \A i \in 1..8 : c[i] = b[i]
      /\ \A i \in 9..16 : c[i] = b[i]
      /\ \A i \in 19..20 : c[i] = b[i]
      /\ hi <= 20 => \A i \in 21..24 : c[i] = b[i]
      /\ \A i \in 25..n : c[i] = b[i]
  BY <1>2, <1>3, RangesKept
<1>5. /\ c \in Seq(Byte) /\ Len(c) = Len(b) /\ Len(b) >= 24
      /\ \A i \in 25..Len(b) : c[i] = b[i]
      /\ k = "move" => \A i \in 21..24 : c[i] = b[i]
  BY <1>1, <1>2, <1>4 DEF FlagWritten
<1>6. /\ KeyIn(c) = KeyIn(b) /\ SaKeyIn(c) = SaKeyIn(b)
      /\ PortIdIn(k, c) = PortIdIn(k, b)
      /\ ListIn(c) = ListIn(b)
      /\ k = "move" => IdLengthIn(k, c) = IdLengthIn(k, b)
  BY <1>4, <1>5, KeptFields
<1> QED BY <1>6 DEF RestKept, IdLengthIn

\* SetAPTPL, SetAllTgPt and SetUNREG, in bytes that hold other flags.
LEMMA FlagHolds ==
  ASSUME PRInv, fields.whole, NEW f \in {"aptpl", "allTgPt", "unreg"},
         NEW val \in BOOLEAN, SetFlag(f, val)
  PROVE  PRInv'
<1> DEFINE v == IF val THEN {0} ELSE {}
           offset == FlagAt[kind][f][1]
           bit == FlagAt[kind][f][2]
<1>1. kind \in OutKinds /\ UNCHANGED <<kind, cdb>> /\ f \in DOMAIN FlagAt[kind]
  BY DEF SetFlag
<1>2. v \in FlagWord /\ (0 \in v <=> val)
  BY DEF FlagWord
<1>3. mOutBuffer' = WithFlag(mOutBuffer, offset, bit, v)
  BY DEF SetFlag, setBufferBool, WithFlag
<1>4. fields' = [fields EXCEPT !.flags = IF 0 \in v THEN @ \cup {f} ELSE @ \ {f}]
  BY <1>2 DEF SetFlag
<1>5. /\ mOutBuffer \in Seq(Byte) /\ Len(mOutBuffer) >= HeaderLength /\ Intact
      /\ ClearIn(kind, mOutBuffer)
  BY <1>1, Unfolded DEF Intact, HeaderLength
<1>6. offset \in Nat /\ bit \in Bit /\ IsAt(kind, f, offset, bit) /\ offset < Len(mOutBuffer)
  BY <1>1, <1>5, FlagRange DEF Bit, IsAt, HeaderLength
<1> HIDE DEF v, offset, bit
<1>7. FlagWritten(mOutBuffer, mOutBuffer', offset, bit, v)
  BY <1>2, <1>3, <1>5, <1>6, FlagSet, Zenon
<1>8. FlagPut(kind, f, v, mOutBuffer, mOutBuffer')
  BY <1>1, <1>5, <1>6, <1>7, FlagWords, Zenon
<1>9. RestKept(kind, mOutBuffer, mOutBuffer')
  BY <1>1, <1>5, <1>6, <1>7, FlagRest, Zenon
<1>10. Intact'
  BY <1>1, <1>4, <1>5, <1>8, <1>9 DEF Intact, RestKept, FlagPut
<1>11. mOutBuffer' \in Seq(Byte) /\ Len(mOutBuffer') = Len(mOutBuffer)
  BY <1>7 DEF FlagWritten
<1> QED BY <1>1, <1>10, <1>11, SetterHolds

\* The same in a request without room for the header, where they do not throw.
LEMMA FlagShort ==
  ASSUME PRInv, ~fields.whole, NEW f \in {"aptpl", "allTgPt", "unreg"},
         NEW val \in BOOLEAN, SetFlag(f, val)
  PROVE  PRInv'
<1> DEFINE v == IF val THEN {0} ELSE {}
           offset == FlagAt[kind][f][1]
           bit == FlagAt[kind][f][2]
           flags == IF val THEN fields.flags \cup {f} ELSE fields.flags \ {f}
<1>1. /\ kind \in OutKinds /\ UNCHANGED <<kind, cdb>> /\ f \in DOMAIN FlagAt[kind]
      /\ offset + 1 <= Len(mOutBuffer) /\ mOutBuffer \in Seq(Byte)
      /\ fields' = [fields EXCEPT !["flags"] = flags]
  BY DEF SetFlag, Inside, PRInv, PRTypeOK
<1>2. v \in FlagWord
  BY DEF FlagWord
<1>3. mOutBuffer' = WithFlag(mOutBuffer, offset, bit, v)
  BY DEF SetFlag, setBufferBool, WithFlag
<1>4. offset \in Nat /\ bit \in Bit
  BY <1>1, FlagRange DEF Bit
<1> HIDE DEF v, offset, bit, flags
<1>5. offset < Len(mOutBuffer)
  BY <1>1, <1>4
<1>6. FlagWritten(mOutBuffer, mOutBuffer', offset, bit, v)
  BY <1>1, <1>2, <1>3, <1>4, <1>5, FlagSet, Zenon
<1>7. mOutBuffer' \in Seq(Byte) /\ Len(mOutBuffer') = Len(mOutBuffer)
  BY <1>6 DEF FlagWritten
<1>8. "flags" # "whole"
  OBVIOUS
<1> QED BY <1>1, <1>7, <1>8, ShortHolds

\* SetRelativeTargetPortId
LEMMA PortIdHolds ==
  ASSUME PRInv, fields.whole, NEW id \in PortIds, SetRelativeTargetPortId(id)
  PROVE  PRInv'
<1>1. /\ kind = "move" /\ kind \in OutKinds /\ UNCHANGED <<kind, cdb>>
      /\ mOutBuffer' = setBufferString(mOutBuffer, 18, NetworkOrder(id, 2))
      /\ fields' = [fields EXCEPT !.portId = id]
  BY DEF SetRelativeTargetPortId, OutKinds, setBufferShort
<1>2. /\ mOutBuffer \in Seq(Byte) /\ Len(mOutBuffer) >= 24 /\ Len(mOutBuffer) \in Nat
      /\ Intact
  BY <1>1, Unfolded
<1>3. PICK offset \in Nat, m \in Nat, n \in Nat :
        offset = 18 /\ m = 2 /\ n = Len(mOutBuffer) /\ n >= 24
  BY <1>2
<1>4. /\ mOutBuffer' \in Seq(Byte) /\ Len(mOutBuffer') = Len(mOutBuffer)
      /\ \A i \in 1..Len(mOutBuffer) :
           i - offset \notin 1..m => mOutBuffer'[i] = mOutBuffer[i]
      /\ HostOrder(GetBufferString(mOutBuffer', offset, m)) = id
  <2>1. offset + m <= Len(mOutBuffer)
    BY <1>3
  <2>2. PICK v \in SUBSET (0..(8 * m - 1)) : v = id
    BY <1>3, InputsAssumption
  <2>3. mOutBuffer' = setBufferString(mOutBuffer, offset, NetworkOrder(v, m))
    BY <1>1, <1>3, <2>2
  <2>4. mOutBuffer \in Seq(Byte)
    BY <1>2
  <2>5. /\ mOutBuffer' \in Seq(Byte) /\ Len(mOutBuffer') = Len(mOutBuffer)
        /\ \A i \in 1..Len(mOutBuffer) :
             i - offset \notin 1..m => mOutBuffer'[i] = mOutBuffer[i]
        /\ HostOrder(GetBufferString(mOutBuffer', offset, m)) = v
    BY <2>1, <2>3, <2>4, WordSet
  <2> QED BY <2>2, <2>5
<1>5. /\ \A i \in 1..8 : mOutBuffer'[i] = mOutBuffer[i]
      /\ \A i \in 9..16 : mOutBuffer'[i] = mOutBuffer[i]
      /\ \A i \in 21..24 : mOutBuffer'[i] = mOutBuffer[i]
      /\ \A i \in 25..Len(mOutBuffer) : mOutBuffer'[i] = mOutBuffer[i]
  <2>1. PICK hi \in Nat : hi = 20
    OBVIOUS
  <2>2. \A i \in 1..n : i <= offset \/ hi < i => mOutBuffer'[i] = mOutBuffer[i]
    <3>1. \A i \in 1..n : i <= offset \/ hi < i => i - offset \notin 1..m
      BY <1>3, <2>1
    <3>2. n = Len(mOutBuffer)
      BY <1>3
    <3> QED BY <1>4, <3>1, <3>2
  <2>3. offset >= 8 /\ offset >= 16 /\ offset <= hi /\ hi <= 24 /\ hi <= 20 /\ n >= 24
    BY <1>3, <2>1
  <2>4. /\ \A i \in 1..8 : mOutBuffer'[i] = mOutBuffer[i]
        /\ \A i \in 9..16 : mOutBuffer'[i] = mOutBuffer[i]
        /\ \A i \in 21..24 : mOutBuffer'[i] = mOutBuffer[i]
        /\ \A i \in 25..n : mOutBuffer'[i] = mOutBuffer[i]
    BY <2>2, <2>3, RangesKept
  <2> QED BY <1>3, <2>4
<1>6. /\ \A i \in {18, 21} : mOutBuffer'[i] = mOutBuffer[i]
      /\ mOutBuffer'[17] = mOutBuffer[17]
  <2>1. /\ 17 \in 1..Len(mOutBuffer) /\ 17 - offset \notin 1..m
        /\ 18 \in 1..Len(mOutBuffer) /\ 18 - offset \notin 1..m
        /\ 21 \in 21..24
    BY <1>3
  <2> QED BY <1>4, <1>5, <2>1
<1>7. /\ KeyIn(mOutBuffer') = KeyIn(mOutBuffer)
      /\ SaKeyIn(mOutBuffer') = SaKeyIn(mOutBuffer)
      /\ FlagsIn(kind, mOutBuffer') = FlagsIn(kind, mOutBuffer)
      /\ IdLengthIn(kind, mOutBuffer') = IdLengthIn(kind, mOutBuffer)
      /\ ListIn(mOutBuffer') = ListIn(mOutBuffer)
  BY <1>1, <1>2, <1>4, <1>5, <1>6, KeptFields
<1>8. PortIdIn(kind, mOutBuffer') = id
  BY <1>1, <1>3, <1>4 DEF PortIdIn, GetBufferShort
<1>9. ClearIn(kind, mOutBuffer')
  <2>1. ClearIn(kind, mOutBuffer)
    BY <1>2 DEF Intact
  <2>2. mOutBuffer'[18] = mOutBuffer[18]
    BY <1>6
  <2> QED BY <1>1, <1>6, <2>1, <2>2 DEF ClearIn
<1>10. Intact'
  BY <1>1, <1>2, <1>7, <1>8, <1>9 DEF Intact
<1> QED BY <1>1, <1>4, <1>10, SetterHolds

\* The same without room for the header (no constructor makes one of that class).
LEMMA PortIdShort ==
  ASSUME PRInv, ~fields.whole, NEW id \in PortIds, SetRelativeTargetPortId(id)
  PROVE  PRInv'
<1>1. /\ kind \in OutKinds /\ UNCHANGED <<kind, cdb>>
      /\ mOutBuffer' = setBufferString(mOutBuffer, 18, NetworkOrder(id, 2))
      /\ fields' = [fields EXCEPT !["portId"] = id]
      /\ 18 + 2 <= Len(mOutBuffer) /\ mOutBuffer \in Seq(Byte)
  BY DEF SetRelativeTargetPortId, OutKinds, setBufferShort, Inside, PRInv, PRTypeOK
<1>2. PICK offset \in Nat, m \in Nat : offset = 18 /\ m = 2
  OBVIOUS
<1>3. PICK v \in SUBSET (0..(8 * m - 1)) : v = id
  BY <1>2, InputsAssumption
<1>4. offset + m <= Len(mOutBuffer) /\ mOutBuffer \in Seq(Byte)
  BY <1>1, <1>2
<1>5. mOutBuffer' = setBufferString(mOutBuffer, offset, NetworkOrder(v, m))
  BY <1>1, <1>2, <1>3
<1>6. mOutBuffer' \in Seq(Byte) /\ Len(mOutBuffer') = Len(mOutBuffer)
  BY <1>4, <1>5, WordSet
<1>7. "portId" # "whole"
  OBVIOUS
<1> QED BY <1>1, <1>6, <1>7, ShortHolds

\* ResetOutBuffer
LEMMA ResetHolds ==
  ASSUME PRInv, fields.whole, ResetOutBuffer
  PROVE  PRInv'
<1>1. /\ kind \in OutKinds /\ UNCHANGED <<kind, cdb>>
      /\ mOutBuffer' = Zeroed(Len(mOutBuffer))
      /\ fields' = [NoFields EXCEPT !.action = fields.action, !.type = fields.type,
                                    !.list = Zeroed(Len(fields.list)),
                                    !.whole = fields.whole]
  BY DEF ResetOutBuffer
<1>2. /\ mOutBuffer \in Seq(Byte) /\ Len(mOutBuffer) >= 24 /\ Len(mOutBuffer) \in Nat
      /\ Intact
  BY <1>1, Unfolded
<1>3. mOutBuffer' \in Seq(Byte) /\ Len(mOutBuffer') = Len(mOutBuffer)
  BY <1>1, <1>2, ZeroedFacts
<1>4. Len(ListIn(mOutBuffer)) = Len(mOutBuffer) - 24
  <2>1. PICK n \in Nat, offset \in Nat : Len(mOutBuffer) = offset + n /\ offset = 24
    <3>1. Len(mOutBuffer) - 24 \in Nat /\ Len(mOutBuffer) = 24 + (Len(mOutBuffer) - 24)
      BY <1>2
    <3> QED BY <3>1
  <2>2. ListIn(mOutBuffer) = GetBufferString(mOutBuffer, offset, n)
    BY <2>1 DEF ListIn, GetBufferString, HeaderLength
  <2>3. mOutBuffer \in Seq(Byte) /\ offset + n <= Len(mOutBuffer)
    BY <1>2, <2>1
  <2>4. Len(GetBufferString(mOutBuffer, offset, n)) = n
    BY <2>3, StringGot
  <2> QED BY <2>1, <2>2, <2>4
<1>5. /\ KeyIn(mOutBuffer') = NoKey /\ SaKeyIn(mOutBuffer') = NoKey
      /\ FlagsIn(kind, mOutBuffer') = {} /\ PortIdIn(kind, mOutBuffer') = {}
      /\ IdLengthIn(kind, mOutBuffer') = {}
      /\ ListIn(mOutBuffer') = Zeroed(Len(mOutBuffer) - 24)
      /\ ClearIn(kind, mOutBuffer')
  BY <1>1, <1>2, ZeroedFields
<1>6. Intact'
  <2>1. /\ fields.action = cdb[2] /\ fields.type = BitsOf(cdb[3], 0, 4)
        /\ fields.list = ListIn(mOutBuffer) /\ fields.whole = TRUE
    BY <1>2 DEF Intact
  <2> QED BY <1>1, <1>4, <1>5, <2>1 DEF Intact, NoFields
<1> QED BY <1>1, <1>3, <1>6, SetterHolds

\* The same without room for the header.
LEMMA ResetShort ==
  ASSUME PRInv, ~fields.whole, ResetOutBuffer
  PROVE  PRInv'
<1>1. /\ kind \in OutKinds /\ UNCHANGED <<kind, cdb>>
      /\ mOutBuffer' = Zeroed(Len(mOutBuffer))
      /\ Len(mOutBuffer) \in Nat /\ Marked
  BY DEF ResetOutBuffer, PRInv, PRTypeOK
<1>2. mOutBuffer' \in Seq(Byte) /\ Len(mOutBuffer') = Len(mOutBuffer)
  BY <1>1, ZeroedFacts
<1>3. Marked' /\ fields'.whole = fields.whole
  BY <1>1 DEF ResetOutBuffer, NoFields, Marked
<1>4. PRTypeOK' /\ LengthWord'
  BY <1>1, <1>2, <1>3 DEF PRInv, PRTypeOK, LengthWord
<1> QED BY <1>3, <1>4 DEF PRInv

\* The bytes of a buffer after its header.
LEMMA ListGot ==
  ASSUME NEW b \in Seq(Byte), NEW n \in Nat, Len(b) = HeaderLength + n
  PROVE  ListIn(b) = GetBufferString(b, HeaderLength, n)
BY DEF ListIn, GetBufferString

\* What SetTransportIdList puts together before it sets SPEC_I_PT.
LEMMA Joined ==
  ASSUME NEW h \in Seq(Byte), Len(h) = HeaderLength, NEW list \in Seq(Byte),
         NEW c, c = h \o list
  PROVE  /\ c \in Seq(Byte) /\ Len(c) = HeaderLength + Len(list)
         /\ \A i \in 1..HeaderLength : c[i] = h[i]
         /\ ListIn(c) = list
<1>1. HeaderLength \in Nat /\ Len(list) \in Nat
  BY DEF HeaderLength
<1>4. /\ c \in Seq(Byte) /\ Len(c) = HeaderLength + Len(list)
      /\ \A i \in 1..HeaderLength : c[i] = h[i]
      /\ \A i \in 1..Len(list) : c[HeaderLength + i] = list[i]
  <2>1. PICK m \in Nat, n \in Nat : m = HeaderLength /\ m = Len(h) /\ n = Len(list)
    BY <1>1
  <2>2. c \in Seq(Byte) /\ Len(c) = m + n
    <3>1. h \o list \in Seq(Byte) /\ Len(h \o list) = Len(h) + Len(list)
      BY ConcatProperties, Zenon
    <3> QED BY <2>1, <3>1
  <2>3. ASSUME NEW i \in 1..m PROVE c[i] = h[i]
    BY <2>1
  <2>4. ASSUME NEW i \in 1..n PROVE c[m + i] = list[i]
    BY <2>1, ConcatProperties
  <2> QED BY <2>1, <2>2, <2>3, <2>4
<1>5. ListIn(c) = list
  <2> DEFINE g == GetBufferString(c, HeaderLength, Len(list))
  <2>1. HeaderLength + Len(list) <= Len(c)
    BY <1>1, <1>4
  <2>2. /\ g \in Seq(Byte) /\ Len(g) = Len(list)
        /\ \A i \in 1..Len(list) : g[i] = c[HeaderLength + i]
    BY <1>1, <1>4, <2>1, StringGot
  <2> HIDE DEF g
  <2>3. g = list
    BY <1>4, <2>2, SeqEqual
  <2> QED BY <1>1, <1>4, <2>3, ListGot DEF g
<1> QED BY <1>4, <1>5

\* SetTransportIdList, which replaces the buffer, also by one that has bytes from
\* past the end of a short one.
LEMMA ListHolds ==
  ASSUME PRInv, NEW list \in Lists, SetTransportIdList(list)
  PROVE  PRInv'
<1>0. PICK past \in [(Len(mOutBuffer) + 1)..HeaderLength -> Stray] :
        mOutBuffer' = setBufferBool(Header(past) \o list, 20, 4, TRUE)
  BY DEF SetTransportIdList
<1> DEFINE header == Header(past)
           joined == header \o list
           n == HeaderLength + Len(list)
<1>1. /\ kind = "plain" /\ kind' = kind /\ kind \in OutKinds
      /\ cdb' = setBufferShort(cdb, 7, Word(n, 16))
      /\ mOutBuffer' = WithFlag(joined, 20, 4, {0})
      /\ fields' = [fields EXCEPT !.flags = @ \cup {"specIPt"}, !.list = list]
  BY <1>0 DEF SetTransportIdList, OutKinds, WithFlag, setBufferBool
<1>2. mOutBuffer \in Seq(Byte) /\ cdb \in [1..10 -> Byte] /\ Marked
  BY <1>1 DEF PRInv, PRTypeOK
<1>3. list \in Seq(Byte) /\ n \in Nat /\ n >= HeaderLength
  BY InputsAssumption DEF HeaderLength
<1>17. header \in Seq(Byte) /\ Len(header) = HeaderLength
  <2>1. PICK m \in Nat : m = HeaderLength
    BY DEF HeaderLength
  <2>2. ASSUME NEW i \in 1..m
        PROVE  (IF i <= Len(mOutBuffer) THEN mOutBuffer[i] ELSE past[i]) \in Byte
    <3>1. CASE i <= Len(mOutBuffer)
      BY <1>2, <3>1
    <3>2. CASE ~(i <= Len(mOutBuffer))
      <4>1. i \in (Len(mOutBuffer) + 1)..HeaderLength
        BY <1>2, <2>1, <3>2
      <4>2. past[i] \in Byte
        BY <4>1, InputsAssumption
      <4> QED BY <3>2, <4>2
    <3> QED BY <3>1, <3>2
  <2>3. header \in [1..m -> Byte]
    BY <2>1, <2>2 DEF Header
  <2> QED BY <2>1, <2>3, AsSequence
<1>18. ASSUME fields.whole
       PROVE  /\ Len(mOutBuffer) >= HeaderLength /\ Intact /\ ClearIn(kind, mOutBuffer)
              /\ \A i \in 1..HeaderLength : header[i] = mOutBuffer[i]
  <2>1. Len(mOutBuffer) >= HeaderLength /\ Intact /\ ClearIn(kind, mOutBuffer)
    BY <1>1, <1>18, Unfolded DEF Intact, HeaderLength
  <2>2. ASSUME NEW i \in 1..HeaderLength PROVE header[i] = mOutBuffer[i]
    BY <1>2, <2>1 DEF Header, HeaderLength
  <2> QED BY <2>1, <2>2
<1> HIDE DEF header
<1>4. /\ joined \in Seq(Byte) /\ Len(joined) = n
      /\ \A i \in 1..HeaderLength : joined[i] = header[i]
      /\ ListIn(joined) = list
  BY <1>3, <1>17, Joined
<1> HIDE DEF joined
<1>5. /\ cdb' \in [1..10 -> Byte] /\ cdb'[2] = cdb[2] /\ cdb'[3] = cdb[3]
      /\ GetBufferShort(cdb', 7) = Word(n, 16)
  BY <1>1, <1>2, <1>3, LengthSet
<1> HIDE DEF n
<1>6. ASSUME fields.whole
      PROVE
      /\ KeyIn(joined) = KeyIn(mOutBuffer) /\ SaKeyIn(joined) = SaKeyIn(mOutBuffer)
      /\ FlagsIn(kind, joined) = FlagsIn(kind, mOutBuffer)
      /\ PortIdIn(kind, joined) = PortIdIn(kind, mOutBuffer)
      /\ IdLengthIn(kind, joined) = IdLengthIn(kind, mOutBuffer)
      /\ ClearIn(kind, joined)
  <2>1. /\ \A i \in 1..8 : joined[i] = mOutBuffer[i]
        /\ \A i \in 9..16 : joined[i] = mOutBuffer[i]
        /\ \A i \in {18, 21} : joined[i] = mOutBuffer[i]
        /\ \A i \in 19..20 : joined[i] = mOutBuffer[i]
        /\ \A i \in 21..24 : joined[i] = mOutBuffer[i]
        /\ \A i \in 17..24 : joined[i] = mOutBuffer[i]
    BY <1>4, <1>6, <1>18 DEF HeaderLength
  <2>2. Len(joined) >= 24 /\ Len(mOutBuffer) >= 24
    BY <1>3, <1>4, <1>6, <1>18 DEF HeaderLength
  <2>3. ClearIn(kind, mOutBuffer)
    BY <1>6, <1>18
  <2> QED BY <1>1, <1>2, <1>4, <2>1, <2>2, <2>3, KeptFields
<1>7. 20 \in Nat /\ 4 \in Bit /\ {0} \in FlagWord
  <2>1. 4 \in Bit
    BY DEF Bit
  <2>2. {0} \in FlagWord
    BY DEF FlagWord
  <2> QED BY <2>1, <2>2
<1>8. /\ IsAt(kind, "specIPt", 20, 4) /\ 20 < Len(joined)
      /\ Len(joined) >= HeaderLength
  <2>1. IsAt(kind, "specIPt", 20, 4)
    BY <1>1, FlagPlaces DEF IsAt
  <2>2. 20 < Len(joined) /\ Len(joined) >= HeaderLength
    <3>1. Len(joined) = n
      BY <1>4
    <3>2. n \in Nat /\ n >= 24
      BY <1>3 DEF HeaderLength
    <3>3. 20 < n /\ n >= HeaderLength
      BY <3>2 DEF HeaderLength
    <3> QED BY <3>1, <3>3
  <2> QED BY <2>1, <2>2
<1>10. FlagWritten(joined, mOutBuffer', 20, 4, {0})
  BY <1>1, <1>4, <1>7, <1>8, FlagSet, Zenon
<1>11. ASSUME fields.whole PROVE FlagPut(kind, "specIPt", {0}, joined, mOutBuffer')
  <2>1. ClearIn(kind, joined)
    BY <1>6, <1>11
  <2> QED BY <1>1, <1>7, <1>8, <1>10, <2>1, FlagWords, Zenon
<1>12. RestKept(kind, joined, mOutBuffer')
  BY <1>1, <1>4, <1>7, <1>8, <1>10, FlagRest, Zenon
<1>13. mOutBuffer' \in Seq(Byte) /\ Len(mOutBuffer') = n
  BY <1>4, <1>10 DEF FlagWritten
<1>14. ASSUME fields.whole PROVE Intact'
  <2>1. FlagsIn(kind, mOutBuffer') = FlagsIn(kind, mOutBuffer) \cup {"specIPt"}
    BY <1>6, <1>11, <1>14 DEF FlagPut
  <2>2. Intact /\ FlagPut(kind, "specIPt", {0}, joined, mOutBuffer')
    BY <1>11, <1>14, <1>18
  <2>3. /\ KeyIn(joined) = KeyIn(mOutBuffer) /\ SaKeyIn(joined) = SaKeyIn(mOutBuffer)
        /\ PortIdIn(kind, joined) = PortIdIn(kind, mOutBuffer)
        /\ IdLengthIn(kind, joined) = IdLengthIn(kind, mOutBuffer)
    BY <1>6, <1>14
  <2> QED BY <1>1, <1>4, <1>5, <1>12, <2>1, <2>2, <2>3 DEF Intact, RestKept, FlagPut
<1>9. Marked' /\ fields'.whole = fields.whole
  BY <1>1, <1>2 DEF Marked
<1>15. PRTypeOK'
  BY <1>3, <1>5, <1>13 DEF PRTypeOK
<1>16. LengthWord'
  BY <1>5, <1>13 DEF LengthWord
<1> QED BY <1>9, <1>14, <1>15, <1>16 DEF PRInv

\* The constructor of SCSIPersistentReserveOutRegisterAndMove: the length of the ID
\* is written to a zeroed buffer z, which gives a, and then the ID, which gives c.
LEMMA MoveRead ==
  ASSUME NEW id \in Seq(Byte), NEW n \in Nat, n = HeaderLength + Len(id),
         NEW a, a = setBufferLong(Zeroed(n), 20, Word(Len(id), 32)),
         NEW c, c = setBufferString(a, HeaderLength, id)
  PROVE  /\ c \in Seq(Byte) /\ Len(c) = n
         /\ KeyIn(c) = NoKey /\ SaKeyIn(c) = NoKey
         /\ FlagsIn("move", c) = {} /\ PortIdIn("move", c) = {}
         /\ IdLengthIn("move", c) = Word(Len(id), 32)
         /\ ListIn(c) = id
         /\ ClearIn("move", c)
<1> DEFINE z == Zeroed(n)
<1>1. n >= 24 /\ Len(id) \in Nat /\ HeaderLength \in Nat /\ "move" \in OutKinds
  BY DEF HeaderLength, OutKinds
<1>2. z \in Seq(Byte) /\ Len(z) = n /\ \A i \in 1..n : z[i] = {}
  BY ZeroedFacts
<1>3. KeyIn(z) = NoKey /\ SaKeyIn(z) = NoKey /\ PortIdIn("move", z) = {}
  BY <1>1, ZeroedFields
<1>4. 20 \in Nat /\ 4 \in Nat /\ 32 \in Nat /\ 20 + 4 <= Len(z)
  BY <1>1, <1>2
<1>5. Word(Len(id), 32) \in SUBSET (0..(8 * 4 - 1))
  <2>1. Word(Len(id), 32) \in SUBSET (0..(32 - 1))
    BY <1>1, <1>4, WordFacts, Zenon
  <2> QED BY <2>1
<1>6. a = setBufferString(z, 20, NetworkOrder(Word(Len(id), 32), 4))
  BY DEF setBufferLong
<1> HIDE DEF z
<1>20. WordWritten(z, a, 20, 4, Word(Len(id), 32))
  <2>1. z \in Seq(Byte)
    BY <1>2
  <2> QED BY <1>4, <1>5, <1>6, <2>1, WordSetAt, Zenon
<1>7. /\ a \in Seq(Byte) /\ Len(a) = Len(z)
      /\ \A i \in 1..Len(z) : i - 20 \notin 1..4 => a[i] = z[i]
      /\ HostOrder(GetBufferString(a, 20, 4)) = Word(Len(id), 32)
  BY <1>20 DEF WordWritten
<1>8. HeaderLength + Len(id) <= Len(a)
  BY <1>2, <1>7
<1>9. /\ c \in Seq(Byte) /\ Len(c) = Len(a)
      /\ \A i \in 1..Len(a) : i <= HeaderLength \/ HeaderLength + Len(id) < i => c[i] = a[i]
      /\ GetBufferString(c, HeaderLength, Len(id)) = id
  BY <1>1, <1>7, <1>8, StringKept
<1>10. Len(z) >= 24 /\ Len(a) >= 24 /\ Len(c) >= 24 /\ Len(c) = n
  BY <1>1, <1>2, <1>7, <1>9
<1>11. \A i \in 1..20 : a[i] = z[i]
  <2>1. ASSUME NEW i \in 1..20 PROVE i \in 1..Len(z) /\ i - 20 \notin 1..4
    BY <1>10
  <2> QED BY <1>7, <2>1
<1>12. \A i \in 1..24 : c[i] = a[i]
  <2>1. ASSUME NEW i \in 1..24 PROVE i \in 1..Len(a) /\ i <= HeaderLength
    BY <1>10 DEF HeaderLength
  <2> QED BY <1>9, <2>1
<1>13. /\ KeyIn(c) = KeyIn(a) /\ SaKeyIn(c) = SaKeyIn(a)
       /\ PortIdIn("move", c) = PortIdIn("move", a)
       /\ IdLengthIn("move", c) = IdLengthIn("move", a)
  <2>1. /\ \A i \in 1..8 : c[i] = a[i]
        /\ \A i \in 9..16 : c[i] = a[i]
        /\ \A i \in 19..20 : c[i] = a[i]
        /\ \A i \in 21..24 : c[i] = a[i]
    BY <1>12
  <2>2. "move" \in OutKinds /\ a \in Seq(Byte) /\ c \in Seq(Byte)
    BY <1>7, <1>9 DEF OutKinds
  <2>3. Len(a) >= 24 /\ Len(c) >= 24
    BY <1>10
  <2> QED BY <2>1, <2>2, <2>3, KeptFields
<1>14. /\ KeyIn(a) = KeyIn(z) /\ SaKeyIn(a) = SaKeyIn(z)
       /\ PortIdIn("move", a) = PortIdIn("move", z)
  <2>1. /\ \A i \in 1..8 : a[i] = z[i]
        /\ \A i \in 9..16 : a[i] = z[i]
        /\ \A i \in 19..20 : a[i] = z[i]
    BY <1>11
  <2>2. "move" \in OutKinds /\ z \in Seq(Byte) /\ a \in Seq(Byte)
    BY <1>2, <1>7 DEF OutKinds
  <2>3. Len(z) >= 24 /\ Len(a) >= 24
    BY <1>10
  <2> QED BY <2>1, <2>2, <2>3, KeptFields
<1>15. c[17] = {} /\ c[18] = {}
  <2>1. ASSUME NEW i \in 17..18 PROVE c[i] = {}
    <3>1. i \in 1..20 /\ i \in 1..24 /\ i \in 1..n
      BY <1>1
    <3> QED BY <1>2, <1>11, <1>12, <3>1
  <2> QED BY <2>1
<1>16. FlagsIn("move", c) = {}
  <2>1. ASSUME NEW f \in DOMAIN FlagAt["move"] PROVE c[FlagAt["move"][f][1] + 1] = {}
    <3>1. FlagAt["move"][f][1] = 17
      BY FlagPlaces
    <3> QED BY <1>15, <3>1
  <2> QED BY <2>1 DEF FlagsIn
<1>17. ClearIn("move", c)
  BY <1>15 DEF ClearIn
<1>18. IdLengthIn("move", a) = Word(Len(id), 32)
  BY <1>7 DEF IdLengthIn, GetBufferLong
<1>19. ListIn(c) = id
  BY <1>1, <1>9, <1>10, ListGot
<1> QED BY <1>3, <1>9, <1>10, <1>13, <1>14, <1>16, <1>17, <1>18, <1>19

\* The constructor preserves the invariant.
LEMMA MoveHolds ==
  ASSUME NEW id \in Lists, NewRegisterAndMove(id)
  PROVE  PRInv'
<1> DEFINE n == HeaderLength + Len(id)
<1>1. /\ kind' = "move" /\ kind' \in OutKinds
      /\ cdb' = NewCdb(RegisterAndMove, n)
      /\ mOutBuffer' = setBufferString(setBufferLong(Zeroed(n), 20, Word(Len(id), 32)),
                                       HeaderLength, id)
      /\ fields' = [NoFields EXCEPT !.action = RegisterAndMove,
                                    !.idLength = Word(Len(id), 32), !.list = id]
  BY DEF NewRegisterAndMove, OutKinds, HeaderLength
<1>2. id \in Seq(Byte) /\ n \in Nat /\ n >= HeaderLength /\ RegisterAndMove \in Byte
  BY InputsAssumption DEF HeaderLength, RegisterAndMove, Byte
<1>3. /\ cdb' \in [1..10 -> Byte] /\ cdb'[2] = RegisterAndMove /\ cdb'[3] = {}
      /\ GetBufferShort(cdb', 7) = Word(n, 16)
  BY <1>1, <1>2, NewCdbFacts
<1>4. /\ mOutBuffer' \in Seq(Byte) /\ Len(mOutBuffer') = n
      /\ KeyIn(mOutBuffer') = NoKey /\ SaKeyIn(mOutBuffer') = NoKey
      /\ FlagsIn("move", mOutBuffer') = {} /\ PortIdIn("move", mOutBuffer') = {}
      /\ IdLengthIn("move", mOutBuffer') = Word(Len(id), 32)
      /\ ListIn(mOutBuffer') = id
      /\ ClearIn("move", mOutBuffer')
  BY <1>1, <1>2, MoveRead
<1> HIDE DEF n
<1>5. BitsOf({}, 0, 4) = {}
  BY DEF BitsOf, Shr
<1>6. Intact'
  BY <1>1, <1>3, <1>4, <1>5 DEF Intact, NoFields
<1>7. PRTypeOK'
  BY <1>2, <1>3, <1>4 DEF PRTypeOK
<1>8. LengthWord'
  BY <1>3, <1>4 DEF LengthWord
<1> QED BY <1>6, <1>7, <1>8, IntactMarkedNext DEF PRInv
-----------------------------------------------------------------------------
(* The invariant of the specification.                                     *)

\* The requests of the other classes leave mOutBuffer alone.
LEMMA OtherHolds ==
  ASSUME PRInv, kind' \notin OutKinds, mOutBuffer' = mOutBuffer
  PROVE  PRInv'
BY DEF PRInv, PRTypeOK, LengthWord

\* What changes no variable of the request.
LEMMA SameHolds == ASSUME PRInv, UNCHANGED vars PROVE PRInv'
BY DEF PRInv, PRTypeOK, LengthWord, Intact, Marked, vars

\* The constructors of the other classes.
LEMMA ConstructedHolds ==
  ASSUME PRInv, NEW k, k \notin OutKinds, NEW c, NEW size, Constructed(k, c, size)
  PROVE  PRInv'
BY OtherHolds DEF Constructed

\* All of them.
LEMMA NewRequestHolds == ASSUME PRInv, NewRequest PROVE PRInv'
<1>1. /\ {"inquiry", "supported", "serial", "deviceId", "luns", "read10", "capacity10",
          "capacity16", "keys", "reservation", "noData"} \cap OutKinds = {}
  BY DEF OutKinds
<1>2. CASE NewInquiry
  BY <1>1, <1>2, ConstructedHolds DEF NewInquiry
<1>3. CASE NewReadCapacity
  BY <1>1, <1>3, ConstructedHolds DEF NewReadCapacity
<1>4. CASE NewNoData
  BY <1>1, <1>4, ConstructedHolds DEF NewNoData
<1>5. ASSUME NEW size \in Sizes, NewReportLuns(size) PROVE PRInv'
  BY <1>1, <1>5, ConstructedHolds DEF NewReportLuns
<1>6. ASSUME NEW size \in Sizes, NewRead10(size) PROVE PRInv'
  BY <1>1, <1>6, ConstructedHolds DEF NewRead10
<1>7. ASSUME NEW size \in Sizes, NewPersistentReserveIn(size) PROVE PRInv'
  BY <1>1, <1>7, ConstructedHolds DEF NewPersistentReserveIn
<1> QED BY <1>2, <1>3, <1>4, <1>5, <1>6, <1>7 DEF NewRequest

\* There is no request at first.
LEMMA InitHolds == ASSUME RequestInit PROVE PRInv
BY DEF RequestInit, Init, PRInv, PRTypeOK, LengthWord, OutKinds

\* Every step preserves the invariant.
LEMMA StepHolds ==
  ASSUME PRInv, [RequestNext]_<<vars, inVars>>
  PROVE  PRInv'
<1>1. CASE Next
  <2>1. ASSUME NEW a \in Actions, NEW n \in Lengths, New(a, n) PROVE PRInv'
    BY <2>1, NewHolds
  <2>2. ASSUME NEW id \in Lists, NewRegisterAndMove(id) PROVE PRInv'
    BY <2>2, MoveHolds
  <2>3. ASSUME NEW t \in Types, SetReservationType(t) PROVE PRInv'
    BY <2>3, TypeHolds
  <2>4. ASSUME NEW k \in Keys, SetReservationKey(k) \/ SetServiceActionReservationKey(k)
        PROVE  PRInv'
    BY <2>4, KeyHolds, KeyShort
  <2>5. ASSUME NEW f \in {"aptpl", "allTgPt", "unreg"}, NEW val \in BOOLEAN, SetFlag(f, val)
        PROVE  PRInv'
    BY <2>5, FlagHolds, FlagShort
  <2>6. ASSUME NEW p \in PortIds, SetRelativeTargetPortId(p) PROVE PRInv'
    BY <2>6, PortIdHolds, PortIdShort
  <2>7. ASSUME NEW list \in Lists, SetTransportIdList(list) PROVE PRInv'
    BY <2>7, ListHolds
  <2>8. CASE ResetOutBuffer
    BY <2>8, ResetHolds, ResetShort
  <2> QED BY <1>1, <2>1, <2>2, <2>3, <2>4, <2>5, <2>6, <2>7, <2>8 DEF Next
<1>2. CASE NewRequest
  BY <1>2, NewRequestHolds
<1>3. ASSUME NEW lba \in Lbas, SetLBA(lba) PROVE PRInv'
  BY <1>3, OtherHolds DEF SetLBA, OutKinds
<1>4. ASSUME NEW n \in Sizes, SetAllocationLen(n) PROVE PRInv'
  BY <1>4, OtherHolds DEF SetAllocationLen, OutKinds
<1>5. ASSUME NEW b \in BOOLEAN, SetEVPD(b) PROVE PRInv'
  BY <1>5, OtherHolds DEF SetEVPD, OutKinds, InquiryKinds
<1>6. CASE RetryReportLuns
  BY <1>6, ConstructedHolds DEF RetryReportLuns, NewReportLuns, OutKinds
<1>7. CASE Destroy
  <2>1. kind' \notin OutKinds /\ mOutBuffer' = <<>>
    BY <1>7 DEF Destroy, OutKinds
  <2> QED BY <2>1 DEF PRInv, PRTypeOK, LengthWord
<1>8. CASE UNCHANGED vars
  BY <1>8, SameHolds
<1>9. ResetInBuffer \/ Execute \/ GetDescriptorCount => UNCHANGED vars
  BY DEF ResetInBuffer, Execute, GetDescriptorCount
<1> QED BY <1>1, <1>2, <1>3, <1>4, <1>5, <1>6, <1>7, <1>8, <1>9 DEF RequestNext

\* The inductive invariant: Intact is FieldsIntact, field by field.
THEOREM Invariant == RequestSpec => []PRInv
<1>1. RequestInit => PRInv
  BY InitHolds
<1>2. PRInv /\ [RequestNext]_<<vars, inVars>> => PRInv'
  BY StepHolds
<1> QED BY <1>1, <1>2, PTL DEF RequestSpec

\* The type invariant of the requests of PERSISTENT RESERVE OUT: a request that was
\* constructed with room for the header keeps it, also when its buffer is replaced,
\* so no setter of it is refused for want of room.
THEOREM TypeCorrect == RequestSpec => []PRTypeOK
<1>1. PRInv => PRTypeOK
  BY DEF PRInv
<1> QED BY <1>1, Invariant, PTL

\* For all inputs, and whatever setters are called in whatever order: each field of
\* a request that was constructed with room for the header holds what was last asked
\* for, read with the getters of the code, and no reserved bit is set.
THEOREM NoSetterDisturbsAnother == RequestSpec => []FieldsIntact
<1>1. PRInv => FieldsIntact
  <2>1. CASE kind \in OutKinds /\ fields.whole
    <3>1. PRInv => Intact /\ mOutBuffer \in Seq(Byte) /\ Len(mOutBuffer) >= HeaderLength
      BY <2>1 DEF PRInv, PRTypeOK
    <3> QED BY <2>1, <3>1, IntactIsFieldsIntact
  <2>2. CASE ~(kind \in OutKinds /\ fields.whole)
    BY <2>2 DEF FieldsIntact
  <2> QED BY <2>1, <2>2
<1> QED BY <1>1, Invariant, PTL
=============================================================================
