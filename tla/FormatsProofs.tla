---------------------------- MODULE FormatsProofs ----------------------------
(***************************************************************************)
(* How the CDBs that the constructors and setters of module Requests make, *)
(* and the pages that a target makes, are laid out in bytes, for every     *)
(* size, address and page that its assumptions allow.                      *)
(*                                                                         *)
(* A number is read from a word as it was written, and FlattenSeq joins    *)
(* its sequences one after another.  Then come the fields of each CDB,     *)
(* with CdbInv, what is true of the CDB of a live request and is kept by   *)
(* every action; then what a target takes from a CDB, and the fields of    *)
(* each page that it answers with.  As in RequestsProofs, where a solver   *)
(* is to apply a lemma to numbers, its conclusion is a predicate with a    *)
(* name.                                                                   *)
(***************************************************************************)
EXTENDS RequestsProofs, WellFoundedInduction

\* The powers of 2 under a name: the solver knows 2^3 but not 2^i.
Power(i) == 2^i

\* The powers of 2 that words have.
LEMMA Powers ==
  /\ Power(0) = 1 /\ Power(1) = 2 /\ Power(2) = 4 /\ Power(3) = 8 /\ Power(4) = 16
  /\ Power(5) = 32 /\ Power(6) = 64 /\ Power(7) = 128 /\ Power(8) = 256
  /\ Power(9) = 512 /\ Power(10) = 1024 /\ Power(11) = 2048 /\ Power(12) = 4096
  /\ Power(13) = 8192 /\ Power(14) = 16384 /\ Power(15) = 32768 /\ Power(16) = 65536
  /\ Power(17) = 131072 /\ Power(18) = 262144 /\ Power(19) = 524288
  /\ Power(20) = 1048576 /\ Power(21) = 2097152 /\ Power(22) = 4194304
  /\ Power(23) = 8388608 /\ Power(24) = 16777216 /\ Power(25) = 33554432
  /\ Power(26) = 67108864 /\ Power(27) = 134217728 /\ Power(28) = 268435456
  /\ Power(29) = 536870912 /\ Power(30) = 1073741824 /\ Power(31) = 2 * 1073741824
BY DEF Power

\* Every power that a word has is positive.
LEMMA PowerFacts == ASSUME NEW i \in 0..31 PROVE Power(i) \in Nat /\ Power(i) > 0
BY Powers

\* The recursion of Value, on the sets of bits of a word.
IsSum(g, word) ==
  g = [s \in SUBSET word |->
         IF s = {} THEN 0
         ELSE LET i == CHOOSE i \in s : TRUE IN Power(i) + g[s \ {i}]]

\* Value is its own recursion, written out.
LEMMA ValueIsSum ==
  ASSUME NEW word PROVE Value(word) = (CHOOSE g : IsSum(g, word))[word]
BY DEF Value, MapThenSumSet, MapThenFoldSet, IsSum, Power

\* Word with the powers under their name.
LEMMA WordPower ==
  ASSUME NEW n, NEW w
  PROVE Word(n, w) = {i \in (0..(w - 1)) \cap (0..30) : (n \div Power(i)) % 2 = 1}
BY Zenon DEF Word, Power

\* What a bit adds to the number, and a byte, of which the least significant is 0.
Weight(word, i) == IF i \in word THEN Power(i) ELSE 0
WeightOfByte(word, k) ==
  Weight(word, 8 * k) + Weight(word, 8 * k + 1) + Weight(word, 8 * k + 2)
    + Weight(word, 8 * k + 3) + Weight(word, 8 * k + 4) + Weight(word, 8 * k + 5)
    + Weight(word, 8 * k + 6) + Weight(word, 8 * k + 7)

\* The number that a word stands for, without a recursion.
Number(word) ==
  WeightOfByte(word, 0) + WeightOfByte(word, 1) + WeightOfByte(word, 2)
    + WeightOfByte(word, 3)

\* A weight is a number.
LEMMA WeightFacts ==
  ASSUME NEW word, NEW i \in 0..31 PROVE Weight(word, i) \in Nat
BY PowerFacts DEF Weight

\* The weight of a byte is a number.
LEMMA WeightOfByteFacts ==
  ASSUME NEW word, NEW k \in 0..3 PROVE WeightOfByte(word, k) \in Nat
<1>1. /\ Weight(word, 8 * k) \in Nat /\ Weight(word, 8 * k + 1) \in Nat
      /\ Weight(word, 8 * k + 2) \in Nat /\ Weight(word, 8 * k + 3) \in Nat
      /\ Weight(word, 8 * k + 4) \in Nat /\ Weight(word, 8 * k + 5) \in Nat
      /\ Weight(word, 8 * k + 6) \in Nat /\ Weight(word, 8 * k + 7) \in Nat
  BY WeightFacts
<1> QED BY <1>1 DEF WeightOfByte

\* The number of a word is a number, whatever the word.
LEMMA NumberFacts == ASSUME NEW word PROVE Number(word) \in Nat
BY WeightOfByteFacts DEF Number

\* Taking a bit away takes its power of 2 from the number.
LEMMA BitTaken ==
  ASSUME NEW word, NEW i \in word, i \in 0..31
  PROVE  Number(word) = Power(i) + Number(word \ {i})
<1> DEFINE rest == word \ {i}
<1>1. Power(i) \in Nat
  BY PowerFacts
<1>2. Weight(word, i) = Power(i) /\ Weight(rest, i) = 0
  BY DEF Weight
<1>3. \A j : j # i => Weight(rest, j) = Weight(word, j)
  BY DEF Weight
<1>4. \A j \in 0..31 : Weight(word, j) \in Nat
  BY WeightFacts
<1> HIDE DEF rest
<1>5. PICK k \in 0..3, j \in 0..7 : i = 8 * k + j
  <2>1. i = 8 * (i \div 8) + (i % 8) /\ i \div 8 \in 0..3 /\ i % 8 \in 0..7
    OBVIOUS
  <2> QED BY <2>1
<1>6. WeightOfByte(word, k) = Power(i) + WeightOfByte(rest, k)
  <2>1. \A m \in 0..7 : /\ Weight(word, 8 * k + m) \in Nat
                        /\ m # j => Weight(rest, 8 * k + m) = Weight(word, 8 * k + m)
    BY <1>3, <1>4, <1>5
  <2>2. Weight(word, 8 * k + j) = Power(i) /\ Weight(rest, 8 * k + j) = 0
    BY <1>2, <1>5
  <2> DEFINE w(m) == Weight(word, 8 * k + m)
             r(m) == Weight(rest, 8 * k + m)
  <2>3. /\ WeightOfByte(word, k) = w(0) + w(1) + w(2) + w(3) + w(4) + w(5) + w(6) + w(7)
        /\ WeightOfByte(rest, k) = r(0) + r(1) + r(2) + r(3) + r(4) + r(5) + r(6) + r(7)
    BY DEF WeightOfByte
  <2>4. /\ \A m \in 0..7 : w(m) \in Nat /\ (m # j => r(m) = w(m))
        /\ w(j) = Power(i) /\ r(j) = 0
    BY <2>1, <2>2
  <2> HIDE DEF w, r
  <2> QED BY <1>1, <2>3, <2>4
<1>7. ASSUME NEW m \in 0..3, m # k PROVE WeightOfByte(word, m) = WeightOfByte(rest, m)
  <2>1. \A n \in 0..7 : Weight(rest, 8 * m + n) = Weight(word, 8 * m + n)
    BY <1>3, <1>5, <1>7
  <2>2. Weight(rest, 8 * m) = Weight(word, 8 * m)
    BY <1>3, <1>5, <1>7
  <2> QED BY <2>1, <2>2 DEF WeightOfByte
<1>8. \A m \in 0..3 : WeightOfByte(word, m) \in Nat /\ WeightOfByte(rest, m) \in Nat
  BY WeightOfByteFacts
<1>9. Number(word) = Power(i) + Number(rest)
  BY <1>1, <1>6, <1>7, <1>8 DEF Number
<1> QED BY <1>9 DEF rest

\* A word has a bit, or stands for 0.
LEMMA NoBits == Number({}) = 0
<1>1. \A k : WeightOfByte({}, k) = 0
  BY DEF WeightOfByte, Weight
<1> QED BY <1>1 DEF Number

\* Value is what its recursion says it is.
LEMMA ValueIsNumber ==
  ASSUME NEW word \in SUBSET (0..31)
  PROVE  Value(word) = Number(word)
<1> DEFINE first(s) == CHOOSE i \in s : TRUE
           number == [s \in SUBSET word |-> Number(s)]
           sum == CHOOSE g : IsSum(g, word)
<1>1. ASSUME NEW s \in SUBSET word, s # {}
      PROVE  /\ first(s) \in s /\ first(s) \in 0..31 /\ s \ {first(s)} \in SUBSET word
             /\ Number(s) = Power(first(s)) + Number(s \ {first(s)})
  <2>1. first(s) \in s
    BY <1>1
  <2> QED BY <2>1, BitTaken
<1>2. IsSum(number, word)
  <2>1. ASSUME NEW s \in SUBSET word
        PROVE  Number(s) = IF s = {} THEN 0
                           ELSE Power(first(s)) + number[s \ {first(s)}]
    BY <1>1, NoBits
  <2> QED BY <2>1 DEF IsSum
<1>3. IsSum(sum, word)
  BY <1>2
<1>4. ASSUME NEW s \in SUBSET word
      PROVE  sum[s] = IF s = {} THEN 0 ELSE Power(first(s)) + sum[s \ {first(s)}]
  BY <1>3 DEF IsSum
<1> DEFINE Wrong == {n \in Nat : \E s \in SUBSET word : Number(s) = n /\ sum[s] # n}
<1> HIDE DEF sum, first
<1>5. Wrong = {}
  <2> SUFFICES ASSUME Wrong # {} PROVE FALSE
    OBVIOUS
  <2>1. PICK n \in Wrong : \A m \in Wrong : ~(<<m, n>> \in OpToRel(<, Nat))
    BY NatLessThanWellFounded, WFMin
  <2>2. \A m \in Wrong : ~(m < n)
    BY <2>1 DEF OpToRel
  <2>3. PICK s \in SUBSET word : Number(s) = n /\ sum[s] # n
    OBVIOUS
  <2>4. s # {}
    BY <1>4, <2>3, NoBits
  <2> DEFINE rest == s \ {first(s)}
  <2>5. n = Power(first(s)) + Number(rest) /\ rest \in SUBSET word
        /\ sum[s] = Power(first(s)) + sum[rest]
        /\ first(s) \in 0..31
    BY <1>1, <1>4, <2>3, <2>4
  <2>6. Power(first(s)) \in Nat /\ Power(first(s)) > 0 /\ Number(rest) \in Nat
    BY <2>5, PowerFacts, NumberFacts
  <2> HIDE DEF rest
  <2>7. sum[rest] # Number(rest)
    BY <2>3, <2>5
  <2>8. Number(rest) \in Wrong /\ Number(rest) < n
    BY <2>5, <2>6, <2>7
  <2> QED BY <2>2, <2>8
<1>6. sum[word] = Number(word)
  BY <1>5, NumberFacts
<1> QED BY <1>6, ValueIsSum DEF sum

\* A bit of a number.
BitOf(n, i) == (n \div Power(i)) % 2

\* A bit is 0 or 1.
LEMMA BitFacts == ASSUME NEW n \in Nat, NEW i \in 0..30 PROVE BitOf(n, i) \in {0, 1}
<1>1. Power(i) \in Nat /\ Power(i) > 0
  BY PowerFacts
<1>2. n \div Power(i) \in Nat
  BY <1>1
<1>3. \A m \in Nat : m % 2 \in {0, 1}
  OBVIOUS
<1> QED BY <1>2, <1>3 DEF BitOf

\* The bits of a number, one after another.
LEMMA Halves ==
  ASSUME NEW m \in Nat
  PROVE  m % 256 = BitOf(m, 0) + 2 * BitOf(m, 1) + 4 * BitOf(m, 2) + 8 * BitOf(m, 3)
                     + 16 * BitOf(m, 4) + 32 * BitOf(m, 5) + 64 * BitOf(m, 6)
                     + 128 * BitOf(m, 7)
<1>1. /\ BitOf(m, 0) = m % 2 /\ BitOf(m, 1) = (m \div 2) % 2
      /\ BitOf(m, 2) = (m \div 4) % 2 /\ BitOf(m, 3) = (m \div 8) % 2
      /\ BitOf(m, 4) = (m \div 16) % 2 /\ BitOf(m, 5) = (m \div 32) % 2
      /\ BitOf(m, 6) = (m \div 64) % 2 /\ BitOf(m, 7) = (m \div 128) % 2
  BY Powers DEF BitOf
<1>2. m = 2 * (m \div 2) + (m % 2) /\ m \div 2 \in Nat
  OBVIOUS
<1>3. m \div 2 = 2 * (m \div 4) + ((m \div 2) % 2) /\ m \div 4 \in Nat
  OBVIOUS
<1>4. m \div 4 = 2 * (m \div 8) + ((m \div 4) % 2) /\ m \div 8 \in Nat
  OBVIOUS
<1>5. m \div 8 = 2 * (m \div 16) + ((m \div 8) % 2) /\ m \div 16 \in Nat
  OBVIOUS
<1>6. m \div 16 = 2 * (m \div 32) + ((m \div 16) % 2) /\ m \div 32 \in Nat
  OBVIOUS
<1>7. m \div 32 = 2 * (m \div 64) + ((m \div 32) % 2) /\ m \div 64 \in Nat
  OBVIOUS
<1>8. m \div 64 = 2 * (m \div 128) + ((m \div 64) % 2) /\ m \div 128 \in Nat
  OBVIOUS
<1>9. m \div 128 = 2 * (m \div 256) + ((m \div 128) % 2) /\ m \div 256 \in Nat
  OBVIOUS
<1>10. m = 256 * (m \div 256) + (m % 256)
  OBVIOUS
<1>11. m = 256 * (m \div 256) + (m % 2) + 2 * ((m \div 2) % 2) + 4 * ((m \div 4) % 2)
             + 8 * ((m \div 8) % 2) + 16 * ((m \div 16) % 2) + 32 * ((m \div 32) % 2)
             + 64 * ((m \div 64) % 2) + 128 * ((m \div 128) % 2)
  BY <1>2, <1>3, <1>4, <1>5, <1>6, <1>7, <1>8, <1>9
<1>12. m % 256 = (m % 2) + 2 * ((m \div 2) % 2) + 4 * ((m \div 4) % 2)
                 + 8 * ((m \div 8) % 2) + 16 * ((m \div 16) % 2) + 32 * ((m \div 32) % 2)
                 + 64 * ((m \div 64) % 2) + 128 * ((m \div 128) % 2)
  BY <1>10, <1>11
<1> HIDE DEF BitOf
<1> QED BY <1>1, <1>12

\* The bits of a byte of a number.
LEMMA BitsOfByte ==
  ASSUME NEW n \in Nat, NEW i \in 0..7
  PROVE  /\ BitOf(n, 8 + i) = BitOf(n \div 256, i)
         /\ BitOf(n, 16 + i) = BitOf(n \div 65536, i)
         /\ i < 7 => BitOf(n, 24 + i) = BitOf(n \div 16777216, i)
<1>1. ASSUME NEW j \in 0..7 PROVE n \div Power(8 + j) = (n \div 256) \div Power(j)
  BY Powers
<1>2. ASSUME NEW j \in 0..7 PROVE n \div Power(16 + j) = (n \div 65536) \div Power(j)
  BY Powers
<1>3. ASSUME NEW j \in 0..6 PROVE n \div Power(24 + j) = (n \div 16777216) \div Power(j)
  BY Powers, SMT
<1> QED BY <1>1, <1>2, <1>3, SMT DEF BitOf

\* A bit of a number, weighted.
LEMMA WeightOfWord ==
  ASSUME NEW n \in Nat, NEW w \in Nat, NEW i \in 0..30, i < w
  PROVE  Weight(Word(n, w), i) = IF BitOf(n, i) = 1 THEN Power(i) ELSE 0
BY WordPower DEF Weight, BitOf

\* The bytes of a number.
LEMMA ByteOfWord ==
  ASSUME NEW n \in Nat, NEW w \in {8, 16, 32}
  PROVE  /\ WeightOfByte(Word(n, w), 0) = n % 256
         /\ w # 8 => WeightOfByte(Word(n, w), 1) = 256 * ((n \div 256) % 256)
         /\ w = 32 => WeightOfByte(Word(n, w), 2) = 65536 * ((n \div 65536) % 256)
<1> DEFINE W(i) == Weight(Word(n, w), i)
<1>1. ASSUME NEW i \in 0..30, i < w
      PROVE  W(i) = (IF BitOf(n, i) = 1 THEN Power(i) ELSE 0) /\ BitOf(n, i) \in {0, 1}
  <2>1. w \in Nat
    OBVIOUS
  <2> QED BY <1>1, <2>1, WeightOfWord, BitFacts
<1>2. /\ WeightOfByte(Word(n, w), 0) = W(0) + W(1) + W(2) + W(3) + W(4) + W(5) + W(6) + W(7)
      /\ WeightOfByte(Word(n, w), 1)
           = W(8) + W(9) + W(10) + W(11) + W(12) + W(13) + W(14) + W(15)
      /\ WeightOfByte(Word(n, w), 2)
           = W(16) + W(17) + W(18) + W(19) + W(20) + W(21) + W(22) + W(23)
  BY DEF WeightOfByte
<1> HIDE DEF W
<1>3. WeightOfByte(Word(n, w), 0) = n % 256
  <2>1. WeightOfByte(Word(n, w), 0)
          = BitOf(n, 0) + 2 * BitOf(n, 1) + 4 * BitOf(n, 2) + 8 * BitOf(n, 3)
            + 16 * BitOf(n, 4) + 32 * BitOf(n, 5) + 64 * BitOf(n, 6) + 128 * BitOf(n, 7)
    BY <1>1, <1>2, Powers
  <2> QED BY <2>1, Halves
<1>4. ASSUME w # 8 PROVE WeightOfByte(Word(n, w), 1) = 256 * ((n \div 256) % 256)
  <2> DEFINE m == n \div 256
  <2>1. m \in Nat /\ \A i \in 0..7 : BitOf(n, 8 + i) = BitOf(m, i)
    BY BitsOfByte
  <2> HIDE DEF m
  <2>2. \A i \in 0..7 : BitOf(m, i) \in {0, 1}
    BY <2>1, BitFacts
  <2>3. WeightOfByte(Word(n, w), 1)
          = 256 * BitOf(m, 0) + 512 * BitOf(m, 1) + 1024 * BitOf(m, 2) + 2048 * BitOf(m, 3)
            + 4096 * BitOf(m, 4) + 8192 * BitOf(m, 5) + 16384 * BitOf(m, 6)
            + 32768 * BitOf(m, 7)
    BY <1>1, <1>2, <1>4, <2>1, Powers
  <2>4. WeightOfByte(Word(n, w), 1) = 256 * (m % 256)
    BY <2>1, <2>2, <2>3, Halves
  <2> QED BY <2>4 DEF m
<1>5. ASSUME w = 32 PROVE WeightOfByte(Word(n, w), 2) = 65536 * ((n \div 65536) % 256)
  <2> DEFINE m == n \div 65536
  <2>1. m \in Nat /\ \A i \in 0..7 : BitOf(n, 16 + i) = BitOf(m, i)
    BY BitsOfByte
  <2> HIDE DEF m
  <2>2. \A i \in 0..7 : BitOf(m, i) \in {0, 1}
    BY <2>1, BitFacts
  <2>3. WeightOfByte(Word(n, w), 2)
          = 65536 * BitOf(m, 0) + 131072 * BitOf(m, 1) + 262144 * BitOf(m, 2)
            + 524288 * BitOf(m, 3)
            + 1048576 * BitOf(m, 4) + 2097152 * BitOf(m, 5)
            + 4194304 * BitOf(m, 6) + 8388608 * BitOf(m, 7)
    BY <1>1, <1>2, <1>5, <2>1, Powers
  <2>4. WeightOfByte(Word(n, w), 2) = 65536 * (m % 256)
    BY <2>1, <2>2, <2>3, Halves
  <2> QED BY <2>4 DEF m
<1> QED BY <1>3, <1>4, <1>5

\* The last byte of a number has no more than 7 bits.
LEMMA LastByteOfWord ==
  ASSUME NEW n \in Nat, n <= 2147483647
  PROVE  WeightOfByte(Word(n, 32), 3) = 16777216 * (n \div 16777216)
<1> DEFINE W(i) == Weight(Word(n, 32), i)
           m == n \div 16777216
<1>1. ASSUME NEW i \in 0..30
      PROVE  W(i) = (IF BitOf(n, i) = 1 THEN Power(i) ELSE 0)
  BY WeightOfWord, SMT
<1>2. W(31) = 0
  BY SMT DEF Weight, Word
<1>3. WeightOfByte(Word(n, 32), 3)
        = W(24) + W(25) + W(26) + W(27) + W(28) + W(29) + W(30) + W(31)
  BY SMT DEF WeightOfByte
<1>4. m \in Nat /\ m < 128 /\ \A i \in 0..6 : BitOf(n, 24 + i) = BitOf(m, i)
  BY BitsOfByte, SMT
<1> HIDE DEF W, m
<1>5. /\ BitOf(m, 7) = 0 /\ m % 256 = m
      /\ \A i \in 0..7 : BitOf(m, i) \in {0, 1}
  <2>1. BitOf(m, 7) = 0
    <3>1. BitOf(m, 7) = (m \div 128) % 2
      BY Powers, SMT DEF BitOf
    <3> QED BY <1>4, <3>1, SMT
  <2>2. m % 256 = m
    BY <1>4, SMT
  <2> QED BY <1>4, <2>1, <2>2, BitFacts, SMT
<1>6. \A i \in 0..6 : W(24 + i) = Power(24 + i) * BitOf(m, i)
  BY <1>1, <1>4, <1>5, Powers, SMT
<1>7. /\ W(24) = 16777216 * BitOf(m, 0) /\ W(25) = 33554432 * BitOf(m, 1)
      /\ W(26) = 67108864 * BitOf(m, 2) /\ W(27) = 134217728 * BitOf(m, 3)
      /\ W(28) = 268435456 * BitOf(m, 4) /\ W(29) = 536870912 * BitOf(m, 5)
      /\ W(30) = 1073741824 * BitOf(m, 6)
  BY <1>6, Powers, SMT
<1>8. m = BitOf(m, 0) + 2 * BitOf(m, 1) + 4 * BitOf(m, 2) + 8 * BitOf(m, 3)
         + 16 * BitOf(m, 4) + 32 * BitOf(m, 5) + 64 * BitOf(m, 6) + 128 * BitOf(m, 7)
  BY <1>4, <1>5, Halves, SMT
<1>9. WeightOfByte(Word(n, 32), 3) = 16777216 * m
  <2>1. /\ BitOf(m, 0) \in Int /\ BitOf(m, 1) \in Int /\ BitOf(m, 2) \in Int
        /\ BitOf(m, 3) \in Int /\ BitOf(m, 4) \in Int /\ BitOf(m, 5) \in Int
        /\ BitOf(m, 6) \in Int /\ BitOf(m, 7) = 0
    BY <1>5, SMT
  <2> QED BY <1>2, <1>3, <1>7, <1>8, <2>1, SMT
<1> QED BY <1>9, SMT DEF m

\* A byte that has no bit.
LEMMA NoWeight ==
  ASSUME NEW n \in Nat, NEW w \in Nat, NEW k \in 0..3, w <= 8 * k
  PROVE  WeightOfByte(Word(n, w), k) = 0
<1>1. \A i : i >= w /\ i \in Nat => i \notin Word(n, w)
  BY DEF Word
<1> QED BY <1>1 DEF WeightOfByte, Weight

\* Word and Value are each other's inverse.
LEMMA ValueOfWord ==
  ASSUME NEW n \in Nat
  PROVE  /\ n <= 255 => Value(Word(n, 8)) = n
         /\ n <= 65535 => Value(Word(n, 16)) = n
         /\ n <= 2147483647 => Value(Word(n, 32)) = n
<1>1. \A w \in {8, 16, 32} : Value(Word(n, w)) = Number(Word(n, w))
  <2> SUFFICES ASSUME NEW w \in {8, 16, 32} PROVE Word(n, w) \in SUBSET (0..31)
    BY ValueIsNumber, SMT
  <2> QED BY SMT DEF Word
<1>2. ASSUME n <= 255 PROVE Number(Word(n, 8)) = n
  <2>1. /\ WeightOfByte(Word(n, 8), 0) = n % 256 /\ WeightOfByte(Word(n, 8), 1) = 0
        /\ WeightOfByte(Word(n, 8), 2) = 0 /\ WeightOfByte(Word(n, 8), 3) = 0
    BY ByteOfWord, NoWeight, SMT
  <2> QED BY <1>2, <2>1, SMT DEF Number
<1>3. ASSUME n <= 65535 PROVE Number(Word(n, 16)) = n
  <2>1. /\ WeightOfByte(Word(n, 16), 0) = n % 256
        /\ WeightOfByte(Word(n, 16), 1) = 256 * ((n \div 256) % 256)
        /\ WeightOfByte(Word(n, 16), 2) = 0 /\ WeightOfByte(Word(n, 16), 3) = 0
    BY ByteOfWord, NoWeight, SMT
  <2> QED BY <1>3, <2>1, SMT DEF Number
<1>4. ASSUME n <= 2147483647 PROVE Number(Word(n, 32)) = n
  <2>1. /\ WeightOfByte(Word(n, 32), 0) = n % 256
        /\ WeightOfByte(Word(n, 32), 1) = 256 * ((n \div 256) % 256)
        /\ WeightOfByte(Word(n, 32), 2) = 65536 * ((n \div 65536) % 256)
        /\ WeightOfByte(Word(n, 32), 3) = 16777216 * (n \div 16777216)
    BY <1>4, ByteOfWord, LastByteOfWord, SMT
  <2>2. n = 256 * (n \div 256) + (n % 256)
    BY SMT
  <2>3. n \div 256 = 256 * (n \div 65536) + ((n \div 256) % 256)
    BY SMT
  <2>4. n \div 65536 = 256 * (n \div 16777216) + ((n \div 65536) % 256)
    BY SMT
  <2>5. n = (n % 256) + 256 * ((n \div 256) % 256) + 65536 * ((n \div 65536) % 256)
              + 16777216 * (n \div 16777216)
    BY <2>2, <2>3, <2>4, SMT
  <2> QED BY <2>1, <2>5, SMT DEF Number
<1> QED BY <1>1, <1>2, <1>3, <1>4, SMT

\* Induction up to n, without an operator as its parameter.
LEMMA UpTo ==
  ASSUME NEW n \in Nat, NEW T, 1 \in T,
         \A k \in Nat : k >= 1 /\ k < n /\ k \in T => k + 1 \in T
  PROVE  \A k \in 1..n : k \in T
<1> DEFINE Wrong == {k \in Nat : k \in 1..n /\ k \notin T}
<1> SUFFICES ASSUME Wrong # {} PROVE FALSE
  OBVIOUS
<1>1. PICK k \in Wrong : \A m \in Wrong : ~(<<m, k>> \in OpToRel(<, Nat))
  BY NatLessThanWellFounded, WFMin
<1>2. \A m \in Wrong : ~(m < k)
  BY <1>1 DEF OpToRel
<1>3. k \in 1..n /\ k \notin T
  OBVIOUS
<1>4. k - 1 \in Nat /\ k - 1 >= 1 /\ k - 1 < n /\ k - 1 < k /\ (k - 1) + 1 = k
  BY <1>3
<1>5. k - 1 \notin T
  BY <1>3, <1>4
<1>6. k - 1 \in Wrong
  BY <1>3, <1>4, <1>5
<1> QED BY <1>2, <1>4, <1>6

\* The recursion of FlattenSeq: g[i] is what has been joined of seqs at i.
IsJoin(g, seqs) ==
  g = [i \in 1..Len(seqs) |-> IF i = 1 THEN seqs[i] ELSE g[i - 1] \o seqs[i]]

\* The same, of the first k.
Joins(g, seqs, k) ==
  /\ DOMAIN g = 1..k /\ g = [i \in 1..k |-> g[i]] 
  /\ g[1] = seqs[1]
  /\ \A i \in 2..k : g[i] = g[i - 1] \o seqs[i]

\* FlattenSeq is its own recursion, written out.
LEMMA FlattenIsJoin ==
  ASSUME NEW seqs, Len(seqs) # 0
  PROVE  FlattenSeq(seqs) = (CHOOSE g : IsJoin(g, seqs))[Len(seqs)]
BY DEF FlattenSeq, IsJoin

\* What is joined of one, and of one more.
LEMMA JoinFirst ==
  ASSUME NEW seqs PROVE Joins([i \in 1..1 |-> seqs[1]], seqs, 1)
BY DEF Joins

\* A solution up to m gives one up to m + 1.
LEMMA JoinNext ==
  ASSUME NEW seqs, NEW m \in Nat, m >= 1, NEW g, Joins(g, seqs, m)
  PROVE  \E h : Joins(h, seqs, m + 1)
<1> DEFINE h == [i \in 1..(m + 1) |-> IF i = m + 1 THEN g[m] \o seqs[i] ELSE g[i]]
<1>1. /\ DOMAIN g = 1..m /\ g[1] = seqs[1]
      /\ \A i \in 2..m : g[i] = g[i - 1] \o seqs[i]
  BY DEF Joins
<1>2. DOMAIN h = 1..(m + 1) /\ h = [i \in 1..(m + 1) |-> h[i]]
  OBVIOUS
<1>3. \A i \in 1..m : h[i] = g[i]
  OBVIOUS
<1>4. h[m + 1] = g[m] \o seqs[m + 1]
  <2>1. m + 1 \in 1..(m + 1)
    OBVIOUS
  <2> QED BY <2>1
<1> HIDE DEF h
<1>5. ASSUME NEW i \in 2..(m + 1) PROVE h[i] = h[i - 1] \o seqs[i]
  <2>1. CASE i = m + 1
    <3>1. i - 1 = m /\ m \in 1..m
      BY <2>1
    <3> QED BY <1>3, <1>4, <2>1, <3>1
  <2>2. CASE i # m + 1
    <3>1. i \in 2..m /\ i \in 1..m /\ i - 1 \in 1..m
      BY <2>2
    <3> QED BY <1>1, <1>3, <3>1
  <2> QED BY <2>1, <2>2
<1>6. h[1] = seqs[1]
  <2>1. 1 \in 1..m
    OBVIOUS
  <2> QED BY <1>1, <1>3, <2>1
<1>7. Joins(h, seqs, m + 1)
  BY <1>2, <1>5, <1>6 DEF Joins
<1> QED BY <1>7

\* The recursion of FlattenSeq has a solution.
LEMMA JoinExists ==
  ASSUME NEW seqs, NEW n \in Nat, n >= 1
  PROVE  \E g : Joins(g, seqs, n)
<1> DEFINE T == {k \in Nat : \E g : Joins(g, seqs, k)}
<1>1. 1 \in T
  BY JoinFirst
<1>2. \A k \in Nat : k >= 1 /\ k < n /\ k \in T => k + 1 \in T
  BY JoinNext
<1>3. \A k \in Nat : k \in T => \E g : Joins(g, seqs, k)
  OBVIOUS
<1> HIDE DEF T
<1>4. n \in T
  BY <1>1, <1>2, UpTo
<1> QED BY <1>3, <1>4

\* FlattenSeq as the last of its partial concatenations: each adds one sequence.
LEMMA JoinFacts ==
  ASSUME NEW S, NEW seqs \in Seq(Seq(S)), Len(seqs) # 0
  PROVE  \E g \in [1..Len(seqs) -> Seq(S)] :
           /\ FlattenSeq(seqs) = g[Len(seqs)]
           /\ g[1] = seqs[1]
           /\ \A i \in 2..Len(seqs) : g[i] = g[i - 1] \o seqs[i]
<1> DEFINE n == Len(seqs)
           f == CHOOSE j : IsJoin(j, seqs)
<1>1. n \in Nat /\ n >= 1 /\ \A i \in 1..n : seqs[i] \in Seq(S)
  OBVIOUS
<1> HIDE DEF n
<1>2. PICK g : Joins(g, seqs, n)
  BY <1>1, JoinExists
<1>3. IsJoin(g, seqs)
  <2>1. ASSUME NEW i \in 1..n PROVE g[i] = IF i = 1 THEN seqs[i] ELSE g[i - 1] \o seqs[i]
    <3>1. i = 1 \/ i \in 2..n
      BY <1>1
    <3>2. g[1] = seqs[1] /\ \A j \in 2..n : g[j] = g[j - 1] \o seqs[j]
      BY <1>2 DEF Joins
    <3>3. i \in 2..n => i # 1
      BY <1>1
    <3> QED BY <3>1, <3>2, <3>3
  <2>2. g = [i \in 1..n |-> g[i]]
    BY <1>2 DEF Joins
  <2>3. g = [i \in 1..n |-> IF i = 1 THEN seqs[i] ELSE g[i - 1] \o seqs[i]]
    BY <2>1, <2>2
  <2> QED BY <2>3 DEF IsJoin, n
<1>4. IsJoin(f, seqs)
  BY <1>3
<1>5. FlattenSeq(seqs) = f[n]
  BY <1>1, FlattenIsJoin DEF n
<1> HIDE DEF f
<1>6. f = [i \in 1..n |-> IF i = 1 THEN seqs[i] ELSE f[i - 1] \o seqs[i]]
  BY <1>4 DEF IsJoin, n
<1>7. DOMAIN f = 1..n /\ \A i \in 1..n : f[i] = IF i = 1 THEN seqs[i] ELSE f[i - 1] \o seqs[i]
  BY <1>6
<1>8. f[1] = seqs[1] /\ \A i \in 2..n : f[i] = f[i - 1] \o seqs[i]
  <2>1. 1 \in 1..n
    BY <1>1
  <2>2. ASSUME NEW i \in 2..n PROVE f[i] = f[i - 1] \o seqs[i]
    <3>1. i \in 1..n /\ i # 1
      BY <1>1
    <3> QED BY <1>7, <3>1
  <2> QED BY <1>7, <2>1, <2>2
<1> DEFINE T == {k \in Nat : f[k] \in Seq(S)}
<1>9. 1 \in T
  BY <1>1, <1>8
<1>10. ASSUME NEW k \in Nat, k >= 1, k < n, k \in T PROVE k + 1 \in T
  <2>1. k + 1 \in 2..n /\ k + 1 \in 1..n /\ (k + 1) - 1 = k
    BY <1>1, <1>10
  <2>2. f[k + 1] = f[k] \o seqs[k + 1]
    BY <1>8, <2>1
  <2>3. f[k] \in Seq(S) /\ seqs[k + 1] \in Seq(S)
    BY <1>1, <1>10, <2>1
  <2>4. f[k + 1] \in Seq(S)
    BY <2>2, <2>3
  <2> QED BY <2>4
<1>11. \A k \in T : f[k] \in Seq(S)
  OBVIOUS
<1> HIDE DEF T
<1>12. \A k \in 1..n : k \in T
  BY <1>1, <1>9, <1>10, UpTo
<1>13. f \in [1..n -> Seq(S)]
  <2>1. f = [i \in 1..n |-> f[i]]
    BY <1>6, <1>7
  <2> QED BY <1>11, <1>12, <2>1
<1> QED BY <1>5, <1>8, <1>13 DEF n

\* What FlattenSeq returns is a sequence.
LEMMA FlattenType ==
  ASSUME NEW S, NEW seqs \in Seq(Seq(S))
  PROVE  FlattenSeq(seqs) \in Seq(S)
<1>1. CASE Len(seqs) = 0
  <2>1. FlattenSeq(seqs) = seqs
    BY <1>1 DEF FlattenSeq
  <2>2. seqs = <<>>
    BY <1>1
  <2> QED BY <2>1, <2>2
<1>2. CASE Len(seqs) # 0
  <2>1. PICK g \in [1..Len(seqs) -> Seq(S)] : FlattenSeq(seqs) = g[Len(seqs)]
    BY <1>2, JoinFacts
  <2>2. Len(seqs) \in 1..Len(seqs)
    BY <1>2
  <2> QED BY <2>1, <2>2
<1> QED BY <1>1, <1>2

\* What has been joined of k sequences of eight.
EightsIn(joined, seqs, k) ==
  /\ Len(joined) = 8 * k
  /\ \A i \in 1..k, j \in 1..8 : joined[8 * (i - 1) + j] = seqs[i][j]

\* One more.
LEMMA EightMore ==
  ASSUME NEW S, NEW s \in Seq(S), NEW seqs, NEW m \in Nat, EightsIn(s, seqs, m),
         seqs[m + 1] \in Seq(S), Len(seqs[m + 1]) = 8
  PROVE  EightsIn(s \o seqs[m + 1], seqs, m + 1)
<1> DEFINE t == seqs[m + 1]
           u == s \o t
<1>1. t \in Seq(S) /\ Len(t) = 8 /\ Len(s) = 8 * m
  BY DEF EightsIn
<1>2. \A i \in 1..m, j \in 1..8 : s[8 * (i - 1) + j] = seqs[i][j]
  BY DEF EightsIn
<1>3. t = seqs[m + 1]
  OBVIOUS
<1> HIDE DEF t
<1>4. /\ Len(u) = Len(s) + Len(t)
      /\ \A p \in 1..(Len(s) + Len(t)) : u[p] = IF p <= Len(s) THEN s[p] ELSE t[p - Len(s)]
  BY <1>1, ConcatProperties
<1> HIDE DEF u
<1>5. ASSUME NEW i \in 1..(m + 1), NEW j \in 1..8
      PROVE  u[8 * (i - 1) + j] = seqs[i][j]
  <2>1. 8 * (i - 1) + j \in 1..(Len(s) + Len(t))
    BY <1>1
  <2>2. CASE i <= m
    <3>1. 8 * (i - 1) + j <= Len(s) /\ i \in 1..m
      BY <1>1, <2>2
    <3>2. u[8 * (i - 1) + j] = s[8 * (i - 1) + j]
      BY <1>4, <2>1, <3>1
    <3> QED BY <1>2, <3>1, <3>2
  <2>3. CASE ~(i <= m)
    <3>1. i = m + 1
      BY <2>3
    <3>2. ~(8 * (i - 1) + j <= Len(s)) /\ (8 * (i - 1) + j) - Len(s) = j
      BY <1>1, <3>1
    <3>3. u[8 * (i - 1) + j] = t[(8 * (i - 1) + j) - Len(s)]
      BY <1>4, <2>1, <3>2
    <3> QED BY <1>3, <3>1, <3>2, <3>3
  <2> QED BY <2>2, <2>3
<1>6. Len(u) = 8 * (m + 1)
  BY <1>1, <1>4
<1> QED BY <1>3, <1>5, <1>6 DEF EightsIn, u

\* A list of sequences of eight, joined.
LEMMA FlattenEights ==
  ASSUME NEW S, NEW seqs \in Seq(Seq(S)), \A i \in 1..Len(seqs) : Len(seqs[i]) = 8
  PROVE  FlattenSeq(seqs) \in Seq(S) /\ EightsIn(FlattenSeq(seqs), seqs, Len(seqs))
<1>1. CASE Len(seqs) = 0
  <2>1. FlattenSeq(seqs) = seqs
    BY <1>1 DEF FlattenSeq
  <2>2. EightsIn(seqs, seqs, 0)
    BY <1>1 DEF EightsIn
  <2> QED BY <1>1, <2>1, <2>2, FlattenType
<1>2. CASE Len(seqs) # 0
  <2> DEFINE n == Len(seqs)
  <2>1. PICK g \in [1..n -> Seq(S)] :
           /\ FlattenSeq(seqs) = g[n]
           /\ g[1] = seqs[1]
           /\ \A i \in 2..n : g[i] = g[i - 1] \o seqs[i]
    BY <1>2, JoinFacts
  <2>2. n \in Nat /\ n >= 1 /\ \A i \in 1..n : seqs[i] \in Seq(S) /\ Len(seqs[i]) = 8
    BY <1>2
  <2> HIDE DEF n
  <2> DEFINE T == {k \in Nat : EightsIn(g[k], seqs, k)}
  <2>3. 1 \in T
    <3>1. 1 \in 1..n
      BY <2>2
    <3>2. EightsIn(seqs[1], seqs, 1)
      BY <2>2, <3>1 DEF EightsIn
    <3> QED BY <2>1, <3>2
  <2>4. ASSUME NEW k \in Nat, k >= 1, k < n, k \in T PROVE k + 1 \in T
    <3>1. k + 1 \in 2..n /\ k + 1 \in 1..n /\ (k + 1) - 1 = k /\ k \in 1..n
      BY <2>2, <2>4
    <3>2. g[k + 1] = g[k] \o seqs[k + 1]
      BY <2>1, <3>1
    <3>3. /\ g[k] \in Seq(S) /\ seqs[k + 1] \in Seq(S) /\ Len(seqs[k + 1]) = 8
          /\ EightsIn(g[k], seqs, k)
      BY <2>1, <2>2, <2>4, <3>1
    <3>4. EightsIn(g[k + 1], seqs, k + 1)
      BY <3>2, <3>3, EightMore
    <3> QED BY <3>4
  <2>5. \A k \in T : EightsIn(g[k], seqs, k)
    OBVIOUS
  <2> HIDE DEF T
  <2>6. n \in T
    <3>1. \A k \in 1..n : k \in T
      BY <2>2, <2>3, <2>4, UpTo
    <3> QED BY <2>2, <3>1
  <2> QED BY <2>1, <2>5, <2>6, FlattenType DEF n
<1> QED BY <1>1, <1>2

\* The buffer c has the bytes of s at the offset o.
Has(c, o, s) == o + Len(s) <= Len(c) /\ \A i \in 1..Len(s) : c[o + i] = s[i]

\* After a write it has what was written, and what it had elsewhere.
LEMMA HasWritten ==
  ASSUME NEW c \in Seq(Byte), NEW o \in Nat, NEW s \in Seq(Byte), o + Len(s) <= Len(c)
  PROVE  Has(setBufferString(c, o, s), o, s)
<1> DEFINE d == setBufferString(c, o, s)
<1>1. /\ d \in Seq(Byte) /\ Len(d) = Len(c)
      /\ \A i \in 1..Len(c) : d[i] = IF i - o \in 1..Len(s) THEN s[i - o] ELSE c[i]
  BY StringSet
<1> HIDE DEF d
<1>2. ASSUME NEW i \in 1..Len(s) PROVE d[o + i] = s[i]
  <2>1. o + i \in 1..Len(c) /\ (o + i) - o = i
    OBVIOUS
  <2> QED BY <1>1, <2>1
<1> QED BY <1>1, <1>2 DEF Has, d

\* A string outside the bytes that setBufferString writes is still there.
LEMMA HasKept ==
  ASSUME NEW c \in Seq(Byte), NEW p \in Nat, NEW t \in Seq(Byte),
         NEW o \in Nat, NEW s \in Seq(Byte), Has(c, o, s),
         o + Len(s) <= p \/ p + Len(t) <= o
  PROVE  Has(setBufferString(c, p, t), o, s)
<1> DEFINE d == setBufferString(c, p, t)
<1>1. /\ d \in Seq(Byte) /\ Len(d) = Len(c)
      /\ \A i \in 1..Len(c) : d[i] = IF i - p \in 1..Len(t) THEN t[i - p] ELSE c[i]
  BY StringSet
<1> HIDE DEF d
<1>2. o + Len(s) <= Len(c) /\ \A i \in 1..Len(s) : c[o + i] = s[i]
  BY DEF Has
<1>3. ASSUME NEW i \in 1..Len(s) PROVE d[o + i] = s[i]
  <2>1. o + i \in 1..Len(c) /\ ~((o + i) - p \in 1..Len(t))
    BY <1>2
  <2> QED BY <1>1, <1>2, <2>1
<1> QED BY <1>1, <1>2, <1>3 DEF Has, d

\* A write of a byte is a write of a string.
LEMMA ByteIsString ==
  ASSUME NEW c \in Seq(Byte), NEW o \in Nat, o + 1 <= Len(c), NEW v \in Byte
  PROVE  setBufferByte(c, o, v) = setBufferString(c, o, <<v>>)
<1> DEFINE d == setBufferByte(c, o, v)
           s == <<v>>
           e == setBufferString(c, o, s)
<1>1. o < Len(c)
  OBVIOUS
<1>2. /\ d \in Seq(Byte) /\ Len(d) = Len(c)
      /\ \A i \in 1..Len(c) : d[i] = IF i = o + 1 THEN v ELSE c[i]
  BY <1>1, ByteSet
<1>3. s \in Seq(Byte) /\ Len(s) = 1 /\ s[1] = v
  OBVIOUS
<1> HIDE DEF d, s
<1>4. /\ e \in Seq(Byte) /\ Len(e) = Len(c)
      /\ \A i \in 1..Len(c) : e[i] = IF i - o \in 1..Len(s) THEN s[i - o] ELSE c[i]
  BY <1>3, StringSet
<1> HIDE DEF e
<1>5. ASSUME NEW i \in 1..Len(c) PROVE d[i] = e[i]
  <2>1. i - o \in 1..1 <=> i = o + 1
    OBVIOUS
  <2>2. i - o \in 1..1 => i - o = 1
    OBVIOUS
  <2> QED BY <1>2, <1>3, <1>4, <2>1, <2>2
<1>6. d = e
  BY <1>2, <1>4, <1>5, SeqEqual
<1> QED BY <1>6 DEF d, e, s

\* Fields one after another make the buffer.
LEMMA HasBoth ==
  ASSUME NEW c \in Seq(Byte), NEW s \in Seq(Byte), NEW t \in Seq(Byte),
         NEW p \in Nat, p = Len(s), Has(c, 0, s), Has(c, p, t)
  PROVE  Has(c, 0, s \o t)
<1> DEFINE u == s \o t
<1>1. /\ Len(u) = Len(s) + Len(t)
      /\ \A i \in 1..(Len(s) + Len(t)) : u[i] = IF i <= Len(s) THEN s[i] ELSE t[i - Len(s)]
  BY ConcatProperties
<1> HIDE DEF u
<1>2. /\ p + Len(t) <= Len(c) /\ \A i \in 1..Len(s) : c[0 + i] = s[i]
      /\ \A i \in 1..Len(t) : c[p + i] = t[i]
  BY DEF Has
<1>3. ASSUME NEW i \in 1..Len(u) PROVE c[0 + i] = u[i]
  <2>1. i \in 1..(Len(s) + Len(t)) /\ 0 + i = i
    BY <1>1
  <2>2. CASE i <= Len(s)
    <3>1. i \in 1..Len(s)
      BY <2>2
    <3> QED BY <1>1, <1>2, <2>1, <3>1
  <2>3. CASE ~(i <= Len(s))
    <3>1. i - Len(s) \in 1..Len(t) /\ p + (i - Len(s)) = i
      BY <1>1, <2>3
    <3>2. c[p + (i - Len(s))] = t[i - Len(s)]
      BY <1>2, <3>1
    <3> QED BY <1>1, <2>1, <2>3, <3>1, <3>2
  <2> QED BY <2>2, <2>3
<1>4. 0 + Len(u) <= Len(c)
  BY <1>1, <1>2
<1> QED BY <1>3, <1>4 DEF Has, u

\* A buffer that has a string of its own length is that string.
LEMMA HasAll ==
  ASSUME NEW c \in Seq(Byte), NEW s \in Seq(Byte), Has(c, 0, s), Len(s) = Len(c)
  PROVE  c = s
<1>1. \A i \in 1..Len(c) : c[i] = s[i]
  <2> SUFFICES ASSUME NEW i \in 1..Len(c) PROVE c[i] = s[i]
    OBVIOUS
  <2>1. c[0 + i] = s[i] /\ 0 + i = i
    BY DEF Has
  <2> QED BY <2>1
<1> QED BY <1>1, SeqEqual

\* A zeroed buffer is zeroed everywhere.
LEMMA HasZeroes ==
  ASSUME NEW n \in Nat, NEW o \in Nat, NEW k \in Nat, o + k <= n
  PROVE  Has(Zeroed(n), o, Zeroed(k))
<1>1. /\ Len(Zeroed(n)) = n /\ \A i \in 1..n : Zeroed(n)[i] = {}
      /\ Len(Zeroed(k)) = k /\ \A i \in 1..k : Zeroed(k)[i] = {}
  BY ZeroedFacts
<1>2. ASSUME NEW i \in 1..k PROVE Zeroed(n)[o + i] = Zeroed(k)[i]
  <2>1. o + i \in 1..n
    OBVIOUS
  <2> QED BY <1>1, <2>1
<1> QED BY <1>1, <1>2 DEF Has

\* What a getter of words reads.
LEMMA HasWord ==
  ASSUME NEW c \in Seq(Byte), NEW o \in Nat, NEW n \in Nat,
         NEW val \in SUBSET (0..(8 * n - 1)), Has(c, o, NetworkOrder(val, n))
  PROVE  HostOrder(GetBufferString(c, o, n)) = val
<1> DEFINE s == NetworkOrder(val, n)
<1>1. s \in Seq(Byte) /\ Len(s) = n /\ HostOrder(s) = val
  BY OrderFacts, WordReadsBack
<1> HIDE DEF s
<1>2. o + n <= Len(c) /\ \A i \in 1..n : c[o + i] = s[i]
  BY <1>1 DEF Has, s
<1>3. /\ GetBufferString(c, o, n) \in Seq(Byte) /\ Len(GetBufferString(c, o, n)) = n
      /\ \A i \in 1..n : GetBufferString(c, o, n)[i] = c[o + i]
  BY <1>2, StringGot
<1>4. GetBufferString(c, o, n) = s
  BY <1>1, <1>2, <1>3, SeqEqual
<1> QED BY <1>1, <1>4

\* The pages with vital product data, by number.
LEMMA VpdFacts ==
  /\ VpdPages[0] = "supported" /\ VpdPages[128] = "serial" /\ VpdPages[131] = "deviceId"
BY DEF VpdPages

\* The answers of the other commands, by operation code.
LEMMA OtherFacts ==
  /\ DOMAIN OtherPages = {160, 40, 37, 158}
  /\ OtherPages[160] = "luns" /\ OtherPages[40] = "blocks"
  /\ OtherPages[37] = "capacity" /\ OtherPages[158] = "capacity16"
BY DEF OtherPages

\* The opcodes, and other bytes of the CDBs.
LEMMA ByteFacts ==
  ASSUME NEW n \in 0..255 PROVE Word8(n) \in Byte /\ Value(Word8(n)) = n
<1>1. Value(Word(n, 8)) = n
  <2>1. n \in Nat /\ n <= 255
    OBVIOUS
  <2> QED BY <2>1, ValueOfWord
<1>2. Word(n, 8) \in Byte
  BY DEF Word, Byte
<1> QED BY <1>1, <1>2 DEF Word8

\* The numbers of the words that the CDBs need.
LEMMA FewBits ==
  /\ Value({}) = 0 /\ Value({0}) = 1 /\ Value({4}) = 16 /\ Value(Opcode) = 95
<1>1. {} \in SUBSET (0..31) /\ {0} \in SUBSET (0..31) /\ {4} \in SUBSET (0..31)
  OBVIOUS
<1>2. Opcode \in SUBSET (0..31)
  BY DEF Opcode
<1>3. /\ Value({}) = Number({}) /\ Value({0}) = Number({0}) /\ Value({4}) = Number({4})
      /\ Value(Opcode) = Number(Opcode)
  BY <1>1, <1>2, ValueIsNumber
<1>4. Number({}) = 0 /\ Number({0}) = 1 /\ Number({4}) = 16
  BY Powers DEF Number, Weight, WeightOfByte
<1>5. Number(Opcode) = 95
  BY Powers DEF Number, Weight, WeightOfByte, Opcode
<1> QED BY <1>3, <1>4, <1>5

\* The bytes of a length.
Short(n) == NetworkOrder(Word(n, 16), 2)
Long(n) == NetworkOrder(Word(n, 32), 4)

\* Two bytes are two bytes.
LEMMA ShortFacts == \A n : Short(n) \in Seq(Byte) /\ Len(Short(n)) = 2
BY OrderFacts DEF Short

\* Four bytes are four bytes.
LEMMA LongFacts == \A n : Long(n) \in Seq(Byte) /\ Len(Long(n)) = 4
BY OrderFacts DEF Long

\* The buffer d is c with s written at the offset o.
Put(c, d, o, s) ==
  /\ d \in Seq(Byte) /\ Len(d) = Len(c) /\ Has(d, o, s)
  /\ \A i \in 1..Len(c) : i <= o \/ o + Len(s) < i => d[i] = c[i]

\* What each setter writes.
LEMMA StringPut ==
  ASSUME NEW c \in Seq(Byte), NEW o \in Nat, NEW s \in Seq(Byte), o + Len(s) <= Len(c)
  PROVE  Put(c, setBufferString(c, o, s), o, s)
<1> DEFINE d == setBufferString(c, o, s)
<1>1. Has(d, o, s)
  BY HasWritten
<1>2. /\ d \in Seq(Byte) /\ Len(d) = Len(c)
      /\ \A i \in 1..Len(c) : d[i] = IF i - o \in 1..Len(s) THEN s[i - o] ELSE c[i]
  BY StringSet
<1> HIDE DEF d
<1>3. \A i \in 1..Len(c) : i <= o \/ o + Len(s) < i => d[i] = c[i]
  BY <1>2
<1>4. Put(c, d, o, s)
  BY <1>1, <1>2, <1>3 DEF Put
<1> QED BY <1>4 DEF d

\* setBufferByte puts its byte.
LEMMA BytePut ==
  ASSUME NEW c \in Seq(Byte), NEW o \in Nat, o + 1 <= Len(c), NEW v \in Byte
  PROVE  Put(c, setBufferByte(c, o, v), o, <<v>>)
<1>1. <<v>> \in Seq(Byte) /\ Len(<<v>>) = 1
  OBVIOUS
<1>2. Put(c, setBufferString(c, o, <<v>>), o, <<v>>)
  BY <1>1, StringPut
<1> QED BY <1>2, ByteIsString

\* setBufferShort puts its two bytes, the most significant first.
LEMMA ShortPut ==
  ASSUME NEW c \in Seq(Byte), NEW o \in Nat, NEW n, o + 2 <= Len(c)
  PROVE  Put(c, setBufferShort(c, o, Word(n, 16)), o, Short(n))
<1>1. Put(c, setBufferString(c, o, Short(n)), o, Short(n))
  BY ShortFacts, StringPut
<1> QED BY <1>1 DEF setBufferShort, Short

\* setBufferString of a number in network order puts all its bytes.
LEMMA OrderPut ==
  ASSUME NEW c \in Seq(Byte), NEW o \in Nat, NEW val, NEW n \in Nat, o + n <= Len(c)
  PROVE  Put(c, setBufferString(c, o, NetworkOrder(val, n)), o, NetworkOrder(val, n))
BY OrderFacts, StringPut

\* A write leaves what is before it and after it.
LEMMA PutKeeps ==
  ASSUME NEW c \in Seq(Byte), NEW d, NEW o \in Nat, NEW s \in Seq(Byte), Put(c, d, o, s),
         NEW p \in Nat, NEW t \in Seq(Byte), Has(c, p, t),
         p + Len(t) <= o \/ o + Len(s) <= p
  PROVE  Has(d, p, t)
<1>1. /\ Len(d) = Len(c)
      /\ \A i \in 1..Len(c) : i <= o \/ o + Len(s) < i => d[i] = c[i]
  BY DEF Put
<1>2. p + Len(t) <= Len(c) /\ \A i \in 1..Len(t) : c[p + i] = t[i]
  BY DEF Has
<1>3. ASSUME NEW i \in 1..Len(t) PROVE d[p + i] = t[i]
  <2>1. p + i \in 1..Len(c) /\ (p + i <= o \/ o + Len(s) < p + i)
    BY <1>2
  <2> QED BY <1>1, <1>2, <2>1
<1> QED BY <1>1, <1>2, <1>3 DEF Has

\* One byte.
LEMMA PutByte ==
  ASSUME NEW c, NEW d, NEW o \in Nat, NEW v, Put(c, d, o, <<v>>)
  PROVE  d[o + 1] = v
<1>1. Len(<<v>>) = 1 /\ 1 \in 1..1 /\ <<v>>[1] = v
  OBVIOUS
<1> QED BY <1>1 DEF Put, Has

\* The CDBs of the classes: of INQUIRY, with its page code,
InquiryIn(c, page, n) ==
  /\ c \in Seq(Byte) /\ Len(c) = 6
  /\ c[1] = Word8(18) /\ c[3] = page /\ Has(c, 3, Short(n))

\* of REPORT LUNS,
LunsIn(c, n) ==
  /\ c \in Seq(Byte) /\ Len(c) = 12
  /\ c[1] = Word8(160) /\ Has(c, 6, Short(n)) /\ c[9] = {} /\ c[10] = {}

\* of PERSISTENT RESERVE IN, with its service action.
PRInIn(c, action, n) ==
  /\ c \in Seq(Byte) /\ Len(c) = 10
  /\ c[1] = Word8(94) /\ c[2] = Word8(action) /\ Has(c, 7, Short(n))

\* The CDB that SCSIInquiry's constructor makes.
LEMMA InquiryMade ==
  ASSUME NEW n
  PROVE  InquiryIn(InquiryCdb(n), {}, n) /\ InquiryCdb(n)[2] = {}
<1> DEFINE z == Zeroed(6)
           b == setBufferByte(z, 0, Word8(18))
           c == setBufferShort(b, 3, Word(n, 16))
<1>0. 0 \in Nat /\ 3 \in Nat /\ 18 \in 0..255
  OBVIOUS
<1>1. z \in Seq(Byte) /\ Len(z) = 6 /\ \A i \in 1..6 : z[i] = {}
  BY ZeroedFacts
<1>2. Word8(18) \in Byte
  BY <1>0, ByteFacts, Zenon
<1>4. c = InquiryCdb(n)
  BY DEF InquiryCdb
<1> HIDE DEF z
<1>3. Put(z, b, 0, <<Word8(18)>>)
  <2>1. 0 + 1 <= Len(z)
    BY <1>1
  <2> QED BY <1>0, <1>1, <1>2, <2>1, BytePut, Zenon
<1> HIDE DEF b
<1>5. b \in Seq(Byte) /\ Len(b) = 6 /\ b[1] = Word8(18) /\ b[2] = {} /\ b[3] = {}
  <2>1. Len(<<Word8(18)>>) = 1 /\ b[0 + 1] = Word8(18)
    BY <1>0, <1>3, PutByte
  <2> QED BY <1>1, <1>3, <2>1 DEF Put
<1>6. Put(b, c, 3, Short(n))
  <2>1. 3 + 2 <= Len(b)
    BY <1>5
  <2> QED BY <1>0, <1>5, <2>1, ShortPut, Zenon DEF c
<1> HIDE DEF c
<1>7. /\ c \in Seq(Byte) /\ Len(c) = 6 /\ Has(c, 3, Short(n))
      /\ c[1] = Word8(18) /\ c[2] = {} /\ c[3] = {}
  BY <1>5, <1>6, ShortFacts DEF Put
<1> QED BY <1>4, <1>7 DEF InquiryIn

\* The buffer d is c with the byte v at the offset o.
OnePut(c, d, o, v) ==
  /\ d \in Seq(Byte) /\ Len(d) = Len(c) /\ d[o + 1] = v
  /\ \A i \in 1..Len(c) : i # o + 1 => d[i] = c[i]

\* setBufferByte, with the byte it wrote by its index.
LEMMA OneByte ==
  ASSUME NEW c \in Seq(Byte), NEW o \in Nat, o + 1 <= Len(c), NEW v \in Byte
  PROVE  OnePut(c, setBufferByte(c, o, v), o, v)
<1>1. o < Len(c) /\ o + 1 \in 1..Len(c)
  OBVIOUS
<1>2. /\ setBufferByte(c, o, v) \in Seq(Byte) /\ Len(setBufferByte(c, o, v)) = Len(c)
      /\ \A i \in 1..Len(c) :
           setBufferByte(c, o, v)[i] = IF i = o + 1 THEN v ELSE c[i]
  BY <1>1, ByteSet
<1> QED BY <1>1, <1>2 DEF OnePut

\* The CDB that the constructors of the VPD pages make.
LEMMA VpdMade ==
  ASSUME NEW n, NEW page \in 0..255
  PROVE  InquiryIn(VpdCdb(page, n), Word8(page), n) /\ VpdCdb(page, n)[2] = {0}
<1> DEFINE a == InquiryCdb(n)
           b == setBufferByte(a, 1, {0})
           c == setBufferByte(b, 2, Word8(page))
<1>0. 1 \in Nat /\ 2 \in Nat /\ {0} \in Byte /\ Word8(page) \in Byte
  BY ByteFacts DEF Byte
<1>1. InquiryIn(a, {}, n)
  BY InquiryMade
<1>2. c = VpdCdb(page, n)
  BY DEF VpdCdb
<1> HIDE DEF a
<1>3. /\ a \in Seq(Byte) /\ Len(a) = 6 /\ a[1] = Word8(18) /\ Has(a, 3, Short(n))
      /\ 1 + 1 <= Len(a)
  BY <1>1 DEF InquiryIn
<1>4. OnePut(a, b, 1, {0})
  BY <1>0, <1>3, OneByte, Zenon
<1> HIDE DEF b
<1>5. b \in Seq(Byte) /\ Len(b) = 6 /\ \A i \in 1..6 : i # 2 => b[i] = a[i]
  BY <1>3, <1>4 DEF OnePut
<1>6. b[2] = {0} /\ 2 + 1 <= Len(b)
  BY <1>4, <1>5 DEF OnePut
<1>7. OnePut(b, c, 2, Word8(page))
  BY <1>0, <1>5, <1>6, OneByte, Zenon
<1> HIDE DEF c
<1>8. /\ c \in Seq(Byte) /\ Len(c) = 6 /\ c[3] = Word8(page)
      /\ \A i \in 1..6 : i # 3 => c[i] = b[i]
  BY <1>5, <1>7 DEF OnePut
<1>9. c[1] = Word8(18) /\ c[2] = {0} /\ c[4] = a[4] /\ c[5] = a[5]
  BY <1>3, <1>5, <1>6, <1>8
<1>10. Has(c, 3, Short(n))
  BY <1>3, <1>8, <1>9, ShortFacts DEF Has
<1> QED BY <1>2, <1>8, <1>9, <1>10 DEF InquiryIn

\* The CDB that SCSIReportLuns' constructor makes.
LEMMA LunsMade == ASSUME NEW n PROVE LunsIn(LunsCdb(n), n)
<1> DEFINE z == Zeroed(12)
           a == setBufferByte(z, 0, Word8(160))
           b == setBufferByte(a, 2, {1})
           c == setBufferShort(b, 6, Word(n, 16))
<1>0. 0 \in Nat /\ 2 \in Nat /\ 6 \in Nat /\ {1} \in Byte /\ Word8(160) \in Byte
  BY ByteFacts DEF Byte
<1>20. Short(n) \in Seq(Byte) /\ Len(Short(n)) = 2
  BY ShortFacts, Zenon
<1>1. z \in Seq(Byte) /\ Len(z) = 12 /\ 0 + 1 <= Len(z) /\ \A i \in 1..12 : z[i] = {}
  <2>1. z \in Seq(Byte) /\ Len(z) = 12 /\ \A i \in 1..12 : z[i] = {}
    BY ZeroedFacts
  <2> QED BY <2>1
<1>2. c = LunsCdb(n)
  BY DEF LunsCdb
<1> HIDE DEF z
<1>3. OnePut(z, a, 0, Word8(160))
  BY <1>0, <1>1, OneByte, Zenon
<1> HIDE DEF a
<1>4. /\ a \in Seq(Byte) /\ Len(a) = 12 /\ 2 + 1 <= Len(a)
      /\ a[1] = Word8(160) /\ a[9] = {} /\ a[10] = {}
  BY <1>1, <1>3 DEF OnePut
<1>5. OnePut(a, b, 2, {1})
  BY <1>0, <1>4, OneByte, Zenon
<1> HIDE DEF b
<1>6. /\ b \in Seq(Byte) /\ Len(b) = 12 /\ 6 + 2 <= Len(b)
      /\ b[1] = Word8(160) /\ b[9] = {} /\ b[10] = {}
  BY <1>4, <1>5 DEF OnePut
<1>7. Put(b, c, 6, Short(n))
  BY <1>0, <1>6, ShortPut, Zenon
<1> HIDE DEF c
<1>8. /\ c \in Seq(Byte) /\ Len(c) = 12 /\ Has(c, 6, Short(n))
      /\ c[1] = Word8(160) /\ c[9] = {} /\ c[10] = {}
  BY <1>6, <1>7, <1>20 DEF Put
<1> QED BY <1>2, <1>8 DEF LunsIn

\* The CDB that SCSIPersistentReserveIn's constructors make.
LEMMA PRInMade ==
  ASSUME NEW n, NEW action \in {0, 1} PROVE PRInIn(PRInCdb(action, n), action, n)
<1> DEFINE z == Zeroed(10)
           a == setBufferByte(z, 0, Word8(94))
           b == setBufferByte(a, 1, Word8(action))
           c == setBufferShort(b, 7, Word(n, 16))
<1>0. 0 \in Nat /\ 1 \in Nat /\ 7 \in Nat /\ Word8(action) \in Byte /\ Word8(94) \in Byte
  BY ByteFacts
<1>20. Short(n) \in Seq(Byte) /\ Len(Short(n)) = 2
  BY ShortFacts, Zenon
<1>1. z \in Seq(Byte) /\ Len(z) = 10 /\ 0 + 1 <= Len(z)
  <2>1. z \in Seq(Byte) /\ Len(z) = 10
    BY ZeroedFacts
  <2> QED BY <2>1
<1>2. c = PRInCdb(action, n)
  BY DEF PRInCdb
<1> HIDE DEF z
<1>3. OnePut(z, a, 0, Word8(94))
  BY <1>0, <1>1, OneByte, Zenon
<1> HIDE DEF a
<1>4. a \in Seq(Byte) /\ Len(a) = 10 /\ 1 + 1 <= Len(a) /\ a[1] = Word8(94)
  BY <1>1, <1>3 DEF OnePut
<1>5. OnePut(a, b, 1, Word8(action))
  BY <1>0, <1>4, OneByte, Zenon
<1> HIDE DEF b
<1>6. /\ b \in Seq(Byte) /\ Len(b) = 10 /\ 7 + 2 <= Len(b)
      /\ b[1] = Word8(94) /\ b[2] = Word8(action)
  BY <1>4, <1>5 DEF OnePut
<1>7. Put(b, c, 7, Short(n))
  BY <1>0, <1>6, ShortPut, Zenon
<1> HIDE DEF c
<1>8. /\ c \in Seq(Byte) /\ Len(c) = 10 /\ Has(c, 7, Short(n))
      /\ c[1] = Word8(94) /\ c[2] = Word8(action)
  BY <1>6, <1>7, <1>20 DEF Put
<1> QED BY <1>2, <1>8 DEF PRInIn

\* A CDB of READ(10), READ CAPACITY(10) or READ CAPACITY(16), with its LBA.
Lba(lba) == NetworkOrder(lba, 4)
LongLba(lba) == NetworkOrder(lba, 8)

\* The bytes of an address are four, or eight.
LEMMA LbaFacts ==
  /\ \A lba : Lba(lba) \in Seq(Byte) /\ Len(Lba(lba)) = 4
  /\ \A lba : LongLba(lba) \in Seq(Byte) /\ Len(LongLba(lba)) = 8
BY OrderFacts DEF Lba, LongLba

ReadIn(c, lba, n) ==
  /\ c \in Seq(Byte) /\ Len(c) = 10 /\ c[1] = Word8(40) /\ c[2] = {} /\ c[7] = {}
  /\ c[10] = {} /\ Has(c, 2, Lba(lba)) /\ Has(c, 7, Short(n))

CapacityIn(c, lba) ==
  /\ c \in Seq(Byte) /\ Len(c) = 10 /\ c[1] = Word8(37) /\ c[2] = {}
  /\ \A i \in 7..10 : c[i] = {}
  /\ Has(c, 2, Lba(lba))

Capacity16In(c, lba, n) ==
  /\ c \in Seq(Byte) /\ Len(c) = 16 /\ c[1] = Word8(158) /\ c[2] = {4} /\ c[15] = {}
  /\ c[16] = {} /\ Has(c, 2, LongLba(lba)) /\ Has(c, 10, Long(n))

\* The CDB that SCSIRead10's constructor makes.
LEMMA ReadMade == ASSUME NEW n PROVE ReadIn(ReadCdb(n), {}, n)
<1> DEFINE z == Zeroed(10)
           a == setBufferByte(z, 0, Word8(40))
           b == setBufferLong(a, 2, {})
           c == setBufferShort(b, 7, Word(n, 16))
           e == Lba({})
<1>0. 0 \in Nat /\ 2 \in Nat /\ 4 \in Nat /\ 7 \in Nat /\ Word8(40) \in Byte
  BY ByteFacts
<1>20. Short(n) \in Seq(Byte) /\ Len(Short(n)) = 2
  BY ShortFacts, Zenon
<1>21. e \in Seq(Byte) /\ Len(e) = 4
  BY LbaFacts, Zenon
<1> HIDE DEF e
<1>1. z \in Seq(Byte) /\ Len(z) = 10 /\ 0 + 1 <= Len(z) /\ \A i \in 1..10 : z[i] = {}
  <2>1. z \in Seq(Byte) /\ Len(z) = 10 /\ \A i \in 1..10 : z[i] = {}
    BY ZeroedFacts
  <2> QED BY <2>1
<1>2. c = ReadCdb(n)
  BY DEF ReadCdb
<1> HIDE DEF z
<1>3. OnePut(z, a, 0, Word8(40))
  BY <1>0, <1>1, OneByte, Zenon
<1> HIDE DEF a
<1>4. /\ a \in Seq(Byte) /\ Len(a) = 10 /\ 2 + 4 <= Len(a)
      /\ a[1] = Word8(40) /\ a[2] = {} /\ a[7] = {} /\ a[10] = {}
  BY <1>1, <1>3 DEF OnePut
<1>5. Put(a, b, 2, e)
  BY <1>0, <1>4, OrderPut, Zenon DEF setBufferLong, Lba, e
<1> HIDE DEF b
<1>6. /\ b \in Seq(Byte) /\ Len(b) = 10 /\ 7 + 2 <= Len(b) /\ Has(b, 2, e)
      /\ b[1] = Word8(40) /\ b[2] = {} /\ b[7] = {} /\ b[10] = {}
  BY <1>4, <1>5, <1>21 DEF Put
<1>7. Put(b, c, 7, Short(n))
  BY <1>0, <1>6, ShortPut, Zenon
<1> HIDE DEF c
<1>8. /\ c \in Seq(Byte) /\ Len(c) = 10 /\ Has(c, 7, Short(n))
      /\ c[1] = Word8(40) /\ c[2] = {} /\ c[7] = {} /\ c[10] = {}
  BY <1>6, <1>7, <1>20 DEF Put
<1>9. Has(c, 2, e)
  <2>1. 2 + Len(e) <= 7
    BY <1>21
  <2>2. Short(n) \in Seq(Byte) /\ e \in Seq(Byte)
    BY <1>20, <1>21
  <2> QED BY <1>0, <1>6, <1>7, <2>1, <2>2, PutKeeps, Zenon
<1> QED BY <1>2, <1>8, <1>9 DEF ReadIn, e

\* The CDB that SCSIReadCapacity10's constructor makes.
LEMMA Capacity10Made == CapacityIn(setBufferByte(Zeroed(10), 0, Word8(37)), {})
<1> DEFINE z == Zeroed(10)
           c == setBufferByte(z, 0, Word8(37))
           e == Lba({})
<1>0. 0 \in Nat /\ Word8(37) \in Byte
  BY ByteFacts
<1>20. e \in Seq(Byte) /\ Len(e) = 4
  BY LbaFacts, Zenon
<1>4. \A i \in 1..4 : e[i] = {}
  BY DEF e, Lba, NetworkOrder, Shr
<1> HIDE DEF e
<1>1. z \in Seq(Byte) /\ Len(z) = 10 /\ 0 + 1 <= Len(z) /\ \A i \in 1..10 : z[i] = {}
  <2>1. z \in Seq(Byte) /\ Len(z) = 10 /\ \A i \in 1..10 : z[i] = {}
    BY ZeroedFacts
  <2> QED BY <2>1
<1>2. OnePut(z, c, 0, Word8(37))
  BY <1>0, <1>1, OneByte, Zenon
<1> HIDE DEF z
<1> HIDE DEF c
<1>3. c \in Seq(Byte) /\ Len(c) = 10 /\ c[1] = Word8(37) /\ \A i \in 2..10 : c[i] = {}
  BY <1>1, <1>2 DEF OnePut
<1>5. Has(c, 2, e)
  <2>1. ASSUME NEW i \in 1..4 PROVE c[2 + i] = e[i]
    <3>1. 2 + i \in 2..10
      OBVIOUS
    <3> QED BY <1>3, <1>4, <1>20, <3>1
  <2> QED BY <1>3, <1>4, <1>20, <2>1 DEF Has
<1>6. CapacityIn(c, {})
  BY <1>3, <1>5 DEF CapacityIn, e
<1> QED BY <1>6 DEF c, z

\* The CDB that SCSIReadCapacity16's constructor makes.
LEMMA Capacity16Made ==
  Capacity16In(setBufferByte(setBufferByte(Zeroed(16), 0, Word8(158)), 1, {4}), {}, 0)
<1> DEFINE z == Zeroed(16)
           b == setBufferByte(z, 0, Word8(158))
           c == setBufferByte(b, 1, {4})
           e == LongLba({})
           l == Long(0)
<1>0. 0 \in Nat /\ 1 \in Nat /\ {4} \in Byte /\ Word8(158) \in Byte
  BY ByteFacts DEF Byte
<1>8. Word(0, 32) = {}
  <2> SUFFICES ASSUME NEW i \in (0..(32 - 1)) \cap (0..30) PROVE (0 \div Power(i)) % 2 # 1
    BY WordPower
  <2>1. Power(i) \in Nat /\ Power(i) > 0
    BY PowerFacts
  <2> QED BY <2>1
<1>20. e \in Seq(Byte) /\ Len(e) = 8
  BY LbaFacts, Zenon
<1>21. l \in Seq(Byte) /\ Len(l) = 4
  BY LongFacts, Zenon
<1>6. \A i \in 1..8 : e[i] = {}
  BY DEF e, LongLba, NetworkOrder, Shr
<1>9. \A i \in 1..4 : l[i] = {}
  BY <1>8 DEF l, Long, NetworkOrder, Shr
<1> HIDE DEF e, l
<1>1. z \in Seq(Byte) /\ Len(z) = 16 /\ 0 + 1 <= Len(z) /\ \A i \in 1..16 : z[i] = {}
  <2>1. z \in Seq(Byte) /\ Len(z) = 16 /\ \A i \in 1..16 : z[i] = {}
    BY ZeroedFacts
  <2> QED BY <2>1
<1>2. OnePut(z, b, 0, Word8(158))
  BY <1>0, <1>1, OneByte, Zenon
<1> HIDE DEF z
<1> HIDE DEF b
<1>3. /\ b \in Seq(Byte) /\ Len(b) = 16 /\ 1 + 1 <= Len(b) /\ b[1] = Word8(158)
      /\ \A i \in 2..16 : b[i] = {}
  BY <1>1, <1>2 DEF OnePut
<1>4. OnePut(b, c, 1, {4})
  BY <1>0, <1>3, OneByte, Zenon
<1> HIDE DEF c
<1>5. /\ c \in Seq(Byte) /\ Len(c) = 16 /\ c[1] = Word8(158) /\ c[2] = {4}
      /\ \A i \in 3..16 : c[i] = {}
  BY <1>3, <1>4 DEF OnePut
<1>7. Has(c, 2, e)
  <2>1. ASSUME NEW i \in 1..8 PROVE c[2 + i] = e[i]
    <3>1. 2 + i \in 3..16
      OBVIOUS
    <3> QED BY <1>5, <1>6, <1>20, <3>1
  <2> QED BY <1>5, <1>6, <1>20, <2>1 DEF Has
<1>10. Has(c, 10, l)
  <2>1. ASSUME NEW i \in 1..4 PROVE c[10 + i] = l[i]
    <3>1. 10 + i \in 3..16
      OBVIOUS
    <3> QED BY <1>5, <1>9, <1>21, <3>1
  <2> QED BY <1>5, <1>9, <1>21, <2>1 DEF Has
<1>11. Capacity16In(c, {}, 0)
  BY <1>5, <1>7, <1>10 DEF Capacity16In, e, l
<1> QED BY <1>11 DEF c, b, z

\* SetLBA, SetAllocationLen and SetEVPD.
LEMMA ReadLba ==
  ASSUME NEW c, NEW old, NEW n, ReadIn(c, old, n), NEW lba
  PROVE  ReadIn(setBufferLong(c, 2, lba), lba, n)
<1> DEFINE d == setBufferLong(c, 2, lba)
           e == Lba(lba)
           t == Short(n)
<1>0. 2 \in Nat /\ 4 \in Nat /\ 7 \in Nat
  OBVIOUS
<1>1. /\ c \in Seq(Byte) /\ Len(c) = 10 /\ c[1] = Word8(40) /\ c[2] = {} /\ c[7] = {}
      /\ c[10] = {} /\ Has(c, 7, t) /\ 2 + 4 <= Len(c)
  BY DEF ReadIn
<1>2. e \in Seq(Byte) /\ Len(e) = 4 /\ t \in Seq(Byte)
  BY LbaFacts, ShortFacts, Zenon
<1>3. Put(c, d, 2, e)
  BY <1>0, <1>1, OrderPut, Zenon DEF setBufferLong, Lba
<1> HIDE DEF d, e, t
<1>4. 2 + Len(e) <= 7
  BY <1>2
<1>5. Has(d, 7, t)
  <2>1. PICK o \in Nat : o = 7
    OBVIOUS
  <2>2. Has(c, o, t) /\ 2 + Len(e) <= o
    BY <1>1, <1>4, <2>1
  <2>3. Has(d, o, t)
    BY <1>0, <1>1, <1>2, <1>3, <2>2, PutKeeps
  <2> QED BY <2>1, <2>3
<1>6. /\ d \in Seq(Byte) /\ Len(d) = 10 /\ Has(d, 2, e) /\ d[1] = Word8(40)
      /\ d[2] = {} /\ d[7] = {} /\ d[10] = {}
  BY <1>1, <1>2, <1>3 DEF Put
<1> QED BY <1>5, <1>6 DEF ReadIn, d, e, t

\* SetLBA of READ CAPACITY (10) changes the address only.
LEMMA CapacityLba ==
  ASSUME NEW c, NEW old, CapacityIn(c, old), NEW lba
  PROVE  CapacityIn(setBufferLong(c, 2, lba), lba)
<1> DEFINE d == setBufferLong(c, 2, lba)
           e == Lba(lba)
<1>0. 2 \in Nat /\ 4 \in Nat
  OBVIOUS
<1>1. /\ c \in Seq(Byte) /\ Len(c) = 10 /\ c[1] = Word8(37) /\ c[2] = {} /\ 2 + 4 <= Len(c)
      /\ \A i \in 7..10 : c[i] = {}
  BY DEF CapacityIn
<1>2. e \in Seq(Byte) /\ Len(e) = 4
  BY LbaFacts, Zenon
<1>3. Put(c, d, 2, e)
  BY <1>0, <1>1, OrderPut, Zenon DEF setBufferLong, Lba
<1> HIDE DEF d, e
<1>4. /\ d \in Seq(Byte) /\ Len(d) = 10 /\ Has(d, 2, e) /\ d[1] = Word8(37) /\ d[2] = {}
      /\ \A i \in 7..10 : d[i] = {}
  BY <1>1, <1>2, <1>3 DEF Put
<1> QED BY <1>4 DEF CapacityIn, d, e

\* SetLBA of READ CAPACITY (16) changes the address only.
LEMMA Capacity16Lba ==
  ASSUME NEW c, NEW old, NEW n, Capacity16In(c, old, n), NEW lba
  PROVE  Capacity16In(setBufferLongLong(c, 2, lba), lba, n)
<1> DEFINE d == setBufferLongLong(c, 2, lba)
           e == LongLba(lba)
           t == Long(n)
<1>0. 2 \in Nat /\ 8 \in Nat /\ 10 \in Nat
  OBVIOUS
<1>1. /\ c \in Seq(Byte) /\ Len(c) = 16 /\ c[1] = Word8(158) /\ c[2] = {4} /\ c[15] = {}
      /\ c[16] = {} /\ Has(c, 10, t) /\ 2 + 8 <= Len(c)
  BY DEF Capacity16In
<1>2. e \in Seq(Byte) /\ Len(e) = 8 /\ t \in Seq(Byte)
  BY LbaFacts, LongFacts, Zenon
<1>3. Put(c, d, 2, e)
  BY <1>0, <1>1, OrderPut, Zenon DEF setBufferLongLong, LongLba
<1> HIDE DEF d, e, t
<1>4. 2 + Len(e) <= 10
  BY <1>2
<1>5. Has(d, 10, t)
  <2>1. PICK o \in Nat : o = 10
    OBVIOUS
  <2>2. Has(c, o, t) /\ 2 + Len(e) <= o
    BY <1>1, <1>4, <2>1
  <2>3. Has(d, o, t)
    BY <1>0, <1>1, <1>2, <1>3, <2>2, PutKeeps
  <2> QED BY <2>1, <2>3
<1>6. /\ d \in Seq(Byte) /\ Len(d) = 16 /\ Has(d, 2, e) /\ d[1] = Word8(158)
      /\ d[2] = {4} /\ d[15] = {} /\ d[16] = {}
  BY <1>1, <1>2, <1>3 DEF Put
<1> QED BY <1>5, <1>6 DEF Capacity16In, d, e, t

\* SetAllocationLen changes the allocation length only.
LEMMA Capacity16Length ==
  ASSUME NEW c, NEW lba, NEW old, Capacity16In(c, lba, old), NEW n
  PROVE  Capacity16In(setBufferLong(c, 10, Word(n, 32)), lba, n)
<1> DEFINE d == setBufferLong(c, 10, Word(n, 32))
           e == Long(n)
           t == LongLba(lba)
<1>0. 2 \in Nat /\ 4 \in Nat /\ 10 \in Nat
  OBVIOUS
<1>1. /\ c \in Seq(Byte) /\ Len(c) = 16 /\ c[1] = Word8(158) /\ c[2] = {4} /\ c[15] = {}
      /\ c[16] = {} /\ Has(c, 2, t) /\ 10 + 4 <= Len(c)
  BY DEF Capacity16In
<1>2. e \in Seq(Byte) /\ Len(e) = 4 /\ t \in Seq(Byte) /\ Len(t) = 8
  BY LbaFacts, LongFacts, Zenon
<1>3. Put(c, d, 10, e)
  BY <1>0, <1>1, OrderPut, Zenon DEF setBufferLong, Long
<1> HIDE DEF d, e, t
<1>4. 2 + Len(t) <= 10
  BY <1>2
<1>5. Has(d, 2, t)
  BY <1>0, <1>1, <1>2, <1>3, <1>4, PutKeeps, Zenon
<1>6. /\ d \in Seq(Byte) /\ Len(d) = 16 /\ Has(d, 10, e) /\ d[1] = Word8(158)
      /\ d[2] = {4} /\ d[15] = {} /\ d[16] = {}
  BY <1>1, <1>2, <1>3 DEF Put
<1> QED BY <1>5, <1>6 DEF Capacity16In, d, e, t

\* SetEVPD(true) sets the bit and changes no other byte.
LEMMA InquiryEvpd ==
  ASSUME NEW c, NEW page, NEW n, InquiryIn(c, page, n)
  PROVE  InquiryIn(setBufferByte(c, 1, {0}), page, n) /\ setBufferByte(c, 1, {0})[2] = {0}
<1> DEFINE d == setBufferByte(c, 1, {0})
           t == Short(n)
<1>0. 1 \in Nat /\ {0} \in Byte
  BY DEF Byte
<1>1. /\ c \in Seq(Byte) /\ Len(c) = 6 /\ c[1] = Word8(18) /\ c[3] = page /\ Has(c, 3, t)
      /\ 1 + 1 <= Len(c)
  BY DEF InquiryIn
<1>2. t \in Seq(Byte) /\ Len(t) = 2
  BY ShortFacts, Zenon
<1>3. OnePut(c, d, 1, {0})
  BY <1>0, <1>1, OneByte, Zenon
<1> HIDE DEF d, t
<1>4. /\ d \in Seq(Byte) /\ Len(d) = 6 /\ d[2] = {0}
      /\ \A i \in 1..6 : i # 2 => d[i] = c[i]
  BY <1>1, <1>3 DEF OnePut
<1>5. d[1] = Word8(18) /\ d[3] = page /\ d[4] = c[4] /\ d[5] = c[5]
  BY <1>1, <1>4
<1>6. Has(d, 3, t)
  BY <1>1, <1>2, <1>4, <1>5 DEF Has
<1> QED BY <1>4, <1>5, <1>6 DEF InquiryIn, d, t

\* The first p bytes of c are s.
Begins(c, s, p) == s \in Seq(Byte) /\ Len(s) = p /\ Has(c, 0, s)

\* One more string that the buffer has where the last ended.
LEMMA BeginsNext ==
  ASSUME NEW c \in Seq(Byte), NEW s, NEW p \in Nat, Begins(c, s, p),
         NEW t \in Seq(Byte), NEW q, q = p + Len(t), Has(c, p, t)
  PROVE  Begins(c, s \o t, q)
<1>1. s \in Seq(Byte) /\ Len(s) = p /\ Has(c, 0, s)
  BY DEF Begins
<1>2. Has(c, 0, s \o t)
  BY <1>1, HasBoth
<1>3. s \o t \in Seq(Byte) /\ Len(s \o t) = p + Len(t)
  BY <1>1, ConcatProperties
<1> QED BY <1>2, <1>3 DEF Begins

\* A buffer that begins with a string of its own length is that string.
LEMMA BeginsAll ==
  ASSUME NEW c \in Seq(Byte), NEW s, Begins(c, s, Len(c))
  PROVE  c = s
BY HasAll DEF Begins

\* One byte, and two.
LEMMA HasOne ==
  ASSUME NEW c \in Seq(Byte), NEW o \in Nat, o + 1 <= Len(c), NEW v, c[o + 1] = v
  PROVE  Has(c, o, <<v>>) /\ <<v>> \in Seq(Byte) /\ Len(<<v>>) = 1
<1>1. v \in Byte
  <2>1. o + 1 \in 1..Len(c)
    OBVIOUS
  <2> QED BY <2>1
<1>2. <<v>> \in Seq(Byte) /\ Len(<<v>>) = 1 /\ <<v>>[1] = v
  BY <1>1
<1>3. ASSUME NEW i \in 1..1 PROVE c[o + i] = <<v>>[i]
  <2>1. i = 1
    OBVIOUS
  <2> QED BY <1>2, <2>1
<1> QED BY <1>2, <1>3 DEF Has

\* The first two bytes.
LEMMA BeginsTwo ==
  ASSUME NEW c \in Seq(Byte), 2 <= Len(c), NEW u, NEW v, c[1] = u, c[2] = v
  PROVE  Begins(c, <<u, v>>, 2)
<1>1. u \in Byte /\ v \in Byte
  <2>1. 1 \in 1..Len(c) /\ 2 \in 1..Len(c)
    OBVIOUS
  <2> QED BY <2>1
<1>2. /\ <<u, v>> \in Seq(Byte) /\ Len(<<u, v>>) = 2
      /\ <<u, v>>[1] = u /\ <<u, v>>[2] = v
  BY <1>1
<1>3. ASSUME NEW i \in 1..2 PROVE c[0 + i] = <<u, v>>[i]
  <2>1. i = 1 \/ i = 2
    OBVIOUS
  <2> QED BY <1>2, <2>1
<1> QED BY <1>2, <1>3 DEF Has, Begins

\* The CDBs, byte for byte.
LEMMA ReadBytes ==
  ASSUME NEW c, NEW lba, NEW n, ReadIn(c, lba, n)
  PROVE  c = <<Word8(40), {}>> \o Lba(lba) \o <<{}>> \o Short(n) \o <<{}>>
<1> DEFINE e == Lba(lba)
           t == Short(n)
           z == <<{}>>
           b == <<Word8(40), {}>>
<1>0. 2 \in Nat /\ 6 \in Nat /\ 7 \in Nat /\ 9 \in Nat
  OBVIOUS
<1>1. /\ c \in Seq(Byte) /\ Len(c) = 10 /\ c[1] = Word8(40) /\ c[2] = {} /\ c[7] = {}
      /\ c[10] = {} /\ Has(c, 2, e) /\ Has(c, 7, t)
  BY DEF ReadIn
<1>2. e \in Seq(Byte) /\ Len(e) = 4 /\ t \in Seq(Byte) /\ Len(t) = 2
  BY LbaFacts, ShortFacts, Zenon
<1>3. Begins(c, b, 2)
  <2>1. 2 <= Len(c)
    BY <1>1
  <2> QED BY <1>1, <2>1, BeginsTwo, Zenon
<1>4. z \in Seq(Byte) /\ Len(z) = 1 /\ Has(c, 6, z) /\ Has(c, 9, z)
  <2>1. 6 + 1 <= Len(c) /\ c[6 + 1] = {} /\ 9 + 1 <= Len(c) /\ c[9 + 1] = {}
    BY <1>1
  <2> QED BY <1>0, <1>1, <2>1, HasOne, Zenon
<1> HIDE DEF e, t, z, b
<1>5. 6 = 2 + Len(e) /\ 7 = 6 + Len(z) /\ 9 = 7 + Len(t) /\ 10 = 9 + Len(z)
  BY <1>2, <1>4
<1>6. Begins(c, b \o e, 6)
  BY <1>0, <1>1, <1>2, <1>3, <1>5, BeginsNext, Zenon
<1>7. Begins(c, (b \o e) \o z, 7)
  BY <1>0, <1>1, <1>4, <1>5, <1>6, BeginsNext, Zenon
<1>8. Begins(c, ((b \o e) \o z) \o t, 9)
  BY <1>0, <1>1, <1>2, <1>5, <1>7, BeginsNext, Zenon
<1>9. Begins(c, (((b \o e) \o z) \o t) \o z, 10)
  BY <1>0, <1>1, <1>4, <1>5, <1>8, BeginsNext, Zenon
<1>10. c = (((b \o e) \o z) \o t) \o z
  BY <1>1, <1>9, BeginsAll, Zenon
<1> QED BY <1>10 DEF e, t, z, b

\* READ CAPACITY (10), all its bytes.
LEMMA CapacityBytes ==
  ASSUME NEW c, NEW lba, CapacityIn(c, lba)
  PROVE  c = <<Word8(37), {}>> \o Lba(lba) \o Zeroed(4)
<1> DEFINE e == Lba(lba)
           z == Zeroed(4)
           b == <<Word8(37), {}>>
<1>0. 2 \in Nat /\ 6 \in Nat
  OBVIOUS
<1>1. /\ c \in Seq(Byte) /\ Len(c) = 10 /\ c[1] = Word8(37) /\ c[2] = {} /\ Has(c, 2, e)
      /\ \A i \in 7..10 : c[i] = {}
  BY DEF CapacityIn
<1>2. e \in Seq(Byte) /\ Len(e) = 4
  BY LbaFacts, Zenon
<1>3. Begins(c, b, 2)
  <2>1. 2 <= Len(c)
    BY <1>1
  <2> QED BY <1>1, <2>1, BeginsTwo, Zenon
<1>4. z \in Seq(Byte) /\ Len(z) = 4 /\ \A i \in 1..4 : z[i] = {}
  BY ZeroedFacts
<1> HIDE DEF e, z, b
<1>5. Has(c, 6, z)
  <2>1. ASSUME NEW i \in 1..4 PROVE c[6 + i] = z[i]
    <3>1. 6 + i \in 7..10
      OBVIOUS
    <3> QED BY <1>1, <1>4, <3>1
  <2> QED BY <1>1, <1>4, <2>1 DEF Has
<1>6. 6 = 2 + Len(e) /\ 10 = 6 + Len(z)
  BY <1>2, <1>4
<1>7. Begins(c, b \o e, 6)
  BY <1>0, <1>1, <1>2, <1>3, <1>6, BeginsNext, Zenon
<1>8. Begins(c, (b \o e) \o z, 10)
  BY <1>0, <1>1, <1>4, <1>5, <1>6, <1>7, BeginsNext, Zenon
<1>9. c = (b \o e) \o z
  BY <1>1, <1>8, BeginsAll, Zenon
<1> QED BY <1>9 DEF e, z, b

\* READ CAPACITY (16), all its bytes.
LEMMA Capacity16Bytes ==
  ASSUME NEW c, NEW lba, NEW n, Capacity16In(c, lba, n)
  PROVE  c = <<Word8(158), Word8(16)>> \o LongLba(lba) \o Long(n) \o Zeroed(2)
<1> DEFINE e == LongLba(lba)
           t == Long(n)
           z == Zeroed(2)
           b == <<Word8(158), Word8(16)>>
<1>0. 2 \in Nat /\ 10 \in Nat /\ 14 \in Nat
  OBVIOUS
<1>1. /\ c \in Seq(Byte) /\ Len(c) = 16 /\ c[1] = Word8(158) /\ c[2] = {4} /\ c[15] = {}
      /\ c[16] = {} /\ Has(c, 2, e) /\ Has(c, 10, t)
  BY DEF Capacity16In
<1>2. e \in Seq(Byte) /\ Len(e) = 8 /\ t \in Seq(Byte) /\ Len(t) = 4
  BY LbaFacts, LongFacts, Zenon
<1>3. Begins(c, b, 2)
  <2>1. Word8(16) = {4}
    BY Powers, WordPower DEF Word8
  <2>2. c[2] = Word8(16) /\ 2 <= Len(c)
    BY <1>1, <2>1
  <2> QED BY <1>1, <2>2, BeginsTwo, Zenon
<1>4. z \in Seq(Byte) /\ Len(z) = 2 /\ \A i \in 1..2 : z[i] = {}
  BY ZeroedFacts
<1> HIDE DEF e, t, z, b
<1>5. Has(c, 14, z)
  <2>1. ASSUME NEW i \in 1..2 PROVE c[14 + i] = z[i]
    <3>1. 14 + i = 15 \/ 14 + i = 16
      OBVIOUS
    <3> QED BY <1>1, <1>4, <3>1
  <2> QED BY <1>1, <1>4, <2>1 DEF Has
<1>6. 10 = 2 + Len(e) /\ 14 = 10 + Len(t) /\ 16 = 14 + Len(z)
  BY <1>2, <1>4
<1>7. Begins(c, b \o e, 10)
  BY <1>0, <1>1, <1>2, <1>3, <1>6, BeginsNext, Zenon
<1>8. Begins(c, (b \o e) \o t, 14)
  BY <1>0, <1>1, <1>2, <1>6, <1>7, BeginsNext, Zenon
<1>9. Begins(c, ((b \o e) \o t) \o z, 16)
  BY <1>0, <1>1, <1>4, <1>5, <1>6, <1>8, BeginsNext, Zenon
<1>10. c = ((b \o e) \o t) \o z
  BY <1>1, <1>9, BeginsAll, Zenon
<1> QED BY <1>10 DEF e, t, z, b

\* The page code in the CDB of a class.
PageCode(k) == CASE k = "serial" -> Word8(128) [] k = "deviceId" -> Word8(131)
                 [] OTHER -> {}

\* The CDB of each class of request, whatever setters have been called.
CdbInv ==
  /\ asked = [lba |-> asked.lba, length |-> asked.length, again |-> asked.again]
  /\ kind \in InquiryKinds =>
       /\ InquiryIn(cdb, PageCode(kind), asked.length)
       /\ cdb[2] \subseteq {0} /\ (kind # "inquiry" => 0 \in cdb[2])
  /\ kind = "luns" => LunsIn(cdb, asked.length)
  /\ kind = "read10" => ReadIn(cdb, asked.lba, asked.length)
  /\ kind = "capacity10" => CapacityIn(cdb, asked.lba)
  /\ kind = "capacity16" => Capacity16In(cdb, asked.lba, asked.length)
  /\ kind = "keys" => PRInIn(cdb, 0, asked.length)
  /\ kind = "reservation" => PRInIn(cdb, 1, asked.length)
  /\ kind = "noData" => cdb[1] \in {Word8(0), Word8(22), Word8(23)}
  /\ kind \in OutKinds => cdb[1] = Opcode

\* The names of the classes.
Classes == {"none", "noData"} \cup OutKinds \cup InKinds

\* The first byte of a PERSISTENT RESERVE OUT.
LEMMA NewCdbOpcode ==
  ASSUME NEW action \in Byte, NEW n \in Nat PROVE NewCdb(action, n)[1] = Opcode
<1> DEFINE z == Zeroed(10)
           a == setBufferByte(z, 0, Opcode)
           b == setBufferByte(a, 1, action)
           c == setBufferShort(b, 7, Word(n, 16))
<1>0. 0 \in Nat /\ 1 \in Nat /\ 7 \in Nat /\ Opcode \in Byte
  BY DEF Opcode, Byte
<1>1. z \in Seq(Byte) /\ Len(z) = 10 /\ 0 + 1 <= Len(z)
  <2>1. z \in Seq(Byte) /\ Len(z) = 10
    BY ZeroedFacts
  <2> QED BY <2>1
<1>2. c = NewCdb(action, n)
  BY DEF NewCdb
<1> HIDE DEF z
<1>3. OnePut(z, a, 0, Opcode)
  BY <1>0, <1>1, OneByte, Zenon
<1> HIDE DEF a
<1>4. a \in Seq(Byte) /\ Len(a) = 10 /\ 1 + 1 <= Len(a) /\ a[1] = Opcode
  BY <1>1, <1>3 DEF OnePut
<1>5. OnePut(a, b, 1, action)
  BY <1>0, <1>4, OneByte, Zenon
<1> HIDE DEF b
<1>6. b \in Seq(Byte) /\ Len(b) = 10 /\ 7 + 2 <= Len(b) /\ b[1] = Opcode
  BY <1>4, <1>5 DEF OnePut
<1>7. Put(b, c, 7, Short(n))
  BY <1>0, <1>6, ShortPut, Zenon
<1> HIDE DEF c
<1>8. c[1] = Opcode
  BY <1>6, <1>7 DEF Put
<1> QED BY <1>2, <1>8

\* The setters of a PERSISTENT RESERVE OUT request leave the opcode alone.
LEMMA OpcodeKept ==
  ASSUME NEW c \in [1..10 -> Byte]
  PROVE  /\ \A t : setBufferBitArray(c, 2, 0, 4, t)[1] = c[1]
         /\ \A n : setBufferShort(c, 7, Word(n, 16))[1] = c[1]
<1>1. c \in Seq(Byte) /\ Len(c) = 10
  <2>1. PICK m \in Nat : m = 10
    OBVIOUS
  <2> QED BY <2>1, AsSequence
<1>2. ASSUME NEW t PROVE setBufferBitArray(c, 2, 0, 4, t)[1] = c[1]
  BY <1>1 DEF setBufferBitArray
<1>3. ASSUME NEW n PROVE setBufferShort(c, 7, Word(n, 16))[1] = c[1]
  <2>1. 7 \in Nat /\ 7 + 2 <= Len(c)
    BY <1>1
  <2>2. Put(c, setBufferShort(c, 7, Word(n, 16)), 7, Short(n))
    BY <1>1, <2>1, ShortPut, Zenon
  <2> QED BY <1>1, <2>2 DEF Put
<1> QED BY <1>2, <1>3

\* CdbInv holds of the initial states.
LEMMA CdbInitHolds == ASSUME RequestInit PROVE CdbInv
BY DEF RequestInit, Init, CdbInv, OutKinds, InquiryKinds

\* CdbInv is kept by the operations of PERSISTENT RESERVE OUT.
LEMMA CdbOutHolds ==
  ASSUME PRInv, CdbInv, Next, UNCHANGED inVars
  PROVE  CdbInv' /\ kind' \in OutKinds
<1>1. \A k \in OutKinds : k \notin InquiryKinds /\ k \notin
        {"luns", "read10", "capacity10", "capacity16", "keys", "reservation", "noData"}
  BY DEF OutKinds, InquiryKinds
<1>2. asked' = asked
  BY DEF inVars
<1>3. SUFFICES kind' \in OutKinds /\ cdb'[1] = Opcode
  BY <1>1, <1>2 DEF CdbInv
<1>4. kind \in OutKinds => cdb \in [1..10 -> Byte] /\ cdb[1] = Opcode
  BY DEF PRInv, PRTypeOK, CdbInv
<1>5. ASSUME NEW a \in Actions, NEW n \in Lengths, New(a, n)
      PROVE  kind' \in OutKinds /\ cdb'[1] = Opcode
  <2>1. a \in Byte /\ n \in Nat
    BY InputsAssumption
  <2> QED BY <1>5, <2>1, NewCdbOpcode DEF New, OutKinds
<1>6. ASSUME NEW id \in Lists, NewRegisterAndMove(id)
      PROVE  kind' \in OutKinds /\ cdb'[1] = Opcode
  <2>1. RegisterAndMove \in Byte /\ HeaderLength + Len(id) \in Nat
    BY InputsAssumption DEF HeaderLength, RegisterAndMove, Byte
  <2> QED BY <1>6, <2>1, NewCdbOpcode DEF NewRegisterAndMove, OutKinds
<1>7. ASSUME NEW t \in Types, SetReservationType(t)
      PROVE  kind' \in OutKinds /\ cdb'[1] = Opcode
  BY <1>4, <1>7, OpcodeKept DEF SetReservationType
<1>8. ASSUME NEW list \in Lists, SetTransportIdList(list)
      PROVE  kind' \in OutKinds /\ cdb'[1] = Opcode
  <2>1. kind \in OutKinds
    BY <1>8 DEF SetTransportIdList, OutKinds
  <2> QED BY <1>4, <1>8, <2>1, OpcodeKept DEF SetTransportIdList
<1>9. ASSUME NEW k \in Keys, SetReservationKey(k) \/ SetServiceActionReservationKey(k)
      PROVE  kind' \in OutKinds /\ cdb'[1] = Opcode
  BY <1>4, <1>9 DEF SetReservationKey, SetServiceActionReservationKey
<1>10. ASSUME NEW f, NEW val, SetFlag(f, val) PROVE kind' \in OutKinds /\ cdb'[1] = Opcode
  BY <1>4, <1>10 DEF SetFlag
<1>11. ASSUME NEW p, SetRelativeTargetPortId(p) PROVE kind' \in OutKinds /\ cdb'[1] = Opcode
  BY <1>4, <1>11 DEF SetRelativeTargetPortId, OutKinds
<1>12. CASE ResetOutBuffer
  BY <1>4, <1>12 DEF ResetOutBuffer
<1> QED BY <1>5, <1>6, <1>7, <1>8, <1>9, <1>10, <1>11, <1>12 DEF Next

\* What Constructed leaves, of the invariant.
LEMMA CdbConstructed ==
  ASSUME NEW k, NEW c, NEW size, Constructed(k, c, size)
  PROVE  /\ kind' = k /\ cdb' = c /\ asked'.lba = {}
         /\ asked' = [lba |-> asked'.lba, length |-> asked'.length, again |-> asked'.again]
         /\ asked'.length = IF k = "capacity16" THEN 0 ELSE size
BY DEF Constructed

\* CdbInv is kept by the constructors.
LEMMA CdbNewHolds == ASSUME NewRequest PROVE CdbInv'
<1>0. /\ OutKinds = {"plain", "move"}
      /\ InquiryKinds = {"inquiry", "supported", "serial", "deviceId"}
  BY DEF OutKinds, InquiryKinds
<1>1. ASSUME NEW size, Constructed("inquiry", InquiryCdb(size), size) PROVE CdbInv'
  BY <1>0, <1>1, CdbConstructed, InquiryMade DEF CdbInv, PageCode
<1>2. ASSUME Constructed("supported", VpdCdb(0, 36), 36) PROVE CdbInv'
  <2>1. InquiryIn(VpdCdb(0, 36), Word8(0), 36) /\ VpdCdb(0, 36)[2] = {0} /\ Word8(0) = {}
    <3>1. 0 \in 0..255
      OBVIOUS
    <3>2. Word8(0) = {}
      <4> SUFFICES ASSUME NEW i \in (0..(8 - 1)) \cap (0..30) PROVE (0 \div Power(i)) % 2 # 1
        BY WordPower DEF Word8
      <4>1. Power(i) \in Nat /\ Power(i) > 0
        BY PowerFacts
      <4> QED BY <4>1
    <3> QED BY <3>1, <3>2, VpdMade, Zenon
  <2> QED BY <1>0, <1>2, <2>1, CdbConstructed DEF CdbInv, PageCode
<1>3. ASSUME NEW size, Constructed("serial", VpdCdb(128, size), size) PROVE CdbInv'
  <2>1. InquiryIn(VpdCdb(128, size), Word8(128), size) /\ VpdCdb(128, size)[2] = {0}
    <3>1. 128 \in 0..255
      OBVIOUS
    <3> QED BY <3>1, VpdMade, Zenon
  <2> QED BY <1>0, <1>3, <2>1, CdbConstructed DEF CdbInv, PageCode
<1>4. ASSUME NEW size, Constructed("deviceId", VpdCdb(131, size), size) PROVE CdbInv'
  <2>1. InquiryIn(VpdCdb(131, size), Word8(131), size) /\ VpdCdb(131, size)[2] = {0}
    <3>1. 131 \in 0..255
      OBVIOUS
    <3> QED BY <3>1, VpdMade, Zenon
  <2> QED BY <1>0, <1>4, <2>1, CdbConstructed DEF CdbInv, PageCode
<1>5. CASE NewInquiry
  BY <1>1, <1>2, <1>3, <1>4, <1>5 DEF NewInquiry
<1>6. CASE NewReadCapacity
  <2>1. ASSUME Constructed("capacity10", setBufferByte(Zeroed(10), 0, Word8(37)), 8)
        PROVE  CdbInv'
    BY <1>0, <2>1, CdbConstructed, Capacity10Made DEF CdbInv
  <2>2. ASSUME Constructed("capacity16",
                   setBufferByte(setBufferByte(Zeroed(16), 0, Word8(158)), 1, {4}), 16)
        PROVE  CdbInv'
    BY <1>0, <2>2, CdbConstructed, Capacity16Made DEF CdbInv
  <2> QED BY <1>6, <2>1, <2>2 DEF NewReadCapacity
<1>7. CASE NewNoData
  <2>1. ASSUME NEW op \in {0, 22, 23},
               Constructed("noData", setBufferByte(Zeroed(6), 0, Word8(op)), 0)
        PROVE  CdbInv'
    <3> DEFINE z == Zeroed(6)
    <3>1. z \in Seq(Byte) /\ Len(z) = 6
      BY ZeroedFacts
    <3>2. 0 \in Nat /\ 0 + 1 <= Len(z) /\ op \in 0..255
      BY <3>1
    <3>3. Word8(op) \in Byte
      BY <3>2, ByteFacts
    <3> HIDE DEF z
    <3>4. OnePut(z, setBufferByte(z, 0, Word8(op)), 0, Word8(op))
      BY <3>1, <3>2, <3>3, OneByte, Zenon
    <3>5. setBufferByte(z, 0, Word8(op))[1] = Word8(op)
      BY <3>4 DEF OnePut
    <3> QED BY <1>0, <2>1, <3>5, CdbConstructed DEF CdbInv, z
  <2> QED BY <1>7, <2>1 DEF NewNoData
<1>8. ASSUME NEW size, NewReportLuns(size) PROVE CdbInv'
  BY <1>0, <1>8, CdbConstructed, LunsMade DEF CdbInv, NewReportLuns
<1>9. ASSUME NEW size, NewRead10(size) PROVE CdbInv'
  BY <1>0, <1>9, CdbConstructed, ReadMade DEF CdbInv, NewRead10
<1>10. ASSUME NEW size, Constructed("keys", PRInCdb(0, size), size) PROVE CdbInv'
  BY <1>0, <1>10, CdbConstructed, PRInMade DEF CdbInv
<1>11. ASSUME NEW size, Constructed("reservation", PRInCdb(1, size), size) PROVE CdbInv'
  BY <1>0, <1>11, CdbConstructed, PRInMade DEF CdbInv
<1> QED BY <1>5, <1>6, <1>7, <1>8, <1>9, <1>10, <1>11 DEF NewRequest, NewPersistentReserveIn

\* CdbInv is kept by the setters of the CDB.
LEMMA CdbSetHolds ==
  ASSUME CdbInv, \/ \E lba \in Lbas : SetLBA(lba)
                 \/ \E n \in Sizes : SetAllocationLen(n)
                 \/ \E b \in BOOLEAN : SetEVPD(b)
  PROVE  CdbInv'
<1>0. /\ OutKinds = {"plain", "move"}
      /\ InquiryKinds = {"inquiry", "supported", "serial", "deviceId"}
  BY DEF OutKinds, InquiryKinds
<1>1. ASSUME NEW lba \in Lbas, SetLBA(lba) PROVE CdbInv'
  <2>1. /\ asked' = [lba |-> asked'.lba, length |-> asked'.length, again |-> asked'.again]
        /\ asked'.lba = lba /\ asked'.length = asked.length /\ kind' = kind
        /\ kind \in {"read10", "capacity10", "capacity16"}
    BY <1>1 DEF SetLBA, CdbInv
  <2>2. CASE kind = "read10"
    <3>1. cdb' = setBufferLong(cdb, 2, lba)
      BY <1>1, <2>2 DEF SetLBA
    <3>2. ReadIn(cdb', lba, asked.length)
      BY <2>2, <3>1, ReadLba DEF CdbInv
    <3> QED BY <1>0, <2>1, <2>2, <3>2 DEF CdbInv
  <2>3. CASE kind = "capacity10"
    <3>1. cdb' = setBufferLong(cdb, 2, lba)
      BY <1>1, <2>3 DEF SetLBA
    <3>2. CapacityIn(cdb', lba)
      BY <2>3, <3>1, CapacityLba DEF CdbInv
    <3> QED BY <1>0, <2>1, <2>3, <3>2 DEF CdbInv
  <2>4. CASE kind = "capacity16"
    <3>1. cdb' = setBufferLongLong(cdb, 2, lba)
      BY <1>1, <2>4 DEF SetLBA
    <3>2. Capacity16In(cdb', lba, asked.length)
      BY <2>4, <3>1, Capacity16Lba DEF CdbInv
    <3> QED BY <1>0, <2>1, <2>4, <3>2 DEF CdbInv
  <2> QED BY <2>1, <2>2, <2>3, <2>4
<1>2. ASSUME NEW n \in Sizes, SetAllocationLen(n) PROVE CdbInv'
  <2>1. /\ asked' = [lba |-> asked'.lba, length |-> asked'.length, again |-> asked'.again]
        /\ asked'.lba = asked.lba /\ asked'.length = n /\ kind' = kind
        /\ kind = "capacity16" /\ cdb' = setBufferLong(cdb, 10, Word(n, 32))
    BY <1>2 DEF SetAllocationLen, CdbInv
  <2>2. Capacity16In(cdb', asked.lba, n)
    BY <2>1, Capacity16Length DEF CdbInv
  <2> QED BY <1>0, <2>1, <2>2 DEF CdbInv
<1>3. ASSUME NEW b \in BOOLEAN, SetEVPD(b) PROVE CdbInv'
  <2>1. /\ kind \in InquiryKinds /\ kind' = kind /\ asked' = asked
        /\ cdb' = cdb \/ cdb' = setBufferByte(cdb, 1, {0})
    BY <1>3 DEF SetEVPD
  <2>2. InquiryIn(cdb, PageCode(kind), asked.length)
    BY <2>1 DEF CdbInv
  <2>3. CASE cdb' = cdb
    BY <1>0, <2>1, <2>3 DEF CdbInv
  <2>4. CASE cdb' = setBufferByte(cdb, 1, {0})
    <3>1. InquiryIn(cdb', PageCode(kind), asked.length) /\ cdb'[2] = {0}
      BY <2>2, <2>4, InquiryEvpd
    <3> QED BY <1>0, <2>1, <3>1 DEF CdbInv
  <2> QED BY <2>1, <2>3, <2>4
<1> QED BY <1>1, <1>2, <1>3

\* CdbInv is kept by every step.
LEMMA CdbStepHolds ==
  ASSUME PRInv, CdbInv, [RequestNext]_<<vars, inVars>>
  PROVE  CdbInv'
<1>1. CASE Next /\ UNCHANGED inVars
  BY <1>1, CdbOutHolds
<1>2. CASE NewRequest
  BY <1>2, CdbNewHolds
<1>3. ASSUME NEW lba \in Lbas, SetLBA(lba) PROVE CdbInv'
  BY <1>3, CdbSetHolds
<1>4. ASSUME NEW n \in Sizes, SetAllocationLen(n) PROVE CdbInv'
  BY <1>4, CdbSetHolds
<1>5. ASSUME NEW b \in BOOLEAN, SetEVPD(b) PROVE CdbInv'
  BY <1>5, CdbSetHolds
<1>6. CASE RetryReportLuns
  <2>1. PICK n : Constructed("luns", LunsCdb(n), n)
    BY <1>6 DEF RetryReportLuns, NewReportLuns
  <2> QED BY <2>1, CdbConstructed, LunsMade DEF CdbInv, OutKinds, InquiryKinds
<1>7. CASE Destroy
  BY <1>7 DEF Destroy, CdbInv, OutKinds, InquiryKinds
<1>8. CASE UNCHANGED <<kind, cdb, asked>>
  BY <1>8 DEF CdbInv
<1>9. ASSUME \/ ResetInBuffer \/ Execute \/ GetDescriptorCount \/ UNCHANGED <<vars, inVars>>
      PROVE  UNCHANGED <<kind, cdb, asked>>
  BY <1>9 DEF ResetInBuffer, Execute, GetDescriptorCount, vars, inVars
<1> QED BY <1>1, <1>2, <1>3, <1>4, <1>5, <1>6, <1>7, <1>8, <1>9 DEF RequestNext

\* What the CDB of a live request has in every state.
LEMMA CdbHolds == RequestSpec => []CdbInv
<1>1. RequestInit => CdbInv
  BY CdbInitHolds
<1>2. PRInv /\ CdbInv /\ [RequestNext]_<<vars, inVars>> => CdbInv'
  BY CdbStepHolds
<1> QED BY <1>1, <1>2, Invariant, PTL DEF RequestSpec

\* CdbIntact: a CDB stands in its buffer byte for byte as the command's standard lays it
\* out, whatever setters ran after the constructor, and in whatever order.
THEOREM AddressesIntact == RequestSpec => []CdbIntact
<1>1. CdbInv => CdbIntact
  <2> SUFFICES ASSUME CdbInv PROVE CdbIntact
    OBVIOUS
  <2>1. /\ \A n : ToBytes(n, 2) = Short(n) /\ ToBytes(n, 4) = Long(n)
        /\ \A lba : NetworkOrder(lba, 4) = Lba(lba) /\ NetworkOrder(lba, 8) = LongLba(lba)
    BY DEF ToBytes, Short, Long, Lba, LongLba
  <2>2. CASE kind = "read10"
    <3>1. cdb = <<Word8(40), {}>> \o Lba(asked.lba) \o <<{}>> \o Short(asked.length) \o <<{}>>
      BY <2>2, ReadBytes DEF CdbInv
    <3> QED BY <2>1, <2>2, <3>1 DEF CdbIntact
  <2>3. CASE kind = "capacity10"
    <3>1. cdb = <<Word8(37), {}>> \o Lba(asked.lba) \o Zeroed(4)
      BY <2>3, CapacityBytes DEF CdbInv
    <3> QED BY <2>1, <2>3, <3>1 DEF CdbIntact
  <2>4. CASE kind = "capacity16"
    <3>1. cdb = <<Word8(158), Word8(16)>> \o LongLba(asked.lba) \o Long(asked.length)
                  \o Zeroed(2)
      BY <2>4, Capacity16Bytes DEF CdbInv
    <3> QED BY <2>1, <2>4, <3>1 DEF CdbIntact
  <2> QED BY <2>2, <2>3, <2>4 DEF CdbIntact
<1> QED BY <1>1, CdbHolds, PTL

\* The numbers that fit in two bytes, and in an int.
Fits16(n) == n \in Nat /\ n <= 65535
Fits31(n) == n \in Nat /\ n <= 2147483647

\* A number that fits in its word is read back as itself.
LEMMA FitValue ==
  /\ \A n : Fits16(n) => n \in Nat /\ Value(Word(n, 16)) = n
  /\ \A n : Fits31(n) => n \in Nat /\ Value(Word(n, 32)) = n
BY ValueOfWord, SMT DEF Fits16, Fits31

\* For all inputs, and whatever setters are called in whatever order: a target reads
\* from the CDB of a PERSISTENT RESERVE OUT the size of the buffer that is sent, if
\* that is at most 65535 bytes.
THEOREM LengthOfTheBuffer == RequestSpec => []LengthsAgree
<1>1. PRInv => LengthsAgree
  <2> SUFFICES ASSUME PRInv, kind \in OutKinds, Len(mOutBuffer) <= 65535
               PROVE  Value(GetBufferShort(cdb, 7)) = Len(mOutBuffer)
    BY DEF LengthsAgree
  <2>1. Fits16(Len(mOutBuffer))
    BY DEF PRInv, PRTypeOK, Fits16
  <2>2. GetBufferShort(cdb, 7) = Word(Len(mOutBuffer), 16)
    BY DEF PRInv, LengthWord
  <2>3. Value(Word(Len(mOutBuffer), 16)) = Len(mOutBuffer)
    <3> DEFINE m == Len(mOutBuffer)
    <3>1. Fits16(m)
      BY <2>1
    <3> HIDE DEF m
    <3>2. Value(Word(m, 16)) = m
      BY <3>1, FitValue
    <3> QED BY <3>2 DEF m
  <2> QED BY <2>2, <2>3
<1> QED BY <1>1, Invariant, PTL

\* A length in two bytes, as the getters read it.
LEMMA ShortRead ==
  ASSUME NEW c \in Seq(Byte), NEW o \in Nat, NEW n, Has(c, o, Short(n))
  PROVE  GetBufferShort(c, o) = Word(n, 16)
<1>1. Word(n, 16) \in SUBSET (0..(8 * 2 - 1))
  BY DEF Word
<1>2. 2 \in Nat /\ Has(c, o, NetworkOrder(Word(n, 16), 2))
  BY DEF Short
<1>3. HostOrder(GetBufferString(c, o, 2)) = Word(n, 16)
  BY <1>1, <1>2, HasWord, Zenon
<1> QED BY <1>3 DEF GetBufferShort

\* In four.
LEMMA LongRead ==
  ASSUME NEW c \in Seq(Byte), NEW o \in Nat, NEW n, Has(c, o, Long(n))
  PROVE  GetBufferLong(c, o) = Word(n, 32)
<1>1. Word(n, 32) \in SUBSET (0..(8 * 4 - 1))
  BY DEF Word
<1>2. 4 \in Nat /\ Has(c, o, NetworkOrder(Word(n, 32), 4))
  BY DEF Long
<1>3. HostOrder(GetBufferString(c, o, 4)) = Word(n, 32)
  BY <1>1, <1>2, HasWord, Zenon
<1> QED BY <1>3 DEF GetBufferLong

\* GetBufferString, to be cited with numbers.
Got(c, o, n, g) ==
  g \in Seq(Byte) /\ Len(g) = n /\ \A i \in 1..n : g[i] = c[o + i]

\* What GetBufferString returns of bytes inside the buffer.
LEMMA Gets ==
  ASSUME NEW c \in Seq(Byte), NEW o \in Nat, NEW n \in Nat, o + n <= Len(c)
  PROVE  Got(c, o, n, GetBufferString(c, o, n))
BY StringGot DEF Got

\* The value of any word that the getters read is a number.
LEMMA OrderValue ==
  ASSUME NEW c \in Seq(Byte), NEW o \in Nat, NEW n \in {2, 4}, o + n <= Len(c)
  PROVE  /\ HostOrder(GetBufferString(c, o, n)) \in SUBSET (0..31)
         /\ Value(HostOrder(GetBufferString(c, o, n))) \in Nat
<1> DEFINE g == GetBufferString(c, o, n)
<1>1. Len(g) = n
  <2>1. n \in Nat
    OBVIOUS
  <2>2. Got(c, o, n, g)
    BY <2>1, Gets, Zenon
  <2> QED BY <2>2 DEF Got
<1> HIDE DEF g
<1>2. HostOrder(g) \in SUBSET (0..31)
  <2>1. HostOrder(g) \subseteq 0..(8 * n - 1)
    BY <1>1 DEF HostOrder
  <2>2. \A i \in 0..(8 * n - 1) : i \in 0..31
    OBVIOUS
  <2> QED BY <2>1, <2>2
<1> QED BY <1>2, ValueIsNumber, NumberFacts DEF g

\* A word that has a bit of its high half stands for a number of 65536 or more.
High == 65536

\* A word with a bit of its high half is a number beyond the low half.
LEMMA HighWord ==
  ASSUME NEW word \in SUBSET (0..31), NEW j \in 0..15, j + 16 \in word
  PROVE  Value(word) \in Nat /\ Value(word) >= High
<1>1. Value(word) = Number(word) /\ Number(word) \in Nat
  BY ValueIsNumber, NumberFacts
<1>2. PICK i \in word : i = j + 16
  OBVIOUS
<1>3. Number(word) = Power(i) + Number(word \ {i})
  BY BitTaken
<1>4. Number(word \ {i}) \in Nat
  BY NumberFacts
<1>5. Power(i) \in Nat /\ Power(i) >= High
  <2>1. i \in {16, 17, 18, 19, 20, 21, 22, 23, 24, 25, 26, 27, 28, 29, 30, 31}
    BY <1>2
  <2> QED BY <2>1, Powers, SMT DEF High
<1> QED BY <1>1, <1>3, <1>4, <1>5, SMT DEF High

\* The allocation length of REPORT LUNS, in the high half of its four bytes.
LEMMA LunsRead ==
  ASSUME NEW c \in Seq(Byte), Len(c) = 12, NEW n, Fits16(n), 0 < n,
         Has(c, 6, Short(n)), c[9] = {}, c[10] = {}
  PROVE  Value(GetBufferLong(c, 6)) \in Nat /\ Value(GetBufferLong(c, 6)) >= High
<1> DEFINE g == GetBufferString(c, 6, 4)
           h == GetBufferString(c, 6, 2)
           w == HostOrder(g)
<1>0. 6 \in Nat
  OBVIOUS
<1>1. /\ g \in Seq(Byte) /\ Len(g) = 4
      /\ \A i \in 1..4 : g[i] = c[6 + i]
  <2>1. 4 \in Nat /\ 6 + 4 <= Len(c)
    OBVIOUS
  <2>2. Got(c, 6, 4, g)
    BY <1>0, <2>1, Gets, Zenon
  <2> QED BY <2>2 DEF Got
<1>2. /\ h \in Seq(Byte) /\ Len(h) = 2
      /\ \A i \in 1..2 : h[i] = c[6 + i]
  <2>1. 2 \in Nat /\ 6 + 2 <= Len(c)
    OBVIOUS
  <2>2. Got(c, 6, 2, h)
    BY <1>0, <2>1, Gets, Zenon
  <2> QED BY <2>2 DEF Got
<1>3. HostOrder(h) = Word(n, 16)
  BY <1>0, ShortRead, Zenon DEF GetBufferShort
<1>4. PICK j \in 0..15 : j \in Word(n, 16)
  <2>1. Value(Word(n, 16)) = n /\ n # 0
    BY FitValue, SMT DEF Fits16
  <2>2. Word(n, 16) # {}
    BY <2>1, FewBits
  <2>3. Word(n, 16) \subseteq 0..15
    BY DEF Word
  <2> QED BY <2>2, <2>3
<1> HIDE DEF g, h
<1>5. j % 8 \in h[2 - (j \div 8)]
  BY <1>2, <1>3, <1>4 DEF HostOrder
<1>6. j + 16 \in w
  <2>1. (j + 16) % 8 = j % 8 /\ (j + 16) \div 8 = (j \div 8) + 2 /\ j \div 8 \in 0..1
    BY <1>4
  <2>2. 4 - ((j + 16) \div 8) = 2 - (j \div 8) /\ 2 - (j \div 8) \in 1..2
    BY <2>1
  <2>3. g[2 - (j \div 8)] = h[2 - (j \div 8)]
    BY <1>1, <1>2, <2>2
  <2>4. (j + 16) % 8 \in g[4 - ((j + 16) \div 8)]
    BY <1>5, <2>1, <2>2, <2>3
  <2>5. j + 16 \in 0..(8 * 4 - 1)
    BY <1>4
  <2> QED BY <1>1, <2>4, <2>5 DEF HostOrder
<1>7. w \in SUBSET (0..31)
  BY <1>1 DEF HostOrder
<1> HIDE DEF w
<1>8. Value(w) \in Nat /\ Value(w) >= High
  BY <1>4, <1>6, <1>7, HighWord
<1> QED BY <1>8 DEF GetBufferLong, g, w

\* The pages that a request of a class may ask for.
PagesOf(k) ==
  CASE k = "inquiry" -> {"standard", "supported"}
    [] k \in {"supported", "serial", "deviceId", "luns", "keys", "reservation",
              "capacity16"} -> {k}
    [] k = "read10" -> {"blocks"}
    [] k = "capacity10" -> {"capacity"}
    [] OTHER -> {}

\* The operation codes, read back from their byte.
LEMMA Opcodes ==
  /\ \A n \in {0, 18, 22, 23, 37, 40, 94, 158, 160} : Value(Word8(n)) = n
  /\ Value(Opcode) = 95
<1>1. ASSUME NEW n \in {0, 18, 22, 23, 37, 40, 94, 158, 160} PROVE Value(Word8(n)) = n
  <2>1. n \in 0..255
    OBVIOUS
  <2> QED BY <2>1, ByteFacts
<1> QED BY <1>1, FewBits

\* What each CDB asks for.
LEMMA InquiryPage ==
  ASSUME CdbInv, kind \in InquiryKinds
  PROVE  /\ PageAsked \in PagesOf(kind)
         /\ Allocation = Value(GetBufferShort(cdb, 3))
<1>1. /\ cdb[1] = Word8(18) /\ cdb[3] = PageCode(kind)
      /\ kind # "inquiry" => 0 \in cdb[2]
  BY DEF CdbInv, InquiryIn
<1>2. Value(cdb[1]) = 18
  BY <1>1, Opcodes
<1>3. PageAsked = IF 0 \in cdb[2] THEN VpdPages[Value(cdb[3])] ELSE "standard"
  BY <1>2, OtherFacts DEF PageAsked
<1>4. /\ kind \in {"inquiry", "supported"} => Value(cdb[3]) = 0
      /\ kind = "serial" => Value(cdb[3]) = 128
      /\ kind = "deviceId" => Value(cdb[3]) = 131
  <2>1. Value(Word8(128)) = 128 /\ Value(Word8(131)) = 131
    <3>1. 128 \in 0..255 /\ 131 \in 0..255
      OBVIOUS
    <3> QED BY <3>1, ByteFacts, Zenon
  <2> QED BY <1>1, <2>1, FewBits DEF PageCode
<1>5. PageAsked \in PagesOf(kind)
  BY <1>1, <1>3, <1>4, VpdFacts DEF PagesOf, InquiryKinds
<1>6. Allocation = Value(GetBufferShort(cdb, 3))
  BY <1>2 DEF Allocation
<1> QED BY <1>5, <1>6

\* What a request other than an INQUIRY asks for, and how much of it.
LEMMA OtherPage ==
  ASSUME CdbInv
  PROVE  /\ kind \in {"luns", "read10", "capacity10", "capacity16", "keys", "reservation"} =>
              PageAsked \in PagesOf(kind)
         /\ kind \in OutKinds \cup {"noData"} => PageAsked = "none" /\ Allocation = 0
         /\ kind = "luns" => Allocation = Value(GetBufferLong(cdb, 6))
         /\ kind = "read10" => Allocation = BlockLength * Value(GetBufferShort(cdb, 7))
         /\ kind = "capacity10" => Allocation = 8
         /\ kind = "capacity16" => Allocation = Value(GetBufferLong(cdb, 10))
         /\ kind \in {"keys", "reservation"} => Allocation = Value(GetBufferShort(cdb, 7))
<1>1. ASSUME kind \in OutKinds \cup {"noData"} PROVE PageAsked = "none" /\ Allocation = 0
  <2>1. Value(cdb[1]) \in {95, 0, 22, 23}
    BY <1>1, Opcodes DEF CdbInv
  <2> QED BY <2>1, OtherFacts DEF PageAsked, Allocation
<1>2. ASSUME kind = "luns"
      PROVE  PageAsked = "luns" /\ Allocation = Value(GetBufferLong(cdb, 6))
  <2>1. Value(cdb[1]) = 160
    BY <1>2, Opcodes DEF CdbInv, LunsIn
  <2> QED BY <2>1, OtherFacts DEF PageAsked, Allocation
<1>3. ASSUME kind = "read10"
      PROVE  PageAsked = "blocks" /\ Allocation = BlockLength * Value(GetBufferShort(cdb, 7))
  <2>1. Value(cdb[1]) = 40
    BY <1>3, Opcodes DEF CdbInv, ReadIn
  <2> QED BY <2>1, OtherFacts DEF PageAsked, Allocation
<1>4. ASSUME kind = "capacity10" PROVE PageAsked = "capacity" /\ Allocation = 8
  <2>1. Value(cdb[1]) = 37
    BY <1>4, Opcodes DEF CdbInv, CapacityIn
  <2> QED BY <2>1, OtherFacts DEF PageAsked, Allocation
<1>5. ASSUME kind = "capacity16"
      PROVE  PageAsked = "capacity16" /\ Allocation = Value(GetBufferLong(cdb, 10))
  <2>1. Value(cdb[1]) = 158
    BY <1>5, Opcodes DEF CdbInv, Capacity16In
  <2> QED BY <2>1, OtherFacts DEF PageAsked, Allocation
<1>6. ASSUME kind \in {"keys", "reservation"}
      PROVE  PageAsked = kind /\ Allocation = Value(GetBufferShort(cdb, 7))
  <2>1. Value(cdb[1]) = 94
    BY <1>6, Opcodes DEF CdbInv, PRInIn
  <2>2. Value(Word8(0)) = 0 /\ Value(Word8(1)) = 1
    <3>1. 0 \in 0..255 /\ 1 \in 0..255
      OBVIOUS
    <3> QED BY <3>1, ByteFacts
  <2>3. /\ kind = "keys" => Value(cdb[2]) = 0
        /\ kind = "reservation" => Value(cdb[2]) = 1
    BY <2>2 DEF CdbInv, PRInIn
  <2>4. PageAsked = IF Value(cdb[2]) = 0 THEN "keys" ELSE "reservation"
    BY <2>1, OtherFacts DEF PageAsked
  <2>5. Allocation = Value(GetBufferShort(cdb, 7))
    BY <2>1, OtherFacts DEF Allocation
  <2> QED BY <1>6, <2>3, <2>4, <2>5
<1> QED BY <1>1, <1>2, <1>3, <1>4, <1>5, <1>6 DEF PagesOf

\* The sizes of the buffers.
SizesInv ==
  /\ kind \in Classes
  /\ mInBuffer \in Seq(Byte)
  /\ kind \notin InKinds => mInBuffer = <<>>
  /\ kind \in InKinds \ {"capacity16"} =>
       Fits16(asked.length) /\ 0 < asked.length /\ Len(mInBuffer) = asked.length
  /\ kind = "capacity16" => Fits16(asked.length) /\ Len(mInBuffer) = 16
  /\ kind = "supported" => asked.length = 36
  /\ kind = "capacity10" => asked.length = 8

\* The room in the buffer, for what is received.
Room == IF Direction(kind) = "read" THEN Len(mInBuffer) ELSE 0

\* The classes whose CDB has the size of the buffer.
Measured == InquiryKinds \cup {"capacity10", "keys", "reservation"}

\* The classes, and which of them declare that they read.
LEMMA ClassFacts ==
  /\ InKinds = {"inquiry", "supported", "serial", "deviceId", "luns", "read10",
                "capacity10", "capacity16", "keys", "reservation"}
  /\ InquiryKinds = {"inquiry", "supported", "serial", "deviceId"}
  /\ OutKinds = {"plain", "move"}
  /\ \A k \in InKinds \ {"capacity16"} : Direction(k) = "read"
  /\ \A k \in {"none", "noData", "capacity16"} \cup OutKinds : Direction(k) # "read"
BY DEF InKinds, InquiryKinds, OutKinds, Direction

\* The room for the answer is what was asked for, and all of the buffer.
LEMMA RoomFacts ==
  ASSUME SizesInv
  PROVE  /\ Room \in Nat /\ Room <= Len(mInBuffer)
         /\ kind \in InKinds \ {"capacity16"} => Room = asked.length /\ Room = Len(mInBuffer)
         /\ kind \notin InKinds \ {"capacity16"} => Room = 0
<1>1. Len(mInBuffer) \in Nat
  BY DEF SizesInv
<1>2. CASE kind \in InKinds \ {"capacity16"}
  BY <1>1, <1>2, ClassFacts DEF Room, SizesInv
<1>3. CASE kind \notin InKinds \ {"capacity16"}
  <2>1. Direction(kind) # "read"
    BY <1>3, ClassFacts DEF SizesInv, Classes
  <2> QED BY <1>1, <1>3, <2>1 DEF Room
<1> QED BY <1>2, <1>3

\* The length in the CDB does not cut an answer shorter than the buffer does.
LEMMA Allocated ==
  ASSUME CdbInv, SizesInv, kind # "none"
  PROVE  /\ Allocation \in Nat
         /\ Room <= Allocation
         /\ kind \in Measured => Allocation = asked.length
         /\ kind = "luns" => High <= Allocation
<1>0. 3 \in Nat /\ 6 \in Nat /\ 7 \in Nat /\ 10 \in Nat
  OBVIOUS
<1>1. CASE kind \in InquiryKinds
  <2>1. /\ cdb \in Seq(Byte) /\ Has(cdb, 3, Short(asked.length)) /\ Fits16(asked.length)
        /\ Room = asked.length /\ kind # "luns"
    BY <1>1, ClassFacts, RoomFacts DEF CdbInv, InquiryIn, SizesInv
  <2>2. Value(GetBufferShort(cdb, 3)) = asked.length /\ asked.length \in Nat
    BY <1>0, <2>1, ShortRead, FitValue, Zenon
  <2> QED BY <1>1, <2>1, <2>2, InquiryPage
<1>2. CASE kind \in {"keys", "reservation"}
  <2>1. /\ cdb \in Seq(Byte) /\ Has(cdb, 7, Short(asked.length)) /\ Fits16(asked.length)
        /\ Room = asked.length /\ kind # "luns"
    BY <1>2, ClassFacts, RoomFacts DEF CdbInv, PRInIn, SizesInv
  <2>2. Value(GetBufferShort(cdb, 7)) = asked.length /\ asked.length \in Nat
    BY <1>0, <2>1, ShortRead, FitValue, Zenon
  <2> QED BY <1>2, <2>1, <2>2, OtherPage
<1>3. CASE kind = "capacity10"
  <2>1. Room = asked.length /\ asked.length = 8 /\ Allocation = 8
    BY <1>3, ClassFacts, RoomFacts, OtherPage DEF SizesInv
  <2> QED BY <1>3, <2>1
<1>4. CASE kind = "read10"
  <2>1. /\ cdb \in Seq(Byte) /\ Has(cdb, 7, Short(asked.length)) /\ Fits16(asked.length)
        /\ Room = asked.length
    BY <1>4, ClassFacts, RoomFacts DEF CdbInv, ReadIn, SizesInv
  <2>2. Value(GetBufferShort(cdb, 7)) = asked.length /\ asked.length \in Nat
    BY <1>0, <2>1, ShortRead, FitValue, Zenon
  <2>3. BlockLength \in Nat \ {0}
    BY SizesAssumption, SMT
  <2>4. Allocation = BlockLength * asked.length
    BY <1>4, <2>2, OtherPage
  <2>5. \A a, b \in Nat : a # 0 => a * b \in Nat /\ b <= a * b
    OBVIOUS
  <2> QED BY <1>4, <2>1, <2>2, <2>3, <2>4, <2>5, ClassFacts DEF Measured
<1>5. CASE kind = "luns"
  <2>1. /\ cdb \in Seq(Byte) /\ Len(cdb) = 12 /\ Has(cdb, 6, Short(asked.length))
        /\ cdb[9] = {} /\ cdb[10] = {}
        /\ Fits16(asked.length) /\ 0 < asked.length /\ Room = asked.length
    BY <1>5, ClassFacts, RoomFacts DEF CdbInv, LunsIn, SizesInv
  <2>2. asked.length \in Nat
    BY <2>1 DEF Fits16
  <2>3. Value(GetBufferLong(cdb, 6)) \in Nat /\ Value(GetBufferLong(cdb, 6)) >= High
    BY <2>1, <2>2, LunsRead
  <2>4. asked.length <= High /\ High \in Nat
    BY <2>1, SMT DEF Fits16, High
  <2> QED BY <1>5, <2>1, <2>2, <2>3, <2>4, OtherPage, ClassFacts DEF Measured
<1>6. CASE kind = "capacity16"
  <2>1. /\ cdb \in Seq(Byte) /\ Has(cdb, 10, Long(asked.length)) /\ Fits31(asked.length)
        /\ Room = 0
    BY <1>6, ClassFacts, RoomFacts, SMT DEF CdbInv, Capacity16In, SizesInv, Fits16, Fits31
  <2>2. Value(GetBufferLong(cdb, 10)) = asked.length /\ asked.length \in Nat
    <3>1. GetBufferLong(cdb, 10) = Word(asked.length, 32)
      BY <1>0, <2>1, LongRead, Zenon
    <3> QED BY <2>1, <3>1, FitValue, Zenon
  <2> QED BY <1>6, <2>1, <2>2, OtherPage, ClassFacts DEF Measured
<1>7. CASE kind \in OutKinds \cup {"noData"}
  BY <1>7, OtherPage, RoomFacts, ClassFacts DEF Measured
<1> QED BY <1>1, <1>2, <1>3, <1>4, <1>5, <1>6, <1>7, ClassFacts DEF SizesInv, Classes

\* The sequence u is t after the p elements of s.
Followed(s, t, u, p) ==
  /\ u \in Seq(Byte) /\ Len(u) = p + Len(t) /\ Has(u, p, t)
  /\ \A i \in 1..p : u[i] = s[i]

\* A concatenation has the second string where the first ends.
LEMMA Appended ==
  ASSUME NEW s \in Seq(Byte), NEW t \in Seq(Byte), NEW p, Len(s) = p
  PROVE  Followed(s, t, s \o t, p)
<1> DEFINE u == s \o t
<1>1. /\ u \in Seq(Byte) /\ Len(u) = Len(s) + Len(t)
      /\ \A i \in 1..(Len(s) + Len(t)) : u[i] = IF i <= Len(s) THEN s[i] ELSE t[i - Len(s)]
  BY ConcatProperties
<1> HIDE DEF u
<1>2. p \in Nat
  OBVIOUS
<1>3. ASSUME NEW i \in 1..Len(t) PROVE u[p + i] = t[i]
  <2>1. p + i \in 1..(Len(s) + Len(t)) /\ ~(p + i <= Len(s)) /\ (p + i) - Len(s) = i
    OBVIOUS
  <2> QED BY <1>1, <2>1
<1>4. ASSUME NEW i \in 1..p PROVE u[i] = s[i]
  <2>1. i \in 1..(Len(s) + Len(t)) /\ i <= Len(s)
    OBVIOUS
  <2> QED BY <1>1, <2>1
<1>5. Followed(s, t, u, p)
  BY <1>1, <1>2, <1>3, <1>4 DEF Followed, Has
<1> QED BY <1>5 DEF u

\* What the first string of a concatenation has, the whole has.
LEMMA HasStill ==
  ASSUME NEW s \in Seq(Byte), NEW t, NEW u, NEW p, Len(s) = p, Followed(s, t, u, p),
         NEW o \in Nat, NEW x \in Seq(Byte), Has(s, o, x), Len(t) \in Nat
  PROVE  Has(u, o, x)
<1>1. o + Len(x) <= p /\ \A i \in 1..Len(x) : s[o + i] = x[i]
  BY DEF Has
<1>2. Len(u) = p + Len(t) /\ \A i \in 1..p : u[i] = s[i]
  BY DEF Followed
<1>3. ASSUME NEW i \in 1..Len(x) PROVE u[o + i] = x[i]
  <2>1. o + i \in 1..p
    BY <1>1
  <2> QED BY <1>1, <1>2, <2>1
<1> QED BY <1>1, <1>2, <1>3 DEF Has

\* Eight, sixteen and four bytes.
LEMMA Strings ==
  /\ \A v \in [1..8 -> Byte] : v \in Seq(Byte) /\ Len(v) = 8
  /\ \A v \in [1..16 -> Byte] : v \in Seq(Byte) /\ Len(v) = 16
  /\ \A v \in [1..4 -> Byte] : v \in Seq(Byte) /\ Len(v) = 4
<1>1. PICK a \in Nat, b \in Nat, c \in Nat : a = 8 /\ b = 16 /\ c = 4
  OBVIOUS
<1>2. /\ \A v \in [1..a -> Byte] : v \in Seq(Byte) /\ Len(v) = a
      /\ \A v \in [1..b -> Byte] : v \in Seq(Byte) /\ Len(v) = b
      /\ \A v \in [1..c -> Byte] : v \in Seq(Byte) /\ Len(v) = c
  BY AsSequence
<1> QED BY <1>1, <1>2

\* The standard page.
StandardFormat(b, v) ==
  /\ b \in Seq(Byte) /\ Len(b) = 36
  /\ b[1] = v.type \cup Shl(v.qualifier, 5) /\ b[2] = IF v.rmb THEN {7} ELSE {}
  /\ Has(b, 8, v.vendor) /\ Has(b, 16, v.product) /\ Has(b, 32, v.rev)

\* Where the fields are in the page of standard inquiry data.
LEMMA StandardBytes ==
  ASSUME NEW v \in StandardData
  PROVE  StandardFormat(Bytes([page |-> "standard", is |-> v]), v)
<1> DEFINE one == v.type \cup Shl(v.qualifier, 5)
           two == IF v.rmb THEN {7} ELSE {}
           vendor == v.vendor
           product == v.product
           rev == v.rev
           a == <<one, two, v.version>>
           z == Zeroed(5)
           b == a \o z
           c == b \o vendor
           d == c \o product
           e == d \o rev
<1>0. /\ 8 \in Nat /\ 16 \in Nat /\ 32 \in Nat
  OBVIOUS
<1>1. /\ v.qualifier \in SUBSET (0..2) /\ v.type \in SUBSET (0..4) /\ v.rmb \in BOOLEAN
      /\ v.version \in Byte /\ v.vendor \in [1..8 -> Byte] /\ v.product \in [1..16 -> Byte]
      /\ v.rev \in [1..4 -> Byte]
  BY StandardAssumption
<1>2. /\ vendor \in Seq(Byte) /\ Len(vendor) = 8 /\ product \in Seq(Byte)
      /\ Len(product) = 16 /\ rev \in Seq(Byte) /\ Len(rev) = 4
  BY <1>1, Strings
<1>3. one \in Byte
  BY <1>1 DEF Shl, Byte
<1>4. two \in Byte
  BY DEF Byte
<1>5. Bytes([page |-> "standard", is |-> v]) = e
  BY DEF Bytes
<1> HIDE DEF one, two, vendor, product, rev
<1>6. a \in Seq(Byte) /\ Len(a) = 3 /\ a[1] = one /\ a[2] = two
  BY <1>1, <1>3, <1>4
<1>7. z \in Seq(Byte) /\ Len(z) = 5
  BY ZeroedFacts
<1> HIDE DEF a, z
<1>8. Followed(a, z, b, 3)
  BY <1>6, <1>7, Appended, Zenon
<1> HIDE DEF b
<1>9. b \in Seq(Byte) /\ Len(b) = 8 /\ b[1] = one /\ b[2] = two
  BY <1>6, <1>7, <1>8 DEF Followed
<1>10. Followed(b, vendor, c, 8)
  BY <1>2, <1>9, Appended, Zenon
<1> HIDE DEF c
<1>11. /\ c \in Seq(Byte) /\ Len(c) = 16 /\ c[1] = one /\ c[2] = two
       /\ Has(c, 8, vendor)
  BY <1>2, <1>9, <1>10 DEF Followed
<1>12. Followed(c, product, d, 16)
  BY <1>2, <1>11, Appended, Zenon
<1> HIDE DEF d
<1>13. /\ d \in Seq(Byte) /\ Len(d) = 32 /\ d[1] = one /\ d[2] = two
       /\ Has(d, 16, product)
  BY <1>2, <1>11, <1>12 DEF Followed
<1>14. Has(d, 8, vendor)
  <2>1. Len(product) \in Nat
    BY <1>2
  <2>2. PICK o \in Nat, p \in Nat : o = 8 /\ p = 16
    OBVIOUS
  <2>3. Len(c) = p /\ Has(c, o, vendor) /\ Followed(c, product, d, p)
    BY <1>11, <1>12, <2>2
  <2>4. Has(d, o, vendor)
    BY <1>2, <1>11, <2>1, <2>3, HasStill
  <2> QED BY <2>2, <2>4
<1>15. Followed(d, rev, e, 32)
  BY <1>2, <1>13, Appended, Zenon
<1> HIDE DEF e
<1>16. /\ e \in Seq(Byte) /\ Len(e) = 36 /\ e[1] = one /\ e[2] = two
       /\ Has(e, 32, rev)
  BY <1>2, <1>13, <1>15 DEF Followed
<1>17. Has(e, 8, vendor) /\ Has(e, 16, product)
  <2>1. Len(rev) \in Nat
    BY <1>2
  <2>2. PICK o \in Nat, p \in Nat, q \in Nat : o = 8 /\ p = 16 /\ q = 32
    OBVIOUS
  <2>3. /\ Len(d) = q /\ Has(d, o, vendor) /\ Has(d, p, product)
        /\ Followed(d, rev, e, q)
    BY <1>13, <1>14, <1>15, <2>2
  <2>4. Has(e, o, vendor) /\ Has(e, p, product)
    BY <1>2, <1>13, <2>1, <2>3, HasStill
  <2> QED BY <2>2, <2>4
<1> QED BY <1>5, <1>16, <1>17 DEF StandardFormat, one, two, vendor, product, rev

\* A page with the length of its list in the fourth byte.
ListFormat(b, v) ==
  b \in Seq(Byte) /\ Len(b) = 4 + Len(v) /\ b[4] = Word8(Len(v)) /\ Has(b, 4, v)

\* A page of one list of bytes: its length, and the list from byte 4.
LEMMA ListJoined ==
  ASSUME NEW v \in Seq(Byte), Len(v) <= 255, NEW code \in Byte
  PROVE  ListFormat(<<{}, code, {}, Word8(Len(v))>> \o v, v)
<1> DEFINE n == Word8(Len(v))
           a == <<{}, code, {}, n>>
           b == a \o v
<1>1. n \in Byte
  <2> DEFINE m == Len(v)
  <2>1. m \in Nat /\ m <= 255
    OBVIOUS
  <2> HIDE DEF m
  <2>2. m \in 0..255
    BY <2>1
  <2> QED BY <2>2, ByteFacts DEF m
<1> HIDE DEF n
<1>2. a \in Seq(Byte) /\ Len(a) = 4 /\ a[4] = n
  BY <1>1 DEF Byte
<1> HIDE DEF a
<1>3. Followed(a, v, b, 4)
  BY <1>2, Appended, Zenon
<1> HIDE DEF b
<1>4. ListFormat(b, v)
  BY <1>2, <1>3 DEF Followed, ListFormat, n
<1> QED BY <1>4 DEF b, a, n

\* The page of the supported pages is such a page.
LEMMA SupportedBytes ==
  ASSUME NEW v \in PageLists
  PROVE  v \in Seq(Byte) /\ Len(v) <= 255
         /\ ListFormat(Bytes([page |-> "supported", is |-> v]), v)
<1>1. v \in Seq(Byte) /\ Len(v) <= 255 /\ {} \in Byte
  BY ListsAssumption, SMT DEF Byte
<1>2. Bytes([page |-> "supported", is |-> v]) = <<{}, {}, {}, Word8(Len(v))>> \o v
  BY DEF Bytes
<1> QED BY <1>1, <1>2, ListJoined

\* The page of the serial number is such a page.
LEMMA SerialBytes ==
  ASSUME NEW v \in Serials
  PROVE  v \in Seq(Byte) /\ Len(v) <= 255
         /\ ListFormat(Bytes([page |-> "serial", is |-> v]), v)
<1>1. v \in Seq(Byte) /\ Len(v) <= 255
  BY ListsAssumption, SMT
<1>2. Word8(128) \in Byte
  <2>1. 128 \in 0..255
    OBVIOUS
  <2> QED BY <2>1, ByteFacts
<1>3. Bytes([page |-> "serial", is |-> v]) = <<{}, Word8(128), {}, Word8(Len(v))>> \o v
  BY DEF Bytes
<1> QED BY <1>1, <1>2, <1>3, ListJoined

\* A list of which each element takes eight bytes after a header of eight.
ElementsFormat(b, n, o, size) ==
  b \in Seq(Byte) /\ Len(b) = 8 + 8 * n /\ Has(b, o, Long(size))

\* Where the elements of eight bytes are, after a header of eight.
LEMMA Elements ==
  ASSUME NEW h \in Seq(Byte), Len(h) = 8, NEW seqs \in Seq(Seq(Byte)),
         \A i \in 1..Len(seqs) : Len(seqs[i]) = 8
  PROVE  /\ Followed(h, FlattenSeq(seqs), h \o FlattenSeq(seqs), 8)
         /\ Len(FlattenSeq(seqs)) = 8 * Len(seqs)
         /\ \A i \in 1..Len(seqs) : Has(h \o FlattenSeq(seqs), 8 * i, seqs[i])
<1> DEFINE f == FlattenSeq(seqs)
           b == h \o f
<1>1. f \in Seq(Byte) /\ EightsIn(f, seqs, Len(seqs))
  BY FlattenEights
<1>2. /\ Len(f) = 8 * Len(seqs)
      /\ \A i \in 1..Len(seqs), j \in 1..8 : f[8 * (i - 1) + j] = seqs[i][j]
  BY <1>1 DEF EightsIn
<1> HIDE DEF f
<1>3. Followed(h, f, b, 8)
  BY <1>1, Appended, Zenon
<1> HIDE DEF b
<1>4. /\ Len(b) = 8 + 8 * Len(seqs)
      /\ \A i \in 1..(8 * Len(seqs)) : b[8 + i] = f[i]
  BY <1>2, <1>3 DEF Followed, Has
<1>5. ASSUME NEW i \in 1..Len(seqs) PROVE Has(b, 8 * i, seqs[i])
  <2>1. Len(seqs[i]) = 8 /\ 8 * i + 8 <= Len(b)
    BY <1>4
  <2>2. ASSUME NEW j \in 1..8 PROVE b[8 * i + j] = seqs[i][j]
    <3>1. 8 * (i - 1) + j \in 1..(8 * Len(seqs)) /\ 8 + (8 * (i - 1) + j) = 8 * i + j
      OBVIOUS
    <3>2. b[8 + (8 * (i - 1) + j)] = f[8 * (i - 1) + j]
      BY <1>4, <3>1
    <3> QED BY <1>2, <3>1, <3>2
  <2> QED BY <2>1, <2>2 DEF Has
<1> QED BY <1>2, <1>3, <1>5 DEF b, f

\* A designation descriptor.
Descriptor ==
  [codeSet : SUBSET (0..3), idType : SUBSET (0..3), association : SUBSET (0..1),
   piv : BOOLEAN, id : Seq(Byte)]

\* What a list of descriptors is.
LEMMA IdsFacts ==
  ASSUME NEW v \in IdLists
  PROVE  /\ v \in Seq(Descriptor) /\ DOMAIN v = 1..Len(v) /\ Len(v) \in Nat
         /\ \A i \in 1..Len(v) : v[i] \in Descriptor
<1>1. v \in Seq(Descriptor)
  BY IdsAssumption, Zenon DEF Descriptor
<1> QED BY <1>1

\* What a descriptor is.
LEMMA DescriptorFacts ==
  ASSUME NEW d \in Descriptor
  PROVE  /\ d.codeSet \in SUBSET (0..3) /\ d.idType \in SUBSET (0..3)
         /\ d.association \in SUBSET (0..1) /\ d.piv \in BOOLEAN /\ d.id \in Seq(Byte)
BY DEF Descriptor

\* A page of device IDs is a sequence of bytes.
LEMMA DescriptorTyped ==
  ASSUME NEW d \in Descriptor PROVE DescriptorBytes(d) \in Seq(Byte)
<1> DEFINE one == d.codeSet
           two == d.idType \cup Shl(d.association, 4) \cup (IF d.piv THEN {7} ELSE {})
           four == Word8(Len(d.id))
           a == <<one, two, {}, four>>
<1>1. /\ d.codeSet \in SUBSET (0..3) /\ d.idType \in SUBSET (0..3)
      /\ d.association \in SUBSET (0..1) /\ d.id \in Seq(Byte)
  BY DescriptorFacts
<1>2. one \in Byte
  BY <1>1 DEF Byte
<1>3. two \in Byte
  <2>1. d.idType \subseteq 0..7 /\ {7} \subseteq 0..7 /\ {} \subseteq 0..7
    BY <1>1
  <2>2. Shl(d.association, 4) \subseteq 0..7
    <3> SUFFICES ASSUME NEW i \in 0..31, i - 4 \in d.association PROVE i \in 0..7
      BY DEF Shl
    <3>1. i - 4 \in 0..1
      BY <1>1
    <3> QED BY <3>1
  <2> QED BY <2>1, <2>2 DEF Byte
<1>4. four \in Byte
  BY DEF Word8, Word, Byte
<1>5. DescriptorBytes(d) = a \o d.id
  BY DEF DescriptorBytes
<1> HIDE DEF one, two, four
<1>6. a \in Seq(Byte)
  BY <1>2, <1>3, <1>4 DEF Byte
<1> HIDE DEF a
<1> QED BY <1>1, <1>5, <1>6

\* The page of the descriptors is a sequence of bytes.
LEMMA DeviceIdBytes ==
  ASSUME NEW v \in IdLists
  PROVE  Bytes([page |-> "deviceId", is |-> v]) \in Seq(Byte)
<1> DEFINE seqs == [i \in DOMAIN v |-> DescriptorBytes(v[i])]
           list == FlattenSeq(seqs)
           a == <<{}, Word8(131)>>
           t == ToBytes(Len(list), 2)
<1>1. Bytes([page |-> "deviceId", is |-> v]) = (a \o t) \o list
  BY DEF Bytes, DescriptorList
<1>2. seqs \in Seq(Seq(Byte))
  <2>1. seqs \in [1..Len(v) -> Seq(Byte)]
    BY IdsFacts, DescriptorTyped
  <2> HIDE DEF seqs
  <2> QED BY <2>1, IdsFacts, AsSequence
<1> HIDE DEF seqs
<1>3. list \in Seq(Byte)
  BY <1>2, FlattenType
<1>4. t \in Seq(Byte)
  BY OrderFacts DEF ToBytes
<1>5. a \in Seq(Byte)
  BY DEF Word8, Word, Byte
<1> HIDE DEF list, t, a
<1>6. a \o t \in Seq(Byte)
  BY <1>4, <1>5
<1>7. (a \o t) \o list \in Seq(Byte)
  BY <1>3, <1>6
<1> QED BY <1>1, <1>7

\* A list of logical unit numbers.
LunsFormat(b, v) ==
  /\ ElementsFormat(b, Len(v), 0, 8 * Len(v))
  /\ \A i \in 1..Len(v) : Has(b, 8 * i, Short(v[i]))

\* Where the LUNs are in the answer to REPORT LUNS.
LEMMA LunsBytes ==
  ASSUME NEW v \in LunLists
  PROVE  /\ v \in Seq(Nat) /\ Fits16(8 + 8 * Len(v))
         /\ \A i \in 1..Len(v) : Fits16(v[i])
         /\ LunsFormat(Bytes([page |-> "luns", is |-> v]), v)
<1> DEFINE seqs == [i \in DOMAIN v |-> ToBytes(v[i], 2) \o Zeroed(6)]
           l == Long(8 * Len(v))
           z == Zeroed(4)
           h == l \o z
           b == h \o FlattenSeq(seqs)
<1>1. v \in Seq(Nat) /\ Len(v) \in Nat /\ DOMAIN v = 1..Len(v)
  BY LunsAssumption, SMT
<1>2. Fits16(8 + 8 * Len(v)) /\ \A i \in 1..Len(v) : Fits16(v[i])
  BY <1>1, LunsAssumption, SMT DEF Fits16
<1>3. Bytes([page |-> "luns", is |-> v]) = b
  BY DEF Bytes, ToBytes, Long
<1>4. l \in Seq(Byte) /\ Len(l) = 4
  BY LongFacts
<1>5. z \in Seq(Byte) /\ Len(z) = 4
  BY ZeroedFacts
<1> HIDE DEF l, z
<1>6. Followed(l, z, h, 4)
  BY <1>4, <1>5, Appended, Zenon
<1> HIDE DEF h
<1>7. h \in Seq(Byte) /\ Len(h) = 8 /\ Has(h, 0, l)
  <2>1. \A i \in 1..4 : h[0 + i] = l[i]
    BY <1>6 DEF Followed
  <2> QED BY <1>4, <1>5, <1>6, <2>1 DEF Followed, Has
<1>8. ASSUME NEW i \in 1..Len(v)
      PROVE  /\ seqs[i] \in Seq(Byte) /\ Len(seqs[i]) = 8 /\ Has(seqs[i], 0, Short(v[i]))
  <2> DEFINE s == Short(v[i])
             w == Zeroed(6)
             e == s \o w
  <2>1. seqs[i] = e
    BY <1>1 DEF ToBytes, Short
  <2>2. s \in Seq(Byte) /\ Len(s) = 2
    BY ShortFacts
  <2>3. w \in Seq(Byte) /\ Len(w) = 6
    BY ZeroedFacts
  <2> HIDE DEF s, w
  <2>4. Followed(s, w, e, 2)
    BY <2>2, <2>3, Appended, Zenon
  <2> HIDE DEF e
  <2>5. \A j \in 1..2 : e[0 + j] = s[j]
    BY <2>4 DEF Followed
  <2>6. e \in Seq(Byte) /\ Len(e) = 8 /\ Has(e, 0, s)
    BY <2>2, <2>3, <2>4, <2>5 DEF Followed, Has
  <2> QED BY <2>1, <2>6 DEF s
<1>9. seqs \in Seq(Seq(Byte)) /\ Len(seqs) = Len(v)
  <2>1. seqs \in [1..Len(v) -> Seq(Byte)]
    BY <1>1, <1>8
  <2> HIDE DEF seqs
  <2> QED BY <1>1, <2>1, AsSequence
<1> HIDE DEF seqs
<1>10. /\ Followed(h, FlattenSeq(seqs), b, 8)
       /\ Len(FlattenSeq(seqs)) = 8 * Len(v)
       /\ \A i \in 1..Len(v) : Has(b, 8 * i, seqs[i])
  BY <1>7, <1>8, <1>9, Elements
<1> HIDE DEF b
<1>11. b \in Seq(Byte) /\ Len(b) = 8 + 8 * Len(v)
  BY <1>10 DEF Followed
<1>12. Has(b, 0, l)
  <2>1. 0 \in Nat /\ Len(FlattenSeq(seqs)) \in Nat
    BY <1>1, <1>10
  <2> QED BY <1>4, <1>7, <1>10, <2>1, HasStill
<1>13. ASSUME NEW i \in 1..Len(v) PROVE Has(b, 8 * i, Short(v[i]))
  <2> DEFINE e == seqs[i]
             s == Short(v[i])
             o == 8 * i
  <2>1. /\ Has(b, o, e) /\ Len(e) = 8 /\ Has(e, 0, s) /\ Len(s) = 2 /\ o \in Nat
    BY <1>1, <1>8, <1>10, ShortFacts
  <2> HIDE DEF e, s, o
  <2>2. ASSUME NEW j \in 1..2 PROVE b[o + j] = s[j]
    <3>1. j \in 1..Len(e) /\ j \in 1..Len(s) /\ 0 + j = j
      BY <2>1
    <3>2. b[o + j] = e[j]
      BY <2>1, <3>1 DEF Has
    <3>3. e[0 + j] = s[j]
      BY <2>1, <3>1 DEF Has
    <3> QED BY <3>1, <3>2, <3>3
  <2>3. Has(b, o, s)
    BY <2>1, <2>2, <1>11, <1>1 DEF Has
  <2> QED BY <2>3 DEF o, s
<1> QED BY <1>1, <1>2, <1>3, <1>11, <1>12, <1>13 DEF LunsFormat, ElementsFormat, l

\* A list of keys.
KeysFormat(b, v) ==
  /\ ElementsFormat(b, Len(v), 4, 8 * Len(v))
  /\ \A i \in 1..Len(v) : Has(b, 8 * i, v[i])

\* Where the keys are in the answer to READ KEYS.
LEMMA KeysBytes ==
  ASSUME NEW v \in KeyLists
  PROVE  /\ Len(v) \in Nat /\ DOMAIN v = 1..Len(v) /\ Fits31(8 * Len(v))
         /\ \A i \in 1..Len(v) : v[i] \in Seq(Byte) /\ Len(v[i]) = 8
         /\ KeysFormat(Bytes([page |-> "keys", is |-> v]), v)
<1> DEFINE l == Long(8 * Len(v))
           z == Zeroed(4)
           h == z \o l
           b == h \o FlattenSeq(v)
<1>1. v \in Seq([1..8 -> Byte]) /\ Len(v) \in Nat /\ DOMAIN v = 1..Len(v)
  BY KeysAssumption, SMT
<1>2. Fits31(8 * Len(v))
  BY <1>1, KeysAssumption, SMT DEF Fits31
<1>3. ASSUME NEW i \in 1..Len(v) PROVE v[i] \in Seq(Byte) /\ Len(v[i]) = 8
  <2>1. v[i] \in [1..8 -> Byte]
    BY <1>1
  <2> QED BY <2>1, Strings
<1>4. Bytes([page |-> "keys", is |-> v]) = b
  BY DEF Bytes, ToBytes, Long
<1>5. v \in Seq(Seq(Byte))
  <2>1. v \in [1..Len(v) -> Seq(Byte)]
    BY <1>1, <1>3
  <2> QED BY <1>1, <2>1, AsSequence
<1>6. l \in Seq(Byte) /\ Len(l) = 4
  BY LongFacts
<1>7. z \in Seq(Byte) /\ Len(z) = 4
  BY ZeroedFacts
<1> HIDE DEF l, z
<1>8. Followed(z, l, h, 4)
  BY <1>6, <1>7, Appended, Zenon
<1> HIDE DEF h
<1>9. h \in Seq(Byte) /\ Len(h) = 8 /\ Has(h, 4, l)
  BY <1>6, <1>7, <1>8 DEF Followed
<1>10. /\ Followed(h, FlattenSeq(v), b, 8)
       /\ Len(FlattenSeq(v)) = 8 * Len(v)
       /\ \A i \in 1..Len(v) : Has(b, 8 * i, v[i])
  BY <1>3, <1>5, <1>9, Elements
<1> HIDE DEF b
<1>11. b \in Seq(Byte) /\ Len(b) = 8 + 8 * Len(v)
  BY <1>10 DEF Followed
<1>12. Has(b, 4, l)
  <2>1. 4 \in Nat /\ Len(FlattenSeq(v)) \in Nat
    BY <1>1, <1>10
  <2>2. /\ h \in Seq(Byte) /\ Len(h) = 8 /\ Has(h, 4, l) /\ l \in Seq(Byte)
        /\ Followed(h, FlattenSeq(v), b, 8)
    BY <1>6, <1>9, <1>10
  <2> QED BY <2>1, <2>2, HasStill
<1> QED BY <1>1, <1>2, <1>3, <1>4, <1>10, <1>11, <1>12 DEF KeysFormat, ElementsFormat, l

\* A length of 0.
LEMMA NoLength == \A i \in 1..4 : Long(0)[i] = {}
<1>1. Word(0, 32) = {}
  <2> SUFFICES ASSUME NEW i \in (0..(32 - 1)) \cap (0..30) PROVE (0 \div Power(i)) % 2 # 1
    BY WordPower
  <2>1. Power(i) \in Nat /\ Power(i) > 0
    BY PowerFacts
  <2> QED BY <2>1
<1> QED BY <1>1 DEF Long, NetworkOrder, Shr

\* The bytes of a reservation.
ReservationAt(b, key, type) ==
  b \in Seq(Byte) /\ Len(b) = 24 /\ Has(b, 4, Long(16)) /\ Has(b, 8, key) /\ b[22] = type

ReservationLaid(b, key, type) ==
  b = Zeroed(4) \o Long(16) \o key \o Zeroed(5) \o <<type>> \o Zeroed(2)

\* What a target says of the reservation.
ReservationFormat(b, v) ==
  /\ b \in Seq(Byte)
  /\ v = {} => Len(b) = 8 /\ Has(b, 4, Long(0))
  /\ \A r \in v : ReservationAt(b, r.key, r.type)

\* A reservation laid out is one that can be read.
LEMMA OneReservation ==
  ASSUME NEW key \in Seq(Byte), Len(key) = 8, NEW type \in Byte, NEW b,
         ReservationLaid(b, key, type)
  PROVE  ReservationAt(b, key, type)
<1> DEFINE z4 == Zeroed(4)
           z5 == Zeroed(5)
           z2 == Zeroed(2)
           l == Long(16)
           y == <<type>>
           c == z4 \o l
           d == c \o key
           e == d \o z5
           f == e \o y
           g == f \o z2
<1>1. /\ z4 \in Seq(Byte) /\ Len(z4) = 4 /\ z5 \in Seq(Byte) /\ Len(z5) = 5
      /\ z2 \in Seq(Byte) /\ Len(z2) = 2
  BY ZeroedFacts
<1>2. l \in Seq(Byte) /\ Len(l) = 4
  BY LongFacts, Zenon
<1>3. y \in Seq(Byte) /\ Len(y) = 1 /\ y[1] = type /\ 1 \in 1..1
  OBVIOUS
<1>4. b = g
  BY DEF ReservationLaid
<1> HIDE DEF z4, z5, z2, l, y
<1>5. Followed(z4, l, c, 4)
  BY <1>1, <1>2, Appended, Zenon
<1> HIDE DEF c
<1>6. c \in Seq(Byte) /\ Len(c) = 8 /\ Has(c, 4, l)
  BY <1>1, <1>2, <1>5 DEF Followed
<1>7. Followed(c, key, d, 8)
  BY <1>6, Appended, Zenon
<1> HIDE DEF d
<1>8. d \in Seq(Byte) /\ Len(d) = 16 /\ Has(d, 8, key)
  BY <1>6, <1>7 DEF Followed
<1>9. Followed(d, z5, e, 16)
  BY <1>1, <1>8, Appended, Zenon
<1> HIDE DEF e
<1>10. e \in Seq(Byte) /\ Len(e) = 21
  BY <1>1, <1>8, <1>9 DEF Followed
<1>11. Followed(e, y, f, 21)
  BY <1>3, <1>10, Appended, Zenon
<1> HIDE DEF f
<1>12. f \in Seq(Byte) /\ Len(f) = 22 /\ f[22] = type
  <2>1. f \in Seq(Byte) /\ Len(f) = 22 /\ f[21 + 1] = y[1]
    BY <1>3, <1>10, <1>11 DEF Followed, Has
  <2> QED BY <1>3, <2>1
<1>13. Followed(f, z2, g, 22)
  BY <1>1, <1>12, Appended, Zenon
<1> HIDE DEF g
<1>14. g \in Seq(Byte) /\ Len(g) = 24 /\ g[22] = type
  BY <1>1, <1>12, <1>13 DEF Followed
<1>15. PICK p4 \in Nat, p8 \in Nat, p16 \in Nat, p21 \in Nat, p22 \in Nat :
         p4 = 4 /\ p8 = 8 /\ p16 = 16 /\ p21 = 21 /\ p22 = 22
  OBVIOUS
<1>16. /\ Has(c, p4, l) /\ Len(c) = p8 /\ Followed(c, key, d, p8)
       /\ Has(d, p8, key) /\ Len(d) = p16 /\ Followed(d, z5, e, p16)
       /\ Len(e) = p21 /\ Followed(e, y, f, p21)
       /\ Len(f) = p22 /\ Followed(f, z2, g, p22)
       /\ Len(key) \in Nat /\ Len(z5) \in Nat /\ Len(y) \in Nat /\ Len(z2) \in Nat
  BY <1>1, <1>3, <1>5, <1>6, <1>7, <1>8, <1>9, <1>10, <1>11, <1>12, <1>13, <1>15
<1>17. Has(d, p4, l)
  BY <1>2, <1>6, <1>16, HasStill
<1>18. Has(e, p4, l) /\ Has(e, p8, key)
  BY <1>2, <1>8, <1>16, <1>17, HasStill
<1>19. Has(f, p4, l) /\ Has(f, p8, key)
  BY <1>2, <1>10, <1>16, <1>18, HasStill
<1>20. Has(g, p4, l) /\ Has(g, p8, key)
  BY <1>2, <1>12, <1>16, <1>19, HasStill
<1> QED BY <1>4, <1>14, <1>15, <1>20 DEF l, ReservationAt

\* What a reservation is, and that there is one at most.
LEMMA ReservationFacts ==
  ASSUME NEW v \in Reservations, NEW r \in v
  PROVE  r.key \in Seq(Byte) /\ Len(r.key) = 8 /\ r.type \in Byte /\ r.type \in ValidTypes
         /\ \A s \in v : s = r
<1>1. r.key \in [1..8 -> Byte] /\ r.type \in ValidTypes /\ \A s \in v : s = r
  BY ReservationsAssumption, SMT
<1>2. r.type \in Byte
  BY <1>1 DEF ValidTypes, WriteExclusive, WriteExclusiveRegistrantsOnly, Byte
<1> QED BY <1>1, <1>2, Strings

\* Where the reservation is in the answer to READ RESERVATION.
LEMMA ReservationMade ==
  ASSUME NEW v \in Reservations
  PROVE  ReservationFormat(Bytes([page |-> "reservation", is |-> v]), v)
<1> DEFINE b == Bytes([page |-> "reservation", is |-> v])
<1>1. b = IF v = {} THEN Zeroed(8) ELSE ReservationBytes(CHOOSE r \in v : TRUE)
  BY DEF Bytes
<1> HIDE DEF b
<1>2. CASE v = {}
  <2>1. Zeroed(8) \in Seq(Byte) /\ Len(Zeroed(8)) = 8 /\ \A i \in 1..8 : Zeroed(8)[i] = {}
    BY ZeroedFacts
  <2> DEFINE l == Long(0)
  <2>2. l \in Seq(Byte) /\ Len(l) = 4 /\ \A i \in 1..4 : l[i] = {}
    BY LongFacts, NoLength, Zenon
  <2> HIDE DEF l
  <2>3. ASSUME NEW i \in 1..4 PROVE b[4 + i] = l[i]
    <3>1. 4 + i \in 1..8
      OBVIOUS
    <3> QED BY <1>1, <1>2, <2>1, <2>2, <3>1
  <2>4. Has(b, 4, l)
    BY <1>1, <1>2, <2>1, <2>2, <2>3 DEF Has
  <2>5. b \in Seq(Byte) /\ Len(b) = 8
    BY <1>1, <1>2, <2>1
  <2>6. ReservationFormat(b, v)
    BY <1>2, <2>4, <2>5 DEF ReservationFormat, l
  <2> QED BY <2>6 DEF b
<1>3. CASE v # {}
  <2>1. PICK r \in v : r = CHOOSE s \in v : TRUE
    BY <1>3
  <2>2. /\ r.key \in Seq(Byte) /\ Len(r.key) = 8 /\ r.type \in Byte
        /\ \A s \in v : s = r
    BY ReservationFacts
  <2>3. b = Zeroed(4) \o Long(16) \o r.key \o Zeroed(5) \o <<r.type>> \o Zeroed(2)
    <3>1. b = ReservationBytes(r)
      BY <1>1, <1>3, <2>1
    <3>2. ToBytes(16, 4) = Long(16)
      BY DEF ToBytes, Long
    <3> QED BY <3>1, <3>2 DEF ReservationBytes
  <2>4. ReservationAt(b, r.key, r.type)
    <3> DEFINE key == r.key
               type == r.type
    <3>1. key \in Seq(Byte) /\ Len(key) = 8 /\ type \in Byte
      BY <2>2
    <3>2. ReservationLaid(b, key, type)
      BY <2>3 DEF ReservationLaid
    <3> HIDE DEF key, type
    <3>3. ReservationAt(b, key, type)
      BY <3>1, <3>2, OneReservation, Zenon
    <3> QED BY <3>3 DEF key, type
  <2>5. ReservationFormat(b, v)
    <3>1. b \in Seq(Byte)
      BY <2>4 DEF ReservationAt
    <3> QED BY <1>3, <2>2, <2>4, <3>1 DEF ReservationFormat
  <2> QED BY <2>5 DEF b
<1> QED BY <1>2, <1>3

\* What a target may answer with, on each page.
Content(p, v) ==
  /\ p = "standard" => v \in StandardData
  /\ p = "supported" => v \in PageLists
  /\ p = "serial" => v \in Serials
  /\ p = "deviceId" => v \in IdLists
  /\ p = "luns" => v \in LunLists
  /\ p = "keys" => v \in KeyLists
  /\ p = "reservation" => v \in Reservations
  /\ p \in {"blocks", "capacity", "capacity16"} => v \in Nat

Pages == {"standard", "supported", "serial", "deviceId", "luns", "keys", "reservation",
          "blocks", "capacity", "capacity16"}

\* Every answer of the target is a sequence of bytes.
LEMMA BytesTyped ==
  ASSUME NEW p \in Pages, NEW v, Content(p, v)
  PROVE  Bytes([page |-> p, is |-> v]) \in Seq(Byte)
<1>1. CASE p = "standard"
  BY <1>1, StandardBytes DEF Content, StandardFormat
<1>2. CASE p = "supported"
  BY <1>2, SupportedBytes DEF Content, ListFormat
<1>3. CASE p = "serial"
  BY <1>3, SerialBytes DEF Content, ListFormat
<1>4. CASE p = "deviceId"
  BY <1>4, DeviceIdBytes DEF Content
<1>5. CASE p = "luns"
  BY <1>5, LunsBytes DEF Content, LunsFormat, ElementsFormat
<1>6. CASE p = "keys"
  BY <1>6, KeysBytes DEF Content, KeysFormat, ElementsFormat
<1>7. CASE p = "reservation"
  BY <1>7, ReservationMade DEF Content, ReservationFormat
<1>8. CASE p \in {"blocks", "capacity", "capacity16"}
  <2>1. Bytes([page |-> p, is |-> v]) = [i \in 1..v |-> {0, 1}] /\ v \in Nat
    BY <1>8 DEF Bytes, Content
  <2>2. {0, 1} \in Byte
    BY DEF Byte
  <2>3. [i \in 1..v |-> {0, 1}] \in [1..v -> Byte]
    BY <2>2
  <2>4. [i \in 1..v |-> {0, 1}] \in Seq(Byte)
    BY <2>1, <2>3, AsSequence
  <2> QED BY <2>1, <2>4
<1> QED BY <1>1, <1>2, <1>3, <1>4, <1>5, <1>6, <1>7, <1>8 DEF Pages
=============================================================================
