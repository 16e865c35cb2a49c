----------------------------- MODULE MCRequests -----------------------------
(* Small instances of Requests for TLC.                                    *)
EXTENDS Requests

SomeActions == {{}, {1, 2}}                     \* REGISTER, REGISTER AND IGNORE
SomeTypes == {{0}, {0, 2}, {3}}
Filled(byte, n) == [i \in 1..n |-> byte]
SomeKeys == {Filled(0..7, 8), [i \in 1..8 |-> {i - 1}]}

\* A list that REGISTER AND MOVE accepts, and one that it refuses.
SomeLists == {Filled({0, 7}, 24), Filled({3}, 3)}
SomePortIds == {{0, 9}, 0..15}

\* The default, with room for more, without the flags, and with that of one key.
SomeLengths == {24, 26, 20, 8}
SomeStray == {{1, 6}}

\* Too short for a header, for part of an answer, and enough for all.
SomeSizes == {1, 7, 12, 22, 48}

\* An address of each half of 64 bits, and one of 32.
SomeLbas == {{0, 31}, {7, 8}, {3, 40, 63}}

SomeStandardData ==
  {[qualifier |-> {0}, type |-> {2, 4}, rmb |-> b, version |-> {0, 2},
    vendor |-> Filled({6}, 8), product |-> Filled({5}, 16), rev |-> Filled({4}, 4)]
     : b \in BOOLEAN}

\* Pages 0 to n - 1.
FirstPages(n) == [i \in 1..n |-> Word8(i - 1)]
SomePageLists == {<<Word8(0), Word8(\h80), Word8(\h83)>>, <<>>} \cup
                 {FirstPages(n) : n \in {31, 32, 33}}

SomeSerials == {<<>>, Filled({1}, 4), Filled({2}, 16)}

Descriptor(codeSet, idType, n) ==
  [codeSet |-> codeSet, idType |-> idType, association |-> {0}, piv |-> n = 4,
   id |-> Filled({7}, n)]
First == Descriptor({0}, {0, 1}, 4)
SomeIdLists ==
  {<<>>, <<First>>, <<First, Descriptor({2}, {3}, 2)>>,
   <<Descriptor({1}, {1, 3}, 0), First, First>>}

SomeLunLists == {<<>>, <<0>>, <<0, 258, 7>>, [i \in 1..6 |-> i]}
SomeKeyLists == {<<>>} \cup {<<k>> : k \in SomeKeys} \cup
                {<<k, l>> : k \in SomeKeys, l \in SomeKeys}
SomeReservations ==
  {{}} \cup {{[key |-> k, type |-> t]} : k \in SomeKeys, t \in ValidTypes}
=============================================================================
