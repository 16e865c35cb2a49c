------------------------------ MODULE Requests ------------------------------
(***************************************************************************)
(* Every class of SCSI request: its constructor and setters, its execution *)
(* by iSCSIExecSCSISync against a target, and the getters that read what   *)
(* the target returned.  The two classes of PERSISTENT RESERVE OUT are     *)
(* those of module PersistentReserve.                                      *)
(*                                                                         *)
(* There is one request at a time.  held is a history variable: the        *)
(* information that the target holds and answered with, before it was laid *)
(* out in bytes and cut off at the end of some buffer.  The properties     *)
(* compare what the getters return with it.                                *)
(***************************************************************************)
EXTENDS PersistentReserve, SequencesExt, FiniteSetsExt

CONSTANTS
  Sizes,         \* the sizes that constructors are given
  Lbas,          \* logical block addresses, as words
  StandardData, PageLists, Serials, IdLists,     \* what a target may hold:
  LunLists, KeyLists, Reservations,              \* see Holdings
  BlockLength,   \* bytes in a block of the logical unit
  Throws,        \* what a getter that throws an exception returns
  MaxDescriptors \* a bound on the vector mDescriptors

InquiryKinds == {"inquiry", "supported", "serial", "deviceId"}
InKinds ==
  InquiryKinds \cup {"luns", "read10", "capacity10", "capacity16", "keys", "reservation"}

VARIABLES
  mInBuffer,
  mEvpd,
  executed,      \* mExecuted
  datain,        \* the task's: what was received
  residual,      \* the task's: its type and its count
  mDescriptors,  \* the offsets of the descriptors in the page
  mParsed,
  held,          \* what the target answered with; its page is "none" for nothing
  asked          \* history: the LBA and the length asked for, and if it is a retry

inVars == <<mInBuffer, mEvpd, executed, datain, residual, mDescriptors, mParsed, held, asked>>

Nothing == [page |-> "none", is |-> <<>>]

RequestInit ==
  /\ Init
  /\ mInBuffer = <<>> /\ datain = <<>> /\ residual = [type |-> "none", count |-> 0]
  /\ mEvpd = FALSE /\ executed = FALSE
  /\ mDescriptors = <<>> /\ mParsed = FALSE
  /\ held = Nothing
  /\ asked = [lba |-> {}, length |-> 0, again |-> FALSE]

\* The number that a word stands for.
Value(word) == MapThenSumSet(LAMBDA i : 2^i, word)
Word8(n) == Word(n, 8)
-----------------------------------------------------------------------------
(* Constructors.                                                           *)

Constructed(k, c, size) ==
  /\ kind' = k /\ cdb' = c /\ mInBuffer' = Zeroed(size)
  /\ mEvpd' = (k \in {"supported", "serial", "deviceId"})
  /\ executed' = FALSE /\ datain' = <<>> /\ residual' = [type |-> "none", count |-> 0]
  /\ mDescriptors' = <<>> /\ mParsed' = FALSE
  /\ asked' = [lba |-> {}, length |-> IF k = "capacity16" THEN 0 ELSE size,
                again |-> kind # "none"]
  /\ UNCHANGED <<mOutBuffer, fields, held>>

InquiryCdb(size) == setBufferShort(setBufferByte(Zeroed(6), 0, Word8(\h12)), 3, Word(size, 16))

VpdCdb(page, size) ==
  setBufferByte(setBufferByte(InquiryCdb(size), 1, {0}), 2, Word8(page))

NewInquiry ==
  \/ \E size \in Sizes \cup {36} : Constructed("inquiry", InquiryCdb(size), size)
  \/ Constructed("supported", VpdCdb(0, 36), 36)
  \/ \E size \in Sizes : \/ Constructed("serial", VpdCdb(\h80, 4 + size), 4 + size)
                         \/ Constructed("deviceId", VpdCdb(\h83, 4 + size), 4 + size)

\* Mutant: the allocation length where the standard has its low half.
LunsCdbLow(size) ==
  setBufferShort(setBufferByte(setBufferByte(Zeroed(12), 0, Word8(\hA0)), 2, {1}),
                 8, Word(size, 16))

\* The allocation length is written to the high half of its four bytes.
LunsCdb(size) ==
  setBufferShort(setBufferByte(setBufferByte(Zeroed(12), 0, Word8(\hA0)), 2, {1}),
                 6, Word(size, 16))

NewReportLuns(size) == Constructed("luns", LunsCdb(size), size)

ReadCdb(length) ==
  setBufferShort(setBufferLong(setBufferByte(Zeroed(10), 0, Word8(\h28)), 2, {}),
                 7, Word(length, 16))

\* The buffer has as many bytes as there are blocks to be read.
NewRead10(length) == Constructed("read10", ReadCdb(length), length)

NewReadCapacity ==
  \/ Constructed("capacity10", setBufferByte(Zeroed(10), 0, Word8(\h25)), 8)
  \/ Constructed("capacity16",
                 setBufferByte(setBufferByte(Zeroed(16), 0, Word8(\h9E)), 1, {4}), 16)

PRInCdb(action, size) ==
  setBufferShort(setBufferByte(setBufferByte(Zeroed(10), 0, Word8(\h5E)), 1, Word8(action)),
                 7, Word(size, 16))

NewPersistentReserveIn(size) ==
  \/ Constructed("keys", PRInCdb(0, size), size)
  \/ Constructed("reservation", PRInCdb(1, size), size)

\* TEST UNIT READY, RESERVE and RELEASE
NewNoData == \E op \in {0, \h16, \h17} :
  Constructed("noData", setBufferByte(Zeroed(6), 0, Word8(op)), 0)

NewRequest ==
  /\ kind = "none"
  /\ \/ NewInquiry \/ NewReadCapacity \/ NewNoData
     \/ \E size \in Sizes :
          NewReportLuns(size) \/ NewRead10(size) \/ NewPersistentReserveIn(size)
-----------------------------------------------------------------------------
(* Setters.                                                                *)

SetLBA(lba) ==
  /\ kind \in {"read10", "capacity10", "capacity16"}
  /\ IF kind = "capacity16" THEN cdb' = setBufferLongLong(cdb, 2, lba)
     ELSE lba \subseteq 0..31 /\ cdb' = setBufferLong(cdb, 2, lba)
  /\ asked' = [asked EXCEPT !.lba = lba]
  /\ UNCHANGED <<kind, mOutBuffer, fields, mInBuffer, mEvpd, executed, datain, residual,
                 mDescriptors, mParsed, held>>

SetAllocationLen(n) ==
  /\ kind = "capacity16"
  /\ cdb' = setBufferLong(cdb, 10, Word(n, 32))
  /\ asked' = [asked EXCEPT !.length = n]
  /\ UNCHANGED <<kind, mOutBuffer, fields, mInBuffer, mEvpd, executed, datain, residual,
                 mDescriptors, mParsed, held>>

\* Its effect on the CDB cannot be taken back.
SetEVPD(evpd) ==
  /\ kind \in InquiryKinds
  /\ mEvpd' = evpd
  /\ cdb' = IF evpd THEN setBufferByte(cdb, 1, {0}) ELSE cdb
  /\ UNCHANGED <<kind, mOutBuffer, fields, mInBuffer, executed, datain, residual,
                 mDescriptors, mParsed, held, asked>>

\* The getters do not read mInBuffer but the task's copy.
ResetInBuffer ==
  /\ kind \in InKinds
  /\ mInBuffer' = Zeroed(Len(mInBuffer))
  /\ UNCHANGED <<vars, mEvpd, executed, datain, residual, mDescriptors, mParsed, held, asked>>
-----------------------------------------------------------------------------
(* The target.  What it holds, what a CDB asks of it, and the bytes that   *)
(* it makes of the answer.                                                 *)

VpdPages ==
  [code \in {0, \h80, \h83} |->
     CASE code = 0 -> "supported" [] code = \h80 -> "serial" [] code = \h83 -> "deviceId"]
OtherPages ==
  [opcode \in {\hA0, \h28, \h25, \h9E} |->
     CASE opcode = \hA0 -> "luns" [] opcode = \h28 -> "blocks"
       [] opcode = \h25 -> "capacity" [] opcode = \h9E -> "capacity16"]

PageAsked ==
  LET opcode == Value(cdb[1])
      action == Value(cdb[2])
  IN  CASE opcode = \h12 -> IF 0 \in cdb[2] THEN VpdPages[Value(cdb[3])] ELSE "standard"
        [] opcode = \h5E -> IF action = 0 THEN "keys" ELSE "reservation"
        [] opcode \in DOMAIN OtherPages -> OtherPages[opcode]
        [] OTHER -> "none"

\* The number of bytes that the CDB has room for.
Allocation ==
  LET opcode == Value(cdb[1])
  IN  CASE opcode = \h12 -> Value(GetBufferShort(cdb, 3))
        [] opcode = \hA0 -> Value(GetBufferLong(cdb, 6))
        [] opcode = \h28 -> BlockLength * Value(GetBufferShort(cdb, 7))
        [] opcode = \h25 -> 8
        [] opcode = \h9E -> Value(GetBufferLong(cdb, 10))
        [] opcode = \h5E -> Value(GetBufferShort(cdb, 7))
        [] OTHER -> 0

Holdings ==
  [standard |-> StandardData, supported |-> PageLists, serial |-> Serials,
   deviceId |-> IdLists, luns |-> LunLists, keys |-> KeyLists,
   reservation |-> Reservations, capacity |-> {8}, capacity16 |-> {32},
   blocks |-> {Allocation}]

ToBytes(n, width) == NetworkOrder(Word(n, 8 * width), width)

DescriptorBytes(d) ==
  <<d.codeSet, d.idType \cup Shl(d.association, 4) \cup (IF d.piv THEN {7} ELSE {}), {},
    Word8(Len(d.id))>> \o d.id

\* The descriptors of a page, one after another.
DescriptorList(list) == FlattenSeq([i \in DOMAIN list |-> DescriptorBytes(list[i])])

\* A READ RESERVATION page has at most one reservation.
ReservationBytes(r) ==
  Zeroed(4) \o ToBytes(16, 4) \o r.key \o Zeroed(5) \o <<r.type>> \o Zeroed(2)

Bytes(h) ==
  CASE h.page = "standard" ->
         <<h.is.type \cup Shl(h.is.qualifier, 5), IF h.is.rmb THEN {7} ELSE {}, h.is.version>>
           \o Zeroed(5) \o h.is.vendor \o h.is.product \o h.is.rev
    [] h.page = "supported" -> <<{}, {}, {}, Word8(Len(h.is))>> \o h.is
    [] h.page = "serial" -> <<{}, Word8(\h80), {}, Word8(Len(h.is))>> \o h.is
    [] h.page = "deviceId" ->
         <<{}, Word8(\h83)>> \o ToBytes(Len(DescriptorList(h.is)), 2) \o DescriptorList(h.is)
    [] h.page = "luns" ->
         ToBytes(8 * Len(h.is), 4) \o Zeroed(4) \o
         FlattenSeq([i \in DOMAIN h.is |-> ToBytes(h.is[i], 2) \o Zeroed(6)])
    [] h.page \in {"blocks", "capacity", "capacity16"} -> [i \in 1..h.is |-> {0, 1}]
    [] h.page = "keys" -> Zeroed(4) \o ToBytes(8 * Len(h.is), 4) \o FlattenSeq(h.is)
    [] h.page = "reservation" ->
         IF h.is = {} THEN Zeroed(8) ELSE ReservationBytes(CHOOSE r \in h.is : TRUE)
    [] h.page = "none" -> <<>>

\* What it answers with; to a retry, what it answered with before.
Answers ==
  IF PageAsked = "none" THEN {}
  ELSE IF held.page # "none" THEN {held}
  ELSE {[page |-> PageAsked, is |-> v] : v \in Holdings[PageAsked]}
-----------------------------------------------------------------------------
(* Execution.                                                              *)

\* Mutant: a constructor forgets SetXferDir.
ForgottenDirection(k) == IF k \in InKinds \ {"capacity16", "keys"} THEN "read" ELSE "none"

\* SetXferDir, which the constructor of SCSIReadCapacity16 does not call.
Direction(k) ==
  IF k \in OutKinds THEN "write"
  ELSE IF k \in InKinds \ {"capacity16"} THEN "read" ELSE "none"

\* What is received of h, and what is left.
Receive(h) ==
  LET sent == IF Len(Bytes(h)) < Allocation THEN Len(Bytes(h)) ELSE Allocation
      room == IF Direction(kind) = "read" THEN Len(mInBuffer) ELSE 0
  IN  /\ datain' = SubSeq(Bytes(h), 1, IF sent < room THEN sent ELSE room)
      /\ residual' = CASE sent < room -> [type |-> "underflow", count |-> room - sent]
                       [] sent = room -> [type |-> "none", count |-> 0]
                       [] sent > room -> [type |-> "overflow", count |-> sent - room]
      /\ held' = h

\* memcpy of the smaller of the two sizes.
Copied(from, to) ==
  LET n == IF Len(from) < Len(to) THEN Len(from) ELSE Len(to)
  IN  SubSeq(from, 1, n) \o SubSeq(to, n + 1, Len(to))

\* The target answers, or reports a condition and sends nothing.
Execute ==
  /\ kind # "none" /\ ~executed
  /\ Receive(Nothing) \/ \E h \in Answers : Receive(h)
  /\ mInBuffer' = Copied(datain', mInBuffer)
  /\ executed' = TRUE
  /\ UNCHANGED <<vars, mEvpd, mDescriptors, mParsed, asked>>
-----------------------------------------------------------------------------
(* Getters.  Each throws if what it reads was not received.                *)

Readable(offset, n) == datain # <<>> /\ offset + n <= Len(datain)

StringAt(offset, n) ==
  IF Readable(offset, n) THEN GetBufferString(datain, offset, n) ELSE Throws

BitsAt(offset, startBit, n) ==
  IF Readable(offset, 1) THEN GetBufferBitArray(datain, offset, startBit, n) ELSE Throws

ByteAt(offset) == Value(datain[offset + 1])
ShortAt(offset) == Value(GetBufferShort(datain, offset))
LongAt(offset) == Value(GetBufferLong(datain, offset))

\* Mutant: the test of mEvpd is forgotten.
UntestedString(offset, n) == StringAt(offset, n)

\* GetT10VendorID, GetProductID and GetProductRev
StandardString(offset, n) == IF mEvpd THEN Throws ELSE StringAt(offset, n)

GetUnitSerialNum == IF Readable(3, 1) THEN StringAt(4, ByteAt(3)) ELSE Throws

\* Mutant: the residual is not looked at.
FullPageCount == 32

\* Of unsigned int: mPageCount - GetResidual() does not go below 0, because the
\* allocation length is the size of the buffer and nothing overflows it.
PageCount ==
  IF residual.type = "underflow" THEN IF Readable(3, 1) THEN ByteAt(3) ELSE Throws
  ELSE 32 - residual.count

HasPage(page) ==
  IF PageCount = Throws THEN Throws
  ELSE IF \E i \in 0..(PageCount - 1) : Readable(4 + i, 1) /\ ByteAt(4 + i) = page
       THEN TRUE
       ELSE IF Readable(4, PageCount) \/ PageCount = 0 THEN FALSE ELSE Throws

\* SCSIDeviceID, at an offset of the page.
GetCodeSet(offset) ==
  LET set == BitsAt(offset, 0, 4)
  IN  IF set = Throws \/ set \in {{0}, {1}, {0, 1}} THEN set ELSE {}

GetIDType(offset) ==
  LET type == BitsAt(offset + 1, 0, 4)
  IN  IF type = Throws \/ type \subseteq 0..2 \/ type = {3} THEN type ELSE {0, 3}

GetAssociation(offset) == BitsAt(offset + 1, 4, 2)
GetPIV(offset) == BitsAt(offset + 1, 7, 1)

GetID(offset) ==
  IF Readable(offset + 3, 1) THEN StringAt(offset + 4, ByteAt(offset + 3)) ELSE Throws

GetLunCount == IF Readable(0, 4) THEN LongAt(0) \div 8 ELSE Throws
GetLun(n) == IF Readable(8 * (n + 1), 2) THEN ShortAt(8 * (n + 1)) ELSE Throws

GetKeyCount == IF Readable(4, 4) THEN (LongAt(4) + 1) \div 8 ELSE Throws
\* Mutant: the header is not skipped.
KeyWithoutHeader(n) == StringAt(n * 8, 8)

GetKey(n) == StringAt((n + 1) * 8, 8)

\* Mutant: the key is read without looking if there is one.
ReservationUntested == StringAt(8, 8)

GetReservation ==
  IF ~Readable(4, 4) THEN Throws ELSE IF LongAt(4) = 0 THEN <<>> ELSE StringAt(8, 8)

WriteExclusive == {0}                           \* 1
WriteExclusiveRegistrantsOnly == {0, 2}         \* 5
\* and 3, 6, 7 and 8
ValidTypes ==
  {WriteExclusive, WriteExclusiveRegistrantsOnly, {0, 1}, {1, 2}, {0, 1, 2}, {3}}

GetReservationType ==
  IF ~Readable(4, 4) \/ LongAt(4) = 0 THEN Throws
  ELSE LET type == BitsAt(21, 0, 4)
       IN  CASE type = WriteExclusiveRegistrantsOnly -> WriteExclusive
             [] type \in ValidTypes \ {WriteExclusiveRegistrantsOnly} -> type
             [] OTHER -> Throws
-----------------------------------------------------------------------------
(* The actions of a caller that has an answer.                             *)

\* The offsets of the descriptors from one on, and if the walk along them came
\* to the end of the page.
Walk ==
  LET end == ShortAt(2) + 4
      walk[offset \in Nat] ==
        IF offset >= end THEN [found |-> <<>>, whole |-> TRUE]
        ELSE IF ~Readable(offset + 3, 1) THEN [found |-> <<>>, whole |-> FALSE]
        ELSE LET rest == walk[offset + ByteAt(offset + 3) + 4]
             IN  [rest EXCEPT !.found = <<offset>> \o @]
  IN  walk[4]

\* Mutant: mParsed is set before the walk, which may throw.
ParsedTooSoon ==
  /\ kind = "deviceId" /\ ~mParsed /\ Readable(2, 2)
  /\ Len(mDescriptors) <= MaxDescriptors
  /\ mDescriptors' = mDescriptors \o Walk.found
  /\ mParsed' = TRUE
  /\ UNCHANGED <<vars, mInBuffer, mEvpd, executed, datain, residual, held, asked>>

\* A walk that throws leaves what it found, and the next one starts again.
GetDescriptorCount ==
  /\ kind = "deviceId" /\ ~mParsed /\ Readable(2, 2)
  /\ Len(mDescriptors) <= MaxDescriptors
  /\ mDescriptors' = mDescriptors \o Walk.found
  /\ mParsed' = Walk.whole
  /\ UNCHANGED <<vars, mInBuffer, mEvpd, executed, datain, residual, held, asked>>

\* The program of the examples: a new request with room for all.  The number of
\* LUNs has been printed.
RetryReportLuns ==
  /\ kind = "luns" /\ executed /\ ~asked.again
  /\ GetLunCount # Throws
  /\ residual.type = "overflow"
  /\ NewReportLuns(Len(datain) + residual.count)

\* ~SCSIRequest frees the task; the buffers go with the last that has them.
Destroy ==
  /\ kind # "none" /\ kind' = "none"
  /\ cdb' = Zeroed(10) /\ mOutBuffer' = <<>> /\ fields' = NoFields
  /\ mInBuffer' = <<>> /\ datain' = <<>> /\ residual' = [type |-> "none", count |-> 0]
  /\ mEvpd' = FALSE /\ executed' = FALSE
  /\ mDescriptors' = <<>> /\ mParsed' = FALSE
  /\ held' = Nothing
  /\ asked' = [lba |-> {}, length |-> 0, again |-> FALSE]

RequestNext ==
  \/ Next /\ UNCHANGED inVars
  \/ NewRequest
  \/ \E lba \in Lbas : SetLBA(lba)
  \/ \E n \in Sizes : SetAllocationLen(n)
  \/ \E b \in BOOLEAN : SetEVPD(b)
  \/ ResetInBuffer
  \/ Execute
  \/ GetDescriptorCount
  \/ RetryReportLuns
  \/ Destroy

RequestSpec == RequestInit /\ [][RequestNext]_<<vars, inVars>>
-----------------------------------------------------------------------------
\* A size has a field of 16 bits in the CDB, also with the header of a VPD page.
ASSUME SizesAssumption ==
  /\ \A n \in Sizes : n \in Nat /\ 0 < n /\ 4 + n <= 65535
  /\ BlockLength \in Nat \ {0}

\* A target has what the standard lets it have, and its list of LUNs with the header
\* is within reach of a request for all of it.
ASSUME StandardAssumption ==
  StandardData \subseteq
    [qualifier : SUBSET (0..2), type : SUBSET (0..4), rmb : BOOLEAN, version : Byte,
     vendor : [1..8 -> Byte], product : [1..16 -> Byte], rev : [1..4 -> Byte]]

ASSUME ListsAssumption ==
  \A list \in PageLists \cup Serials : list \in Seq(Byte) /\ Len(list) <= 255

ASSUME LunsAssumption ==
  \A list \in LunLists :
    /\ list \in Seq(Nat) /\ \A i \in 1..Len(list) : list[i] <= 65535
    /\ 8 + 8 * Len(list) <= 65535

ASSUME KeysAssumption ==
  \A list \in KeyLists : list \in Seq([1..8 -> Byte]) /\ 8 * Len(list) <= 2147483647

ASSUME IdsAssumption ==
  IdLists \subseteq
    Seq([codeSet : SUBSET (0..3), idType : SUBSET (0..3), association : SUBSET (0..1),
         piv : BOOLEAN, id : Seq(Byte)])

\* The length of an ID has one byte in the page, that of the list two.
ASSUME IdLengthsAssumption ==
  \A list \in IdLists : /\ \A i \in 1..Len(list) : Len(list[i].id) <= 255
                        /\ Len(DescriptorList(list)) <= 65535

ASSUME ReservationsAssumption ==
  \A reported \in Reservations :
    /\ reported \subseteq [key : [1..8 -> Byte], type : ValidTypes]
    /\ \A r, s \in reported : r = s

\* An exception is not taken for a value.
ASSUME ThrowsAssumption ==
  Throws \notin Nat \cup Seq(Byte) /\ \A byte \in Byte : byte # Throws
-----------------------------------------------------------------------------
(* Properties.                                                             *)

\* The variables have their types; in particular libiscsi receives no more than the
\* buffer that iSCSIExecSCSISync has the answer copied to, which is what it told it
\* to expect (line 804), and a request keeps the header it was constructed with.
RequestTypeOK ==
  /\ PRTypeOK
  /\ kind \in {"none", "noData"} \cup OutKinds \cup InKinds
  /\ kind \in InKinds => cdb \in Seq(Byte) /\ Len(cdb) \in {6, 10, 12, 16}
  /\ mInBuffer \in Seq(Byte) /\ datain \in Seq(Byte) /\ Len(datain) <= Len(mInBuffer)
  /\ mEvpd \in BOOLEAN /\ executed \in BOOLEAN /\ mParsed \in BOOLEAN
  /\ residual.type \in {"none", "overflow", "underflow"} /\ residual.count \in Nat
  /\ mDescriptors \in Seq(Nat)

\* The information in an answer of the page p that the request has had.
Answered(p) == executed /\ held.page = p

\* setCdbLong and setCdbLongLong: whatever setters were called in whatever order,
\* the target reads from the CDB the address and the length last asked for, and
\* no other byte of it is touched.
CdbIntact ==
  /\ kind = "read10" =>
       cdb = <<Word8(\h28), {}>> \o NetworkOrder(asked.lba, 4) \o <<{}>>
               \o ToBytes(asked.length, 2) \o <<{}>>
  /\ kind = "capacity10" =>
       cdb = <<Word8(\h25), {}>> \o NetworkOrder(asked.lba, 4) \o Zeroed(4)
  /\ kind = "capacity16" =>
       cdb = <<Word8(\h9E), Word8(\h10)>> \o NetworkOrder(asked.lba, 8)
               \o ToBytes(asked.length, 4) \o Zeroed(2)

\* iSCSIExecSCSISync and the constructors: what a target answers arrives, as much
\* of it as the request's buffer has room for, in the buffer (until the caller
\* resets it) and for the getters; the length in the CDB does not cut it shorter,
\* and the residual that the getters rely on says how much of the buffer it left.
\* SCSIReadCapacity16, which declares no direction and receives nothing, is left out.
AnswerArrives ==
  executed /\ held.page # "none" /\ kind # "capacity16" =>
    /\ IsPrefix(datain, Bytes(held))
    /\ Len(datain) = Len(Bytes(held)) \/ Len(datain) = Len(mInBuffer)
    /\ IsPrefix(datain, mInBuffer) \/ mInBuffer = Zeroed(Len(mInBuffer))
    /\ residual.type = "underflow" <=> Len(datain) < Len(mInBuffer)
    /\ residual.type = "underflow" => residual.count = Len(mInBuffer) - Len(datain)

\* SCSIPersistentReserveOut: the parameter list length that a target reads from
\* the CDB is the size of the buffer that iSCSIExecSCSISync sends, whatever list
\* it was replaced for, up to the 65535 bytes that the field has room for (of a
\* larger one lines 31 and 65 keep the low 16 bits).
LengthsAgree ==
  kind \in OutKinds /\ Len(mOutBuffer) <= 65535 =>
    Value(GetBufferShort(cdb, 7)) = Len(mOutBuffer)

\* SCSIInquiry: each getter returns what the target holds, or throws because it
\* was cut off or because another page was asked for.  A caller that has taken
\* back SetEVPD(true) is left out: the CDB still asks for the page.
InquiryTruthful ==
  /\ Answered("standard") /\ ~mEvpd =>
       /\ \A f \in {<<"vendor", 8, 8>>, <<"product", 16, 16>>, <<"rev", 32, 4>>} :
            StandardString(f[2], f[3]) =
              IF Len(datain) >= f[2] + f[3] THEN held.is[f[1]] ELSE Throws
       /\ BitsAt(0, 5, 3) \in {held.is.qualifier, Throws}
       /\ BitsAt(0, 0, 5) \in {held.is.type, Throws}
       /\ Readable(1, 1) => (BitsAt(1, 7, 1) # {} <=> held.is.rmb)
  /\ mEvpd => \A o \in {8, 16, 32} : StandardString(o, 4) = Throws
  /\ Answered("serial") =>
       GetUnitSerialNum = IF Len(datain) = Len(Bytes(held)) THEN held.is ELSE Throws

\* SCSIInquirySupportedVPDPages::HasPage: the count it works out from the residual
\* is right, whether the list is shorter than the buffer, fills it or was cut off
\* at its end: it knows each of the first 32 pages, no other, and does not throw.
PagesFound ==
  Answered("supported") /\ kind = "supported" =>
    \A page \in 0..255 :
      HasPage(page) = (\E i \in DOMAIN held.is : i <= 32 /\ held.is[i] = Word8(page))

\* Where the descriptors of a list are: each is after those before it.
OffsetsOf(list) ==
  [i \in DOMAIN list |-> 4 + Len(DescriptorList(SubSeq(list, 1, i - 1)))]

\* SCSIInquiryDeviceIdVPDPage: a SCSIDeviceID, also one that was left behind by a
\* call of GetDescriptorCount that threw, is at a descriptor of the page and reads
\* as that descriptor or throws; once a count is returned it is that of the page.
DescriptorsRight ==
  Answered("deviceId") =>
    /\ mParsed => mDescriptors = OffsetsOf(held.is)
    /\ \A i \in DOMAIN mDescriptors : \E j \in DOMAIN held.is :
         LET o == mDescriptors[i]
             d == held.is[j]
         IN  /\ o = OffsetsOf(held.is)[j]
             /\ GetCodeSet(o) = IF d.codeSet \in {{0}, {1}, {0, 1}} THEN d.codeSet ELSE {}
             /\ GetIDType(o) = IF Value(d.idType) <= 8 THEN d.idType ELSE {0, 3}
             /\ GetAssociation(o) = d.association
             /\ GetPIV(o) = IF d.piv THEN {0} ELSE {}
             /\ GetID(o) \in {d.id, Throws}

\* SCSIReportLuns and the example (simple_example.cpp 305-321): a list that did not
\* fit is reported as an overflow, the second request has room for all of it, and
\* without an overflow every LUN can be read.
LunsComplete ==
  Answered("luns") =>
    /\ asked.again => residual.type # "overflow"
    /\ residual.type # "overflow" =>
         /\ GetLunCount = Len(held.is)
         /\ \A i \in DOMAIN held.is : GetLun(i - 1) = held.is[i]

\* SCSIPersistentReserveInReadKeys: the count is that of the keys registered, also
\* if not all of them were received, and then the others throw.
KeysRead ==
  Answered("keys") =>
    /\ GetKeyCount = IF Len(datain) >= 8 THEN Len(held.is) ELSE Throws
    /\ \A i \in DOMAIN held.is :
         GetKey(i - 1) = IF Len(datain) >= 8 * (i + 1) THEN held.is[i] ELSE Throws

\* SCSIPersistentReserveInReadReservation: no reservation reads as the empty key
\* and has no type; a reservation reads as its own key and, but for the one type
\* that TypeReadsBack is about, as its own type, or throws if it was cut off.
ReservationRead ==
  Answered("reservation") =>
    /\ held.is = {} => /\ GetReservation = IF Len(datain) >= 8 THEN <<>> ELSE Throws
                       /\ GetReservationType = Throws
    /\ \A r \in held.is :
         /\ GetReservation \in {r.key, Throws}
         /\ r.type # WriteExclusiveRegistrantsOnly => GetReservationType \in {r.type, Throws}
         /\ Len(datain) >= 22 => GetReservation # Throws /\ GetReservationType # Throws

\* SCSIPersistentReserveInReadReservation::GetReservationType: every type of
\* reservation that a target may report is reported as that type.
TypeReadsBack ==
  Answered("reservation") /\ Len(datain) >= 22 =>
    \A r \in held.is : GetReservationType = r.type
=============================================================================
