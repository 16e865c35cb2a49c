---------------------------- MODULE AnswersProofs ----------------------------
(***************************************************************************)
(* What module Requests says of the answers, and of what the getters make  *)
(* of them, holds for every size, address and answer that its assumptions  *)
(* allow.                                                                  *)
(*                                                                         *)
(* AnswersInv is the invariant of the answer, the buffer and the residual, *)
(* with a lemma for each action; what each getter returns follows from it  *)
(* and from the formats of the pages.  Last is the walk along the          *)
(* descriptors of a page, with the invariant DescriptorInv of the vector   *)
(* that it fills, and the type invariant, which all the invariants         *)
(* together make up.                                                       *)
(***************************************************************************)
EXTENDS FormatsProofs

\* A size that a constructor may be given for its class.
SizeOf(k, size) ==
  /\ k \in Classes /\ size \in Nat
  /\ k \notin InKinds => size = 0
  /\ k \in InKinds \ {"capacity16"} => Fits16(size) /\ 0 < size
  /\ k = "capacity16" => size = 16
  /\ k = "supported" => size = 36
  /\ k = "capacity10" => size = 8

\* A constructor leaves a request with the sizes it was given.
LEMMA SizesConstructed ==
  ASSUME NEW k, NEW c, NEW size, SizeOf(k, size), Constructed(k, c, size)
  PROVE  SizesInv'
<1>1. /\ kind' = k /\ mInBuffer' = Zeroed(size)
      /\ asked'.length = IF k = "capacity16" THEN 0 ELSE size
  BY DEF Constructed
<1>2. Zeroed(size) \in Seq(Byte) /\ Len(Zeroed(size)) = size
  BY ZeroedFacts DEF SizeOf
<1>3. size = 0 => Zeroed(size) = <<>>
  BY <1>2
<1>4. Fits16(0)
  BY SMT DEF Fits16
<1> QED BY <1>1, <1>2, <1>3, <1>4, ClassFacts DEF SizeOf, SizesInv

\* The sizes that the caller may choose fit in their field.
LEMMA SizesFit ==
  /\ \A n \in Sizes : n \in Nat /\ Fits16(n) /\ 0 < n /\ Fits16(4 + n) /\ 0 < 4 + n
  /\ Fits16(0) /\ Fits16(8) /\ Fits16(36)
BY SizesAssumption, SMT DEF Fits16

\* SizesInv holds after every constructor.
LEMMA SizesNewHolds == ASSUME NewRequest PROVE SizesInv'
<1>1. CASE NewInquiry
  <2>1. ASSUME NEW size \in Sizes \cup {36}, Constructed("inquiry", InquiryCdb(size), size)
        PROVE  SizesInv'
    BY <2>1, SizesFit, SizesConstructed, ClassFacts DEF SizeOf, Classes
  <2>2. ASSUME Constructed("supported", VpdCdb(0, 36), 36) PROVE SizesInv'
    BY <2>2, SizesFit, SizesConstructed, ClassFacts DEF SizeOf, Classes
  <2>3. ASSUME NEW size \in Sizes, Constructed("serial", VpdCdb(128, 4 + size), 4 + size)
        PROVE  SizesInv'
    BY <2>3, SizesFit, SizesConstructed, ClassFacts DEF SizeOf, Classes
  <2>4. ASSUME NEW size \in Sizes, Constructed("deviceId", VpdCdb(131, 4 + size), 4 + size)
        PROVE  SizesInv'
    BY <2>4, SizesFit, SizesConstructed, ClassFacts DEF SizeOf, Classes
  <2> QED BY <1>1, <2>1, <2>2, <2>3, <2>4 DEF NewInquiry
<1>2. CASE NewReadCapacity
  <2>1. ASSUME NEW c, Constructed("capacity10", c, 8) PROVE SizesInv'
    BY <2>1, SizesFit, SizesConstructed, ClassFacts DEF SizeOf, Classes
  <2>2. ASSUME NEW c, Constructed("capacity16", c, 16) PROVE SizesInv'
    BY <2>2, SizesConstructed, ClassFacts DEF SizeOf, Classes
  <2> QED BY <1>2, <2>1, <2>2 DEF NewReadCapacity
<1>3. CASE NewNoData
  <2>1. PICK c : Constructed("noData", c, 0)
    BY <1>3 DEF NewNoData
  <2> QED BY <2>1, SizesConstructed, ClassFacts DEF SizeOf, Classes
<1>4. ASSUME NEW size \in Sizes, NewReportLuns(size) PROVE SizesInv'
  BY <1>4, SizesFit, SizesConstructed, ClassFacts DEF SizeOf, Classes, NewReportLuns
<1>5. ASSUME NEW size \in Sizes, NewRead10(size) PROVE SizesInv'
  BY <1>5, SizesFit, SizesConstructed, ClassFacts DEF SizeOf, Classes, NewRead10
<1>6. ASSUME NEW size \in Sizes, NewPersistentReserveIn(size) PROVE SizesInv'
  <2>1. PICK k, c : k \in {"keys", "reservation"} /\ Constructed(k, c, size)
    BY <1>6 DEF NewPersistentReserveIn
  <2> QED BY <2>1, SizesFit, SizesConstructed, ClassFacts DEF SizeOf, Classes
<1> QED BY <1>1, <1>2, <1>3, <1>4, <1>5, <1>6 DEF NewRequest

\* What is received.
First(a, b) == IF a < b THEN a ELSE b

\* What the program holds of the last answer: which page it may be, ...
HeldInv ==
  /\ asked.again \in BOOLEAN /\ executed \in BOOLEAN
  /\ held # Nothing => /\ held = [page |-> held.page, is |-> held.is]
                       /\ held.page \in PagesOf(kind) /\ held.page \in Pages
                       /\ Content(held.page, held.is)
  /\ asked.again => kind = "luns"
  /\ ~executed => (held # Nothing <=> asked.again = TRUE)
  /\ asked.again /\ held # Nothing => asked.length = Len(Bytes(held))

\* ... how much of it was received, and what is said to be left, ...
Arrived(left, sent, room) ==
  /\ sent < room => left = [type |-> "underflow", count |-> room - sent]
  /\ sent = room => left = [type |-> "none", count |-> 0]
  /\ sent > room => /\ left.type \in {"none", "overflow"} /\ left.count \in Nat
                    /\ kind = "luns" => left = [type |-> "overflow", count |-> sent - room]
                    /\ kind \in Measured => left = [type |-> "none", count |-> 0]

ReceivedInv ==
  /\ datain \in Seq(Byte)
  /\ ~executed => datain = <<>> /\ residual = [type |-> "none", count |-> 0]
  /\ executed =>
       /\ kind # "none"
       /\ Len(datain) = First(Len(Bytes(held)), Room)
       /\ \A i \in 1..Len(datain) : datain[i] = Bytes(held)[i]
       /\ Arrived(residual, Len(Bytes(held)), Room)

\* ... and where it is.
BufferInv ==
  /\ kind \in InKinds => Len(datain) <= Len(mInBuffer)
  /\ executed /\ kind \in InKinds =>
       \/ \A i \in 1..Len(datain) : mInBuffer[i] = datain[i]
       \/ mInBuffer = Zeroed(Len(mInBuffer))

AnswersInv == SizesInv /\ HeldInv /\ ReceivedInv /\ BufferInv

\* A target that has nothing sends nothing.
LEMMA NothingFacts ==
  /\ Nothing = [page |-> "none", is |-> <<>>] /\ Nothing.page = "none"
  /\ Bytes(Nothing) = <<>> /\ Len(Bytes(Nothing)) = 0 /\ Bytes(Nothing) \in Seq(Byte)
<1>1. Nothing.page = "none"
  BY DEF Nothing
<1>2. Bytes(Nothing) = <<>>
  BY <1>1 DEF Bytes
<1> QED BY <1>1, <1>2 DEF Nothing

\* AnswersInv holds of the initial states.
LEMMA AnswersInitHolds == ASSUME RequestInit PROVE AnswersInv
<1>1. /\ kind = "none" /\ mInBuffer = <<>> /\ datain = <<>> /\ held = Nothing
      /\ executed = FALSE /\ asked.again = FALSE /\ residual = [type |-> "none", count |-> 0]
  BY DEF RequestInit, Init
<1>2. SizesInv
  BY <1>1, ClassFacts DEF SizesInv, Classes
<1>3. HeldInv
  BY <1>1 DEF HeldInv
<1>4. ReceivedInv
  BY <1>1 DEF ReceivedInv
<1>5. BufferInv
  BY <1>1, ClassFacts DEF BufferInv
<1> QED BY <1>2, <1>3, <1>4, <1>5 DEF AnswersInv

\* A class that has no page has had no answer.
LEMMA NoPage ==
  ASSUME HeldInv, kind \in OutKinds \cup {"none"}
  PROVE  held = Nothing /\ asked.again = FALSE
<1>1. PagesOf(kind) = {} /\ kind # "luns"
  BY ClassFacts DEF PagesOf
<1> QED BY <1>1 DEF HeldInv

\* The steps of the requests of PERSISTENT RESERVE OUT.
LEMMA AnswersOutHolds ==
  ASSUME PRInv, CdbInv, AnswersInv, Next, UNCHANGED inVars
  PROVE  AnswersInv'
<1>1. kind \in OutKinds \cup {"none"}
  BY DEF Next, New, NewRegisterAndMove, SetReservationType, SetReservationKey,
         SetServiceActionReservationKey, SetFlag, SetRelativeTargetPortId,
         SetTransportIdList, ResetOutBuffer, OutKinds
<1>2. kind' \in OutKinds
  BY CdbOutHolds
<1>3. held = Nothing /\ asked.again = FALSE /\ mInBuffer = <<>>
  BY <1>1, NoPage, ClassFacts DEF AnswersInv, SizesInv
<1>4. /\ held' = held /\ asked' = asked /\ mInBuffer' = mInBuffer /\ executed' = executed
      /\ datain' = datain /\ residual' = residual
  BY DEF inVars
<1>5. SizesInv'
  BY <1>2, <1>3, <1>4, ClassFacts DEF SizesInv, Classes
<1>6. HeldInv'
  BY <1>3, <1>4 DEF AnswersInv, HeldInv
<1>7. ReceivedInv'
  <2>1. Room = 0 /\ Room' = 0
    BY <1>1, <1>2, ClassFacts DEF Room
  <2>2. kind' # "none"
    BY <1>2, ClassFacts
  <2>3. /\ datain \in Seq(Byte)
        /\ ~executed => datain = <<>> /\ residual = [type |-> "none", count |-> 0]
    BY DEF AnswersInv, ReceivedInv
  <2>4. executed => /\ Len(datain) = First(0, 0)
                    /\ residual = [type |-> "none", count |-> 0]
    BY <1>3, <2>1, NothingFacts DEF AnswersInv, ReceivedInv, Arrived
  <2>5. First(0, 0) = 0
    BY DEF First
  <2> QED BY <1>3, <1>4, <2>1, <2>2, <2>3, <2>4, <2>5, NothingFacts DEF ReceivedInv, Arrived
<1>8. BufferInv'
  BY <1>2, ClassFacts DEF BufferInv
<1> QED BY <1>5, <1>6, <1>7, <1>8 DEF AnswersInv

\* A new request.
LEMMA AnswersNewHolds == ASSUME AnswersInv, NewRequest PROVE AnswersInv'
<1>1. kind = "none" /\ HeldInv
  BY DEF NewRequest, AnswersInv
<1>2. SizesInv'
  BY SizesNewHolds
<1>3. PICK k, c, size : Constructed(k, c, size)
  BY DEF NewRequest, NewInquiry, NewReadCapacity, NewNoData, NewReportLuns, NewRead10,
         NewPersistentReserveIn
<1>4. held' = Nothing /\ asked'.again = FALSE /\ executed' = FALSE /\ datain' = <<>>
      /\ residual' = [type |-> "none", count |-> 0]
  BY <1>1, <1>3, NoPage DEF Constructed
<1>5. HeldInv'
  BY <1>4 DEF HeldInv
<1>6. ReceivedInv'
  BY <1>4 DEF ReceivedInv
<1>7. BufferInv'
  <2>1. Len(mInBuffer') \in Nat /\ Len(<<>>) = 0
    BY <1>2 DEF SizesInv
  <2> QED BY <1>4, <2>1 DEF BufferInv
<1> QED BY <1>2, <1>5, <1>6, <1>7 DEF AnswersInv

\* AnswersInv is kept by the setters of the CDB.
LEMMA AnswersSetHolds ==
  ASSUME CdbInv, AnswersInv, \/ \E lba \in Lbas : SetLBA(lba)
                             \/ \E n \in Sizes : SetAllocationLen(n)
                             \/ \E b \in BOOLEAN : SetEVPD(b)
  PROVE  AnswersInv'
<1>1. /\ kind' = kind /\ mInBuffer' = mInBuffer /\ held' = held /\ executed' = executed
      /\ datain' = datain /\ residual' = residual
  BY DEF SetLBA, SetAllocationLen, SetEVPD
<1>2. /\ asked'.again = asked.again
      /\ asked'.length = asked.length \/ (kind = "capacity16" /\ asked'.length \in Sizes)
  BY DEF SetLBA, SetAllocationLen, SetEVPD, CdbInv
<1>3. SizesInv'
  BY <1>1, <1>2, SizesFit, ClassFacts DEF AnswersInv, SizesInv
<1>4. HeldInv'
  <2>1. asked.again => asked'.length = asked.length
    BY <1>2 DEF AnswersInv, HeldInv
  <2> QED BY <1>1, <1>2, <2>1 DEF AnswersInv, HeldInv
<1>5. Room' = Room
  BY <1>1 DEF Room
<1>6. ReceivedInv'
  BY <1>1, <1>5 DEF AnswersInv, ReceivedInv, Arrived
<1>7. BufferInv'
  BY <1>1 DEF AnswersInv, BufferInv
<1> QED BY <1>3, <1>4, <1>6, <1>7 DEF AnswersInv

\* AnswersInv is kept by ResetInBuffer, which the program may call at any time.
LEMMA AnswersResetHolds == ASSUME AnswersInv, ResetInBuffer PROVE AnswersInv'
<1>1. /\ kind' = kind /\ held' = held /\ executed' = executed
      /\ datain' = datain /\ residual' = residual /\ asked' = asked
      /\ mInBuffer' = Zeroed(Len(mInBuffer)) /\ kind \in InKinds
  BY DEF ResetInBuffer, vars
<1>2. mInBuffer' \in Seq(Byte) /\ Len(mInBuffer') = Len(mInBuffer)
  <2>1. Len(mInBuffer) \in Nat
    BY DEF AnswersInv, SizesInv
  <2> QED BY <1>1, <2>1, ZeroedFacts
<1>3. SizesInv'
  BY <1>1, <1>2 DEF AnswersInv, SizesInv
<1>4. HeldInv'
  BY <1>1 DEF AnswersInv, HeldInv
<1>5. Room' = Room
  BY <1>1, <1>2 DEF Room
<1>6. ReceivedInv'
  BY <1>1, <1>5 DEF AnswersInv, ReceivedInv, Arrived
<1>7. BufferInv'
  BY <1>1, <1>2 DEF AnswersInv, BufferInv
<1> QED BY <1>3, <1>4, <1>6, <1>7 DEF AnswersInv

\* AnswersInv holds when there is no request.
LEMMA AnswersDestroyHolds == ASSUME Destroy PROVE AnswersInv'
<1>1. /\ kind' = "none" /\ mInBuffer' = <<>> /\ datain' = <<>> /\ held' = Nothing
      /\ executed' = FALSE /\ asked'.again = FALSE
      /\ residual' = [type |-> "none", count |-> 0]
  BY DEF Destroy
<1>2. SizesInv'
  BY <1>1, ClassFacts DEF SizesInv, Classes
<1>3. HeldInv'
  BY <1>1 DEF HeldInv
<1>4. ReceivedInv'
  BY <1>1 DEF ReceivedInv
<1>5. BufferInv'
  BY <1>1, ClassFacts DEF BufferInv
<1> QED BY <1>2, <1>3, <1>4, <1>5 DEF AnswersInv

\* The bytes of any answer are bytes.
LEMMA HeldTyped ==
  ASSUME NEW h, h # Nothing => /\ h = [page |-> h.page, is |-> h.is]
                               /\ h.page \in Pages /\ Content(h.page, h.is)
  PROVE  Bytes(h) \in Seq(Byte) /\ Len(Bytes(h)) \in Nat
<1>1. CASE h = Nothing
  BY <1>1, NothingFacts
<1>2. CASE h # Nothing
  <2> DEFINE p == h.page
             v == h.is
  <2>1. p \in Pages /\ Content(p, v) /\ h = [page |-> p, is |-> v]
    BY <1>2
  <2> HIDE DEF p, v
  <2>2. Bytes([page |-> p, is |-> v]) \in Seq(Byte)
    BY <2>1, BytesTyped
  <2> QED BY <2>1, <2>2
<1> QED BY <1>1, <1>2

\* What is in an answer, by the kind of request.
LEMMA HoldingFacts ==
  ASSUME NEW v, NEW p \in Pages, v \in Holdings[p], Allocation \in Nat
  PROVE  Content(p, v)
<1>1. CASE p \in {"standard", "supported", "serial", "deviceId", "luns", "keys", "reservation"}
  BY <1>1 DEF Holdings, Content
<1>2. CASE p \in {"blocks", "capacity", "capacity16"}
  BY <1>2 DEF Holdings, Content
<1> QED BY <1>1, <1>2 DEF Pages

\* What an answer of the target is: of the page that the request asks for.
LEMMA AnswerFacts ==
  ASSUME CdbInv, SizesInv, HeldInv, kind # "none", NEW h \in Answers
  PROVE  /\ h # Nothing /\ h = [page |-> h.page, is |-> h.is]
         /\ h.page \in PagesOf(kind) /\ h.page \in Pages /\ Content(h.page, h.is)
         /\ held # Nothing => h = held
<1>1. PageAsked # "none" /\ kind \in InKinds
  BY OtherPage, ClassFacts DEF Answers, SizesInv, Classes
<1>2. PageAsked \in PagesOf(kind)
  BY <1>1, InquiryPage, OtherPage, ClassFacts
<1>3. PageAsked \in Pages
  BY <1>1, <1>2, ClassFacts DEF PagesOf, Pages
<1>4. "none" \notin Pages
  BY DEF Pages
<1>5. CASE held # Nothing
  <2>1. held.page # "none"
    BY <1>4, <1>5 DEF HeldInv
  <2>2. h = held
    BY <1>1, <2>1 DEF Answers
  <2> QED BY <1>5, <2>2 DEF HeldInv
<1>6. CASE held = Nothing
  <2>1. held.page = "none"
    BY <1>6, NothingFacts
  <2>2. PICK v \in Holdings[PageAsked] : h = [page |-> PageAsked, is |-> v]
    BY <1>1, <2>1 DEF Answers
  <2>3. Content(PageAsked, v)
    BY <1>3, <2>2, HoldingFacts, Allocated
  <2>4. h.page = PageAsked /\ h.is = v /\ h # Nothing
    BY <1>3, <1>4, <2>2, NothingFacts
  <2> QED BY <1>2, <1>3, <1>6, <2>2, <2>3, <2>4
<1> QED BY <1>5, <1>6

\* How much is received: the length in the CDB cuts nothing off that fits in the buffer.
LEMMA ReceivedFacts ==
  ASSUME CdbInv, SizesInv, kind # "none", NEW h, Receive(h),
         Bytes(h) \in Seq(Byte), Len(Bytes(h)) \in Nat,
         kind = "luns" => Len(Bytes(h)) <= High
  PROVE  /\ held' = h /\ datain' \in Seq(Byte)
         /\ Len(datain') = First(Len(Bytes(h)), Room)
         /\ \A i \in 1..Len(datain') : datain'[i] = Bytes(h)[i]
         /\ Arrived(residual', Len(Bytes(h)), Room)
<1> DEFINE l == Len(Bytes(h))
           a == Allocation
           b == Bytes(h)
           sent == IF l < a THEN l ELSE a
           r == First(sent, Room)
<1>1. /\ datain' = SubSeq(b, 1, r)
      /\ residual' = CASE sent < Room -> [type |-> "underflow", count |-> Room - sent]
                       [] sent = Room -> [type |-> "none", count |-> 0]
                       [] sent > Room -> [type |-> "overflow", count |-> sent - Room]
      /\ held' = h
  BY DEF Receive, Room, First
<1>2. /\ a \in Nat /\ Room \in Nat /\ Room <= a /\ l \in Nat /\ High \in Nat
      /\ kind = "luns" => High <= a
      /\ kind \in Measured => Room = a
  <2>1. kind \in Measured => kind \in InKinds \ {"capacity16"}
    BY ClassFacts DEF Measured
  <2> QED BY <2>1, Allocated, RoomFacts, SMT DEF High
<1>3. kind = "luns" => l <= High
  OBVIOUS
<1>4. b \in Seq(Byte) /\ l = Len(b)
  OBVIOUS
<1> HIDE DEF a, b, l, sent
<1>5. sent \in Nat /\ sent <= l /\ sent = (IF l < a THEN l ELSE a)
  BY <1>2 DEF sent
<1>6. r \in Nat /\ r <= l /\ r = First(l, Room)
  BY <1>2, <1>5 DEF First
<1> HIDE DEF r
<1>7. /\ datain' \in Seq(Byte) /\ Len(datain') = r
      /\ \A i \in 1..Len(datain') : datain'[i] = b[i]
  BY <1>1, <1>4, <1>6
<1>8. Arrived(residual', l, Room)
  <2>1. CASE l < Room
    <3>1. sent = l /\ residual' = [type |-> "underflow", count |-> Room - sent]
      BY <1>1, <1>2, <1>5, <2>1
    <3> QED BY <1>2, <2>1, <3>1 DEF Arrived
  <2>2. CASE l = Room
    <3>1. sent = Room /\ residual' = [type |-> "none", count |-> 0]
      BY <1>1, <1>2, <1>5, <2>2
    <3> QED BY <1>2, <2>2, <3>1 DEF Arrived
  <2>3. CASE l > Room
    <3>1. sent >= Room
      BY <1>2, <1>5, <2>3
    <3>2. CASE sent = Room
      <4>1. residual' = [type |-> "none", count |-> 0]
        BY <1>1, <1>2, <1>5, <3>2
      <4>2. kind # "luns"
        BY <1>2, <1>3, <1>5, <2>3, <3>2
      <4> QED BY <1>2, <2>3, <4>1, <4>2 DEF Arrived
    <3>3. CASE sent > Room
      <4>1. residual' = [type |-> "overflow", count |-> sent - Room]
        BY <1>1, <1>2, <1>5, <3>3
      <4>2. kind \notin Measured
        BY <1>2, <1>5, <3>3
      <4>3. kind = "luns" => sent = l
        BY <1>2, <1>3, <1>5
      <4> QED BY <1>2, <1>5, <2>3, <3>3, <4>1, <4>2, <4>3 DEF Arrived
    <3> QED BY <1>2, <1>5, <3>1, <3>2, <3>3
  <2> QED BY <1>2, <2>1, <2>2, <2>3
<1> QED BY <1>1, <1>4, <1>6, <1>7, <1>8 DEF b, l

\* A list of LUNs is no longer than what any request asks for.
LEMMA LunsLength ==
  ASSUME NEW h, h = [page |-> "luns", is |-> h.is], Content("luns", h.is)
  PROVE  Len(Bytes(h)) <= High /\ Fits16(Len(Bytes(h))) /\ 8 <= Len(Bytes(h))
<1> DEFINE v == h.is
<1>1. v \in LunLists /\ h = [page |-> "luns", is |-> v]
  BY DEF Content
<1> HIDE DEF v
<1>2. /\ Fits16(8 + 8 * Len(v)) /\ LunsFormat(Bytes([page |-> "luns", is |-> v]), v)
      /\ v \in Seq(Nat)
  BY <1>1, LunsBytes, Zenon
<1>3. Len(Bytes(h)) = 8 + 8 * Len(v) /\ Len(v) \in Nat
  BY <1>1, <1>2 DEF LunsFormat, ElementsFormat
<1>4. Fits16(Len(Bytes(h)))
  BY <1>2, <1>3
<1>5. \A n : Fits16(n) => n <= High
  BY SMT DEF Fits16, High
<1> QED BY <1>3, <1>4, <1>5

\* What is not larger than the buffer is copied whole.
LEMMA CopiedWhole ==
  ASSUME NEW s, NEW t, Len(s) \in Nat, Len(t) \in Nat, Len(s) <= Len(t)
  PROVE  Copied(s, t) = SubSeq(s, 1, Len(s)) \o SubSeq(t, Len(s) + 1, Len(t))
<1>1. (IF Len(s) < Len(t) THEN Len(s) ELSE Len(t)) = Len(s)
  OBVIOUS
<1> QED BY <1>1, Zenon DEF Copied

\* What an execution leaves.
LEMMA ExecuteFacts ==
  ASSUME CdbInv, SizesInv, HeldInv, Execute
  PROVE  \E h : /\ Receive(h)
                /\ h # Nothing => /\ h = [page |-> h.page, is |-> h.is]
                                  /\ h.page \in PagesOf(kind) /\ h.page \in Pages
                                  /\ Content(h.page, h.is)
                                  /\ held # Nothing => h = held
<1>1. CASE Receive(Nothing)
  BY <1>1
<1>2. ASSUME NEW h \in Answers, Receive(h)
      PROVE  /\ h = [page |-> h.page, is |-> h.is]
             /\ h.page \in PagesOf(kind) /\ h.page \in Pages /\ Content(h.page, h.is)
             /\ held # Nothing => h = held
  BY AnswerFacts DEF Execute
<1> QED BY <1>1, <1>2 DEF Execute

\* AnswersInv is kept by the execution of a request.
LEMMA AnswersExecuteHolds ==
  ASSUME CdbInv, AnswersInv, Execute
  PROVE  AnswersInv'
<1>0. SizesInv /\ HeldInv /\ ReceivedInv /\ BufferInv
  BY DEF AnswersInv
<1>1. PICK h : /\ Receive(h)
               /\ h # Nothing => /\ h = [page |-> h.page, is |-> h.is]
                                 /\ h.page \in PagesOf(kind) /\ h.page \in Pages
                                 /\ Content(h.page, h.is)
                                 /\ held # Nothing => h = held
  BY <1>0, ExecuteFacts
<1>2. /\ kind # "none" /\ executed = FALSE /\ executed' = TRUE /\ kind' = kind
      /\ asked' = asked
      /\ mInBuffer' = Copied(datain', mInBuffer)
  BY <1>0 DEF Execute, HeldInv, vars
<1>3. Bytes(h) \in Seq(Byte) /\ Len(Bytes(h)) \in Nat
  BY <1>1, HeldTyped
<1>4. kind = "luns" => Len(Bytes(h)) <= High
  <2>1. CASE h = Nothing
    BY <2>1, NothingFacts, SMT DEF High
  <2>2. CASE h # Nothing /\ kind = "luns"
    <3>1. h.page = "luns"
      BY <1>1, <2>2 DEF PagesOf
    <3>2. h = [page |-> "luns", is |-> h.is] /\ Content("luns", h.is)
      BY <1>1, <2>2, <3>1
    <3> QED BY <3>2, LunsLength
  <2> QED BY <2>1, <2>2
<1>5. /\ held' = h /\ datain' \in Seq(Byte) /\ Len(datain') = First(Len(Bytes(h)), Room)
      /\ \A i \in 1..Len(datain') : datain'[i] = Bytes(h)[i]
      /\ Arrived(residual', Len(Bytes(h)), Room)
  BY <1>0, <1>1, <1>2, <1>3, <1>4, ReceivedFacts
<1>6. /\ Len(datain') \in Nat /\ Len(mInBuffer) \in Nat /\ mInBuffer \in Seq(Byte)
      /\ Len(datain') <= Len(mInBuffer)
  BY <1>0, <1>3, <1>5, RoomFacts DEF First, SizesInv
<1>7. /\ mInBuffer' \in Seq(Byte) /\ Len(mInBuffer') = Len(mInBuffer)
      /\ \A i \in 1..Len(datain') : mInBuffer'[i] = datain'[i]
  <2> DEFINE s == datain'
             t == SubSeq(mInBuffer, Len(datain') + 1, Len(mInBuffer))
  <2>1. t \in Seq(Byte) /\ Len(t) = Len(mInBuffer) - Len(datain')
    BY <1>6
  <2>7. mInBuffer' = SubSeq(datain', 1, Len(datain')) \o t
    BY <1>2, <1>6, CopiedWhole
  <2>8. SubSeq(datain', 1, Len(datain')) = datain'
    BY <1>5, SubSeqFull
  <2>2. s \in Seq(Byte) /\ Len(s) = Len(datain') /\ mInBuffer' = s \o t
    BY <1>5, <2>7, <2>8
  <2>3. ASSUME NEW i \in 1..Len(datain') PROVE mInBuffer'[i] = datain'[i]
    <3> HIDE DEF t
    <3>1. (s \o t)[i] = s[i]
      BY <2>1, <2>2, <2>3
    <3> QED BY <2>2, <3>1
  <2> HIDE DEF s, t
  <2>4. s \o t \in Seq(Byte) /\ Len(s \o t) = Len(s) + Len(t)
    <3>1. s \in Seq(Byte) /\ t \in Seq(Byte)
      BY <2>1, <2>2
    <3>2. Followed(s, t, s \o t, Len(s))
      BY <3>1, Appended, Zenon
    <3> QED BY <3>2 DEF Followed
  <2>5. mInBuffer' \in Seq(Byte) /\ Len(mInBuffer') = Len(datain') + Len(t)
    BY <2>2, <2>4
  <2>6. Len(mInBuffer') = Len(mInBuffer)
    BY <1>6, <2>1, <2>5
  <2> QED BY <2>3, <2>5, <2>6
<1>8. Room' = Room
  BY <1>2, <1>7 DEF Room
<1>9. SizesInv'
  <2>1. mInBuffer = <<>> => mInBuffer' = <<>>
    BY <1>7
  <2> QED BY <1>0, <1>2, <1>7, <2>1 DEF SizesInv
<1>10. HeldInv'
  <2>1. /\ asked'.again \in BOOLEAN /\ executed' \in BOOLEAN /\ executed'
        /\ asked'.again => kind' = "luns"
    BY <1>0, <1>2 DEF HeldInv
  <2>2. held' # Nothing => /\ held' = [page |-> held'.page, is |-> held'.is]
                           /\ held'.page \in PagesOf(kind') /\ held'.page \in Pages
                           /\ Content(held'.page, held'.is)
    BY <1>1, <1>2, <1>5
  <2>3. ASSUME asked'.again, held' # Nothing PROVE asked'.length = Len(Bytes(held'))
    <3>1. held # Nothing /\ asked.again
      BY <1>0, <1>2, <2>3 DEF HeldInv
    <3>2. h = held
      BY <1>1, <1>5, <2>3, <3>1
    <3> QED BY <1>0, <1>2, <1>5, <3>1, <3>2 DEF HeldInv
  <2> QED BY <1>2, <2>1, <2>2, <2>3 DEF HeldInv
<1>11. ReceivedInv'
  BY <1>2, <1>5, <1>8 DEF ReceivedInv, Arrived
<1>12. BufferInv'
  BY <1>6, <1>7 DEF BufferInv
<1> QED BY <1>9, <1>10, <1>11, <1>12 DEF AnswersInv

\* The second request for a list that did not fit.
LEMMA AnswersRetryHolds ==
  ASSUME CdbInv, AnswersInv, RetryReportLuns
  PROVE  AnswersInv'
<1> DEFINE size == Len(datain) + residual.count
<1>0. SizesInv /\ HeldInv /\ ReceivedInv /\ BufferInv
  BY DEF AnswersInv
<1>1. /\ kind = "luns" /\ executed /\ residual.type = "overflow"
      /\ Constructed("luns", LunsCdb(size), size)
  BY DEF RetryReportLuns, NewReportLuns
<1>2. datain # <<>> /\ kind \in InKinds
  BY ClassFacts DEF RetryReportLuns, GetLunCount, Readable
<1>3. Room \in Nat
  BY <1>0, RoomFacts
<1>4. held # Nothing
  <2> SUFFICES ASSUME held = Nothing PROVE FALSE
    OBVIOUS
  <2>1. Len(datain) = 0
    BY <1>0, <1>1, <1>3, NothingFacts DEF ReceivedInv, First
  <2>2. datain \in Seq(Byte)
    BY <1>0 DEF ReceivedInv
  <2> QED BY <1>2, <2>1, <2>2
<1>5. held = [page |-> "luns", is |-> held.is] /\ Content("luns", held.is)
  BY <1>0, <1>1, <1>4 DEF HeldInv, PagesOf
<1>6. Len(Bytes(held)) <= High /\ Fits16(Len(Bytes(held))) /\ 8 <= Len(Bytes(held))
  BY <1>5, LunsLength
<1>7. Len(Bytes(held)) \in Nat
  BY <1>6 DEF Fits16
<1>8. size = Len(Bytes(held))
  <2>1. /\ Len(datain) = First(Len(Bytes(held)), Room)
        /\ Arrived(residual, Len(Bytes(held)), Room)
    BY <1>0, <1>1 DEF ReceivedInv
  <2>2. /\ Len(Bytes(held)) > Room
        /\ residual = [type |-> "overflow", count |-> Len(Bytes(held)) - Room]
    BY <1>1, <1>3, <1>7, <2>1 DEF Arrived
  <2> QED BY <1>3, <1>7, <2>1, <2>2 DEF First
<1>9. /\ kind' = "luns" /\ held' = held /\ executed' = FALSE /\ datain' = <<>>
      /\ residual' = [type |-> "none", count |-> 0]
      /\ asked'.again = TRUE /\ asked'.length = size
  BY <1>1 DEF Constructed
<1>10. SizesInv'
  <2>1. SizeOf("luns", size)
    BY <1>6, <1>7, <1>8, ClassFacts DEF SizeOf, Classes
  <2> QED BY <1>1, <2>1, SizesConstructed
<1>11. HeldInv'
  BY <1>0, <1>1, <1>4, <1>8, <1>9 DEF HeldInv
<1>12. ReceivedInv'
  BY <1>9 DEF ReceivedInv
<1>13. BufferInv'
  <2>1. Len(mInBuffer') \in Nat /\ Len(<<>>) = 0
    BY <1>10 DEF SizesInv
  <2> QED BY <1>9, <2>1 DEF BufferInv
<1> QED BY <1>10, <1>11, <1>12, <1>13 DEF AnswersInv

\* AnswersInv is kept by every step.
LEMMA AnswersStepHolds ==
  ASSUME PRInv, CdbInv, AnswersInv, [RequestNext]_<<vars, inVars>>
  PROVE  AnswersInv'
<1>1. CASE Next /\ UNCHANGED inVars
  BY <1>1, AnswersOutHolds
<1>2. CASE NewRequest
  BY <1>2, AnswersNewHolds
<1>3. ASSUME NEW lba \in Lbas, SetLBA(lba) PROVE AnswersInv'
  BY <1>3, AnswersSetHolds
<1>4. ASSUME NEW n \in Sizes, SetAllocationLen(n) PROVE AnswersInv'
  BY <1>4, AnswersSetHolds
<1>5. ASSUME NEW b \in BOOLEAN, SetEVPD(b) PROVE AnswersInv'
  BY <1>5, AnswersSetHolds
<1>6. CASE ResetInBuffer
  BY <1>6, AnswersResetHolds
<1>7. CASE Execute
  BY <1>7, AnswersExecuteHolds
<1>8. CASE RetryReportLuns
  BY <1>8, AnswersRetryHolds
<1>9. CASE Destroy
  BY <1>9, AnswersDestroyHolds
<1>10. CASE GetDescriptorCount \/ UNCHANGED <<vars, inVars>>
  <2>1. UNCHANGED <<kind, mInBuffer, executed, datain, residual, held, asked>>
    BY <1>10 DEF GetDescriptorCount, vars, inVars
  <2>2. Room' = Room
    BY <2>1 DEF Room
  <2> QED BY <2>1, <2>2 DEF AnswersInv, SizesInv, HeldInv, ReceivedInv, Arrived, BufferInv
<1> QED BY <1>1, <1>2, <1>3, <1>4, <1>5, <1>6, <1>7, <1>8, <1>9, <1>10 DEF RequestNext

\* The invariants together.
THEOREM AnswersInvariant == RequestSpec => [](CdbInv /\ AnswersInv)
<1>1. RequestInit => AnswersInv
  BY AnswersInitHolds
<1>2. PRInv /\ CdbInv /\ AnswersInv /\ [RequestNext]_<<vars, inVars>> => AnswersInv'
  BY AnswersStepHolds
<1> QED BY <1>1, <1>2, Invariant, CdbHolds, PTL DEF RequestSpec

\* One sequence begins with another.
LEMMA Prefix ==
  ASSUME NEW s \in Seq(Byte), NEW t \in Seq(Byte), Len(s) <= Len(t),
         \A i \in 1..Len(s) : t[i] = s[i]
  PROVE  IsPrefix(s, t)
<1>1. Len(s) \in Nat /\ Len(t) \in Nat
  OBVIOUS
<1>2. SubSeq(s, 1, Len(s)) = s
  OBVIOUS
<1>3. SubSeq(t, 1, Len(s)) = s
  <2> DEFINE u == SubSeq(t, 1, Len(s))
  <2>1. u \in Seq(Byte) /\ Len(u) = Len(s) /\ \A i \in 1..Len(s) : u[i] = t[i]
    BY <1>1
  <2> HIDE DEF u
  <2>2. u = s
    BY <2>1
  <2> QED BY <2>2 DEF u
<1> QED BY <1>1, <1>2, <1>3 DEF IsPrefix

\* What a class that may have an answer has received.
LEMMA Arrives ==
  ASSUME AnswersInv, executed, held.page # "none"
  PROVE  /\ held = [page |-> held.page, is |-> held.is]
         /\ held.page \in PagesOf(kind) /\ Content(held.page, held.is)
         /\ kind \in InKinds
         /\ Bytes(held) \in Seq(Byte) /\ Len(Bytes(held)) \in Nat
         /\ datain \in Seq(Byte) /\ Len(datain) \in Nat /\ Len(datain) <= Len(Bytes(held))
         /\ \A i \in 1..Len(datain) : datain[i] = Bytes(held)[i]
         /\ kind # "capacity16" =>
              /\ asked.length \in Nat /\ 0 < asked.length /\ Room = asked.length
              /\ Len(datain) = First(Len(Bytes(held)), asked.length)
              /\ Len(mInBuffer) = asked.length
              /\ Arrived(residual, Len(Bytes(held)), asked.length)
<1>0. SizesInv /\ HeldInv /\ ReceivedInv
  BY DEF AnswersInv
<1>1. held # Nothing
  BY NothingFacts
<1>2. /\ held = [page |-> held.page, is |-> held.is] /\ held.page \in Pages
      /\ held.page \in PagesOf(kind) /\ Content(held.page, held.is)
  BY <1>0, <1>1 DEF HeldInv
<1>3. kind \in InKinds
  BY <1>2, ClassFacts DEF PagesOf
<1>4. Bytes(held) \in Seq(Byte) /\ Len(Bytes(held)) \in Nat
  BY <1>2, HeldTyped
<1>5. /\ datain \in Seq(Byte) /\ Len(datain) = First(Len(Bytes(held)), Room)
      /\ \A i \in 1..Len(datain) : datain[i] = Bytes(held)[i]
      /\ Arrived(residual, Len(Bytes(held)), Room)
  BY <1>0 DEF ReceivedInv
<1>6. Room \in Nat
  BY <1>0, RoomFacts
<1>7. Len(datain) \in Nat /\ Len(datain) <= Len(Bytes(held))
  BY <1>4, <1>5, <1>6 DEF First
<1>8. kind # "capacity16" => /\ asked.length \in Nat /\ 0 < asked.length
                             /\ Room = asked.length /\ Len(mInBuffer) = asked.length
  BY <1>0, <1>3, RoomFacts DEF SizesInv, Fits16
<1> QED BY <1>2, <1>3, <1>4, <1>5, <1>7, <1>8

\* For all inputs and whatever the target holds: what it answers arrives, as much of it
\* as the buffer has room for, the length in the CDB does not cut it shorter, and the
\* residual says what was left of the buffer (but for SCSIReadCapacity16).
THEOREM EveryAnswerArrives == RequestSpec => []AnswerArrives
<1>1. CdbInv /\ AnswersInv => AnswerArrives
  <2> SUFFICES ASSUME AnswersInv, executed, held.page # "none", kind # "capacity16"
               PROVE  /\ IsPrefix(datain, Bytes(held))
                      /\ Len(datain) = Len(Bytes(held)) \/ Len(datain) = Len(mInBuffer)
                      /\ IsPrefix(datain, mInBuffer) \/ mInBuffer = Zeroed(Len(mInBuffer))
                      /\ residual.type = "underflow" <=> Len(datain) < Len(mInBuffer)
                      /\ residual.type = "underflow" =>
                           residual.count = Len(mInBuffer) - Len(datain)
    BY DEF AnswerArrives
  <2>1. /\ kind \in InKinds /\ Bytes(held) \in Seq(Byte) /\ datain \in Seq(Byte)
        /\ Len(datain) <= Len(Bytes(held))
        /\ \A i \in 1..Len(datain) : Bytes(held)[i] = datain[i]
        /\ Len(datain) = Len(Bytes(held)) \/ Len(datain) = Len(mInBuffer)
    BY Arrives DEF First
  <2>2. IsPrefix(datain, Bytes(held))
    BY <2>1, Prefix
  <2>3. mInBuffer \in Seq(Byte) /\ Len(datain) <= Len(mInBuffer)
    BY <2>1 DEF AnswersInv, SizesInv, BufferInv
  <2>4. \/ \A i \in 1..Len(datain) : mInBuffer[i] = datain[i]
        \/ mInBuffer = Zeroed(Len(mInBuffer))
    BY <2>1 DEF AnswersInv, BufferInv
  <2>5. IsPrefix(datain, mInBuffer) \/ mInBuffer = Zeroed(Len(mInBuffer))
    BY <2>1, <2>3, <2>4, Prefix
  <2>6. PICK room \in Nat, sent \in Nat :
          /\ room = Len(mInBuffer) /\ sent = Len(Bytes(held))
          /\ Len(datain) = First(sent, room) /\ Arrived(residual, sent, room)
    BY Arrives
  <2>7. /\ residual.type = "underflow" <=> Len(datain) < Len(mInBuffer)
        /\ residual.type = "underflow" => residual.count = Len(mInBuffer) - Len(datain)
    <3>1. CASE sent < room
      BY <2>6, <3>1 DEF Arrived, First
    <3>2. CASE sent >= room
      <4>1. residual.type # "underflow"
        BY <2>6, <3>2 DEF Arrived
      <4>2. Len(datain) = Len(mInBuffer)
        BY <2>6, <3>2 DEF First
      <4> QED BY <4>1, <4>2
    <3> QED BY <2>6, <3>1, <3>2
  <2> QED BY <2>1, <2>2, <2>5, <2>7
<1> QED BY <1>1, AnswersInvariant, PTL

\* A field that was received reads as the target sent it.
LEMMA ReceivedField ==
  ASSUME NEW b, NEW d \in Seq(Byte), \A i \in 1..Len(d) : d[i] = b[i],
         NEW o \in Nat, NEW s \in Seq(Byte), Has(b, o, s), o + Len(s) <= Len(d)
  PROVE  Has(d, o, s) /\ GetBufferString(d, o, Len(s)) = s
<1>1. Len(s) \in Nat /\ Len(d) \in Nat
  OBVIOUS
<1>2. ASSUME NEW i \in 1..Len(s) PROVE d[o + i] = s[i]
  <2>1. o + i \in 1..Len(d)
    BY <1>1
  <2> QED BY <2>1 DEF Has
<1>3. Has(d, o, s)
  BY <1>2 DEF Has
<1>4. Got(d, o, Len(s), GetBufferString(d, o, Len(s)))
  BY <1>1, Gets
<1>5. GetBufferString(d, o, Len(s)) = s
  <2> DEFINE g == GetBufferString(d, o, Len(s))
  <2>1. g \in Seq(Byte) /\ Len(g) = Len(s) /\ \A i \in 1..Len(s) : g[i] = s[i]
    BY <1>1, <1>2, <1>4 DEF Got
  <2> HIDE DEF g
  <2>2. Has(g, 0, s)
    BY <1>1, <2>1 DEF Has
  <2>3. g = s
    BY <2>1, <2>2, HasAll
  <2> QED BY <2>3 DEF g
<1> QED BY <1>3, <1>5

\* The bytes d are the first ones of b.
Reads(d, b) == d \in Seq(Byte) /\ \A i \in 1..Len(d) : d[i] = b[i]

\* A string that is all in what was received is read as it was sent.
LEMMA WholeReceived ==
  ASSUME NEW d, NEW b, Reads(d, b), NEW o \in Nat, NEW s \in Seq(Byte), Has(b, o, s),
         o + Len(s) <= Len(d)
  PROVE  GetBufferString(d, o, Len(s)) = s
<1>1. d \in Seq(Byte) /\ \A i \in 1..Len(d) : d[i] = b[i]
  BY DEF Reads
<1> QED BY <1>1, ReceivedField

\* The same, with its length under a name.
LEMMA StringReceived ==
  ASSUME NEW d, NEW b, Reads(d, b), NEW o \in Nat, NEW s \in Seq(Byte), Has(b, o, s),
         NEW n, Len(s) = n, o + n <= Len(d)
  PROVE  GetBufferString(d, o, n) = s
<1>1. o + Len(s) <= Len(d)
  OBVIOUS
<1>2. GetBufferString(d, o, Len(s)) = s
  BY <1>1, WholeReceived
<1> QED BY <1>2

\* A number of four bytes is read as it was sent.
LEMMA LongReceived ==
  ASSUME NEW d, NEW b, Reads(d, b), NEW o \in Nat, NEW n, Fits31(n), Has(b, o, Long(n)),
         o + 4 <= Len(d)
  PROVE  Value(GetBufferLong(d, o)) = n
<1> DEFINE s == Long(n)
<1>1. s \in Seq(Byte) /\ Len(s) = 4
  BY LongFacts
<1>2. d \in Seq(Byte) /\ \A i \in 1..Len(d) : d[i] = b[i]
  BY DEF Reads
<1> HIDE DEF s
<1>3. o + Len(s) <= Len(d) /\ Has(b, o, s)
  BY <1>1 DEF s
<1>4. Has(d, o, s)
  BY <1>1, <1>2, <1>3, ReceivedField
<1>5. GetBufferLong(d, o) = Word(n, 32)
  BY <1>2, <1>4, LongRead DEF s
<1> QED BY <1>5, FitValue

\* A number of two bytes is read as it was sent.
LEMMA ShortReceived ==
  ASSUME NEW d, NEW b, Reads(d, b), NEW o \in Nat, NEW n, Fits16(n), Has(b, o, Short(n)),
         o + 2 <= Len(d)
  PROVE  Value(GetBufferShort(d, o)) = n
<1> DEFINE s == Short(n)
<1>1. s \in Seq(Byte) /\ Len(s) = 2
  BY ShortFacts
<1>2. d \in Seq(Byte) /\ \A i \in 1..Len(d) : d[i] = b[i]
  BY DEF Reads
<1> HIDE DEF s
<1>3. o + Len(s) <= Len(d) /\ Has(b, o, s)
  BY <1>1 DEF s
<1>4. Has(d, o, s)
  BY <1>1, <1>2, <1>3, ReceivedField
<1>5. GetBufferShort(d, o) = Word(n, 16)
  BY <1>2, <1>4, ShortRead DEF s
<1> QED BY <1>5, FitValue

\* What Readable says.
LEMMA ReadableFacts ==
  ASSUME datain \in Seq(Byte), NEW o \in Nat, NEW n \in Nat, 0 < o + n
  PROVE  Readable(o, n) <=> o + n <= Len(datain)
<1>1. Len(datain) \in Nat /\ (datain = <<>> <=> Len(datain) = 0)
  OBVIOUS
<1> QED BY <1>1 DEF Readable

\* What the getters of the keys return.
LEMMA KeysReadHolds ==
  ASSUME AnswersInv, Answered("keys")
  PROVE  /\ GetKeyCount = IF Len(datain) >= 8 THEN Len(held.is) ELSE Throws
         /\ \A i \in DOMAIN held.is :
              GetKey(i - 1) = IF Len(datain) >= 8 * (i + 1) THEN held.is[i] ELSE Throws
<1> DEFINE v == held.is
           b == Bytes(held)
           n == Len(v)
<1>0. executed /\ held.page = "keys"
  BY DEF Answered
<1>1. /\ held = [page |-> "keys", is |-> v] /\ Content("keys", v)
      /\ datain \in Seq(Byte) /\ Len(datain) \in Nat
      /\ \A i \in 1..Len(datain) : datain[i] = b[i]
  BY <1>0, Arrives
<1>2. v \in KeyLists /\ Reads(datain, b)
  BY <1>1 DEF Content, Reads
<1>3. b = Bytes([page |-> "keys", is |-> v])
  BY <1>1
<1> HIDE DEF v, b
<1>4. /\ n \in Nat /\ DOMAIN v = 1..n /\ Fits31(8 * n) /\ KeysFormat(b, v)
      /\ \A i \in 1..n : v[i] \in Seq(Byte) /\ Len(v[i]) = 8
  BY <1>2, <1>3, KeysBytes
<1>5. Has(b, 4, Long(8 * n)) /\ \A i \in 1..n : Has(b, 8 * i, v[i])
  BY <1>4 DEF KeysFormat, ElementsFormat
<1>6. GetKeyCount = IF Len(datain) >= 8 THEN n ELSE Throws
  <2>1. Readable(4, 4) <=> 8 <= Len(datain)
    <3>1. 4 \in Nat /\ 0 < 4 + 4 /\ 4 + 4 = 8
      OBVIOUS
    <3> QED BY <1>1, <3>1, ReadableFacts
  <2>2. CASE Len(datain) >= 8
    <3> DEFINE m == 8 * n
    <3>1. 4 \in Nat /\ 4 + 4 <= Len(datain)
      BY <1>1, <2>2
    <3>2. Fits31(m) /\ Has(b, 4, Long(m))
      BY <1>4, <1>5
    <3> HIDE DEF m
    <3>3. Value(GetBufferLong(datain, 4)) = m
      BY <1>2, <3>1, <3>2, LongReceived, Zenon
    <3>4. (m + 1) \div 8 = n
      <4>1. \A k \in Nat : (8 * k + 1) \div 8 = k
        OBVIOUS
      <4> QED BY <1>4, <4>1 DEF m
    <3> QED BY <1>1, <2>1, <2>2, <3>3, <3>4 DEF GetKeyCount, LongAt
  <2>3. CASE ~(Len(datain) >= 8)
    BY <1>1, <2>1, <2>3 DEF GetKeyCount
  <2> QED BY <2>2, <2>3
<1>7. ASSUME NEW i \in DOMAIN v
      PROVE  GetKey(i - 1) = IF Len(datain) >= 8 * (i + 1) THEN v[i] ELSE Throws
  <2> DEFINE o == 8 * i
  <2>1. i \in 1..n /\ o \in Nat /\ o + 8 = 8 * (i + 1) /\ (i - 1 + 1) * 8 = o
    BY <1>4, <1>7
  <2>2. v[i] \in Seq(Byte) /\ Len(v[i]) = 8 /\ Has(b, o, v[i])
    BY <1>4, <1>5, <2>1
  <2> HIDE DEF o
  <2>3. GetKey(i - 1) = StringAt(o, 8)
    BY <2>1 DEF GetKey
  <2>4. Readable(o, 8) <=> o + 8 <= Len(datain)
    <3>1. 8 \in Nat /\ 0 < o + 8
      BY <2>1
    <3> QED BY <1>1, <2>1, <3>1, ReadableFacts
  <2>5. CASE o + 8 <= Len(datain)
    <3>1. GetBufferString(datain, o, 8) = v[i]
      BY <1>2, <2>1, <2>2, <2>5, StringReceived
    <3> QED BY <1>1, <2>1, <2>3, <2>4, <2>5, <3>1 DEF StringAt
  <2>6. CASE ~(o + 8 <= Len(datain))
    BY <1>1, <2>1, <2>3, <2>4, <2>6 DEF StringAt
  <2> QED BY <2>5, <2>6
<1> QED BY <1>6, <1>7 DEF v

\* For every list of keys and every size of the buffer: the count is that of the keys
\* registered, and each key that was received reads as it is.
THEOREM EveryKeyIsRead == RequestSpec => []KeysRead
<1>1. CdbInv /\ AnswersInv => KeysRead
  BY KeysReadHolds DEF KeysRead
<1> QED BY <1>1, AnswersInvariant, PTL

\* What the getters of the LUNs return.
LEMMA LunsHold ==
  ASSUME AnswersInv, Answered("luns")
  PROVE  /\ asked.again => residual.type # "overflow"
         /\ residual.type # "overflow" =>
              /\ GetLunCount = Len(held.is)
              /\ \A i \in DOMAIN held.is : GetLun(i - 1) = held.is[i]
<1> DEFINE v == held.is
           b == Bytes(held)
           n == Len(v)
<1>0. executed /\ held.page = "luns"
  BY DEF Answered
<1>1. /\ held = [page |-> "luns", is |-> v] /\ Content("luns", v)
      /\ datain \in Seq(Byte) /\ Len(datain) \in Nat
      /\ \A i \in 1..Len(datain) : datain[i] = b[i]
      /\ held.page \in PagesOf(kind) /\ kind \in InKinds
  BY <1>0, Arrives
<1>2. kind = "luns"
  BY <1>0, <1>1, ClassFacts DEF PagesOf
<1>3. /\ asked.length \in Nat /\ Len(b) \in Nat
      /\ Len(datain) = First(Len(b), asked.length)
      /\ Arrived(residual, Len(b), asked.length)
  BY <1>0, <1>2, Arrives
<1>4. asked.again => asked.length = Len(b)
  <2>1. held # Nothing
    BY <1>0, NothingFacts
  <2> QED BY <2>1 DEF AnswersInv, HeldInv
<1>5. v \in LunLists /\ Reads(datain, b) /\ b = Bytes([page |-> "luns", is |-> v])
  BY <1>1 DEF Content, Reads
<1> HIDE DEF v, b
<1>6. asked.again => residual.type # "overflow"
  BY <1>3, <1>4 DEF Arrived
<1>7. ASSUME residual.type # "overflow"
      PROVE  GetLunCount = n /\ \A i \in DOMAIN v : GetLun(i - 1) = v[i]
  <2>1. /\ v \in Seq(Nat) /\ Fits16(8 + 8 * n) /\ LunsFormat(b, v)
        /\ \A i \in 1..n : Fits16(v[i])
    BY <1>5, LunsBytes
  <2>2. /\ n \in Nat /\ DOMAIN v = 1..n /\ Len(b) = 8 + 8 * n /\ Has(b, 0, Long(8 * n))
        /\ \A i \in 1..n : Has(b, 8 * i, Short(v[i]))
    BY <2>1 DEF LunsFormat, ElementsFormat
  <2>3. Len(datain) = 8 + 8 * n
    <3>1. ~(Len(b) > asked.length)
      BY <1>2, <1>3, <1>7 DEF Arrived
    <3> QED BY <1>3, <2>2, <3>1 DEF First
  <2>4. GetLunCount = n
    <3> DEFINE m == 8 * n
    <3>1. Fits31(m)
      BY <2>1, <2>2, SMT DEF Fits16, Fits31
    <3>2. 0 \in Nat /\ 0 + 4 <= Len(datain)
      BY <2>2, <2>3
    <3>3. Has(b, 0, Long(m))
      BY <2>2
    <3>4. \A k \in Nat : (8 * k) \div 8 = k
      OBVIOUS
    <3>5. m \div 8 = n
      BY <2>2, <3>4
    <3> HIDE DEF m
    <3>6. Value(GetBufferLong(datain, 0)) = m
      BY <1>5, <3>1, <3>2, <3>3, LongReceived, Zenon
    <3>7. Readable(0, 4)
      <4>1. 4 \in Nat /\ 0 < 0 + 4
        OBVIOUS
      <4> QED BY <1>1, <3>2, <4>1, ReadableFacts
    <3> QED BY <3>5, <3>6, <3>7 DEF GetLunCount, LongAt
  <2>5. ASSUME NEW i \in DOMAIN v PROVE GetLun(i - 1) = v[i]
    <3> DEFINE o == 8 * i
    <3>1. i \in 1..n /\ o \in Nat /\ 8 * (i - 1 + 1) = o /\ o + 2 <= Len(datain)
      BY <2>2, <2>3, <2>5
    <3>2. Fits16(v[i]) /\ Has(b, o, Short(v[i]))
      BY <2>1, <2>2, <3>1
    <3> HIDE DEF o
    <3>3. Value(GetBufferShort(datain, o)) = v[i]
      BY <1>5, <3>1, <3>2, ShortReceived
    <3>4. Readable(o, 2)
      <4>1. 2 \in Nat /\ 0 < o + 2
        BY <3>1
      <4> QED BY <1>1, <3>1, <4>1, ReadableFacts
    <3> QED BY <3>1, <3>3, <3>4 DEF GetLun, ShortAt
  <2> QED BY <2>4, <2>5
<1> QED BY <1>6, <1>7 DEF v

\* For every list of LUNs and every size of the first request: without an overflow every
\* LUN is read as it is, and the second request never overflows.
THEOREM EveryLunIsRead == RequestSpec => []LunsComplete
<1>1. CdbInv /\ AnswersInv => LunsComplete
  BY LunsHold DEF LunsComplete
<1> QED BY <1>1, AnswersInvariant, PTL

\* The low bits of a byte.
LEMMA FourBits == ASSUME NEW x \in SUBSET (0..3) PROVE BitsOf(x, 0, 4) = x
<1>1. LowBits(4) \cap (0..7) = 0..3
  <2>1. PICK n \in 0..8 : n = 4
    OBVIOUS
  <2>2. \A i \in 0..7 : i \in LowBits(n) <=> i < n
    BY LowBitsOfByte
  <2> QED BY <2>1, <2>2
<1>2. Shr(x, 0) = x
  <2>1. \A i \in x : i \in 0..31 /\ i + 0 = i
    OBVIOUS
  <2>2. \A i \in 0..31 : i + 0 = i
    OBVIOUS
  <2>3. Shr(x, 0) = {i \in 0..31 : i + 0 \in x}
    BY DEF Shr
  <2> QED BY <2>1, <2>2, <2>3
<1> QED BY <1>1, <1>2 DEF BitsOf

\* What the types of a reservation are.
LEMMA TypesFacts ==
  /\ \A t \in ValidTypes : t \in SUBSET (0..3) /\ t # Throws
  /\ WriteExclusive \in ValidTypes
  /\ Throws \notin ValidTypes
<1>1. \A t \in ValidTypes : t \in SUBSET (0..3)
  BY DEF ValidTypes, WriteExclusive, WriteExclusiveRegistrantsOnly
<1>2. \A t \in SUBSET (0..3) : t \in Byte
  BY DEF Byte
<1> QED BY <1>1, <1>2, ThrowsAssumption
          DEF ValidTypes, WriteExclusive, WriteExclusiveRegistrantsOnly

\* What the getters of the reservation read.
ReservationReads(key, type) ==
  /\ GetReservation \in {key, Throws}
  /\ type # WriteExclusiveRegistrantsOnly => GetReservationType \in {type, Throws}
  /\ Len(datain) >= 22 => GetReservation # Throws /\ GetReservationType # Throws

\* What the getters return of an answer without a reservation.
LEMMA NoReservation ==
  ASSUME NEW b, Reads(datain, b), Has(b, 4, Long(0))
  PROVE  /\ GetReservation = IF Len(datain) >= 8 THEN <<>> ELSE Throws
         /\ GetReservationType = Throws
<1>1. datain \in Seq(Byte) /\ Len(datain) \in Nat
  BY DEF Reads
<1>2. Readable(4, 4) <=> 8 <= Len(datain)
  <2>1. 4 \in Nat /\ 0 < 4 + 4 /\ 4 + 4 = 8
    OBVIOUS
  <2> QED BY <1>1, <2>1, ReadableFacts
<1>3. CASE Len(datain) >= 8
  <2>1. PICK m \in Nat : m = 0
    OBVIOUS
  <2>2. 4 \in Nat /\ 4 + 4 <= Len(datain)
    BY <1>1, <1>3
  <2>3. Fits31(m) /\ Has(b, 4, Long(m))
    BY <2>1, SMT DEF Fits31
  <2>4. Value(GetBufferLong(datain, 4)) = m
    BY <2>2, <2>3, LongReceived, Zenon
  <2> QED BY <1>1, <1>2, <1>3, <2>1, <2>4 DEF GetReservation, GetReservationType, LongAt
<1>4. CASE ~(Len(datain) >= 8)
  BY <1>1, <1>2, <1>4 DEF GetReservation, GetReservationType
<1> QED BY <1>3, <1>4

\* What the getters return of an answer with one.
LEMMA ReservationGot ==
  ASSUME NEW b, Reads(datain, b), NEW key \in Seq(Byte), Len(key) = 8,
         NEW type \in ValidTypes, ReservationAt(b, key, type)
  PROVE  ReservationReads(key, type)
<1>1. datain \in Seq(Byte) /\ Len(datain) \in Nat /\ \A i \in 1..Len(datain) : datain[i] = b[i]
  BY DEF Reads
<1>2. Has(b, 4, Long(16)) /\ Has(b, 8, key) /\ b[22] = type
  BY DEF ReservationAt
<1>3. /\ Readable(4, 4) <=> 8 <= Len(datain)
      /\ Readable(8, 8) <=> 16 <= Len(datain)
      /\ Readable(21, 1) <=> 22 <= Len(datain)
  <2>1. 4 \in Nat /\ 0 < 4 + 4 /\ 4 + 4 = 8
    OBVIOUS
  <2>2. 8 \in Nat /\ 0 < 8 + 8 /\ 8 + 8 = 16
    OBVIOUS
  <2>3. 21 \in Nat /\ 1 \in Nat /\ 0 < 21 + 1 /\ 21 + 1 = 22
    OBVIOUS
  <2> QED BY <1>1, <2>1, <2>2, <2>3, ReadableFacts
<1>4. CASE ~(8 <= Len(datain))
  <2>1. GetReservation = Throws /\ GetReservationType = Throws
    BY <1>3, <1>4 DEF GetReservation, GetReservationType
  <2> QED BY <1>1, <1>4, <2>1 DEF ReservationReads
<1>5. CASE 8 <= Len(datain)
  <2>1. LongAt(4) # 0
    <3>1. PICK m \in Nat : m = 16
      OBVIOUS
    <3>2. 4 \in Nat /\ 4 + 4 <= Len(datain)
      BY <1>1, <1>5
    <3>3. Fits31(m) /\ Has(b, 4, Long(m))
      BY <1>2, <3>1, SMT DEF Fits31
    <3>4. Value(GetBufferLong(datain, 4)) = m
      BY <3>2, <3>3, LongReceived, Zenon
    <3> QED BY <3>1, <3>4 DEF LongAt
  <2>2. GetReservation = StringAt(8, 8)
    BY <1>3, <1>5, <2>1 DEF GetReservation
  <2>3. /\ 16 <= Len(datain) => GetReservation = key
        /\ ~(16 <= Len(datain)) => GetReservation = Throws
    <3>1. ASSUME 16 <= Len(datain) PROVE GetBufferString(datain, 8, 8) = key
      <4>1. PICK m \in Nat : m = 8
        OBVIOUS
      <4>2. Has(b, m, key) /\ m + m <= Len(datain) /\ Len(key) = m
        BY <1>1, <1>2, <3>1, <4>1
      <4>3. GetBufferString(datain, m, m) = key
        BY <4>2, StringReceived
      <4> QED BY <4>1, <4>3
    <3> QED BY <1>3, <2>2, <3>1 DEF StringAt
  <2>4. /\ 22 <= Len(datain) => BitsAt(21, 0, 4) = type
        /\ ~(22 <= Len(datain)) => BitsAt(21, 0, 4) = Throws
    <3>1. ASSUME 22 <= Len(datain) PROVE datain[21 + 1] = type
      <4>1. 22 \in 1..Len(datain)
        BY <1>1, <3>1
      <4> QED BY <1>1, <1>2, <4>1
    <3>2. BitsOf(type, 0, 4) = type
      BY FourBits, TypesFacts
    <3> QED BY <1>3, <3>1, <3>2 DEF BitsAt, GetBufferBitArray
  <2>5. GetReservationType =
          CASE BitsAt(21, 0, 4) = WriteExclusiveRegistrantsOnly -> WriteExclusive
            [] BitsAt(21, 0, 4) \in ValidTypes \ {WriteExclusiveRegistrantsOnly}
                 -> BitsAt(21, 0, 4)
            [] OTHER -> Throws
    BY <1>3, <1>5, <2>1 DEF GetReservationType
  <2>6. key # Throws
    BY ThrowsAssumption
  <2>7. /\ type # WriteExclusiveRegistrantsOnly => GetReservationType \in {type, Throws}
        /\ 22 <= Len(datain) => GetReservationType # Throws
    <3>1. CASE 22 <= Len(datain)
      BY <2>4, <2>5, <3>1, TypesFacts
    <3>2. CASE ~(22 <= Len(datain))
      <4>1. WriteExclusiveRegistrantsOnly \in ValidTypes
        BY DEF ValidTypes
      <4> QED BY <2>4, <2>5, <3>2, <4>1, TypesFacts
    <3> QED BY <3>1, <3>2
  <2> QED BY <1>1, <2>3, <2>6, <2>7 DEF ReservationReads
<1> QED BY <1>1, <1>4, <1>5

\* What the getters return after a READ RESERVATION.
LEMMA ReservationHolds ==
  ASSUME AnswersInv, Answered("reservation")
  PROVE  /\ held.is = {} => /\ GetReservation = IF Len(datain) >= 8 THEN <<>> ELSE Throws
                            /\ GetReservationType = Throws
         /\ \A r \in held.is : ReservationReads(r.key, r.type)
<1> DEFINE v == held.is
           b == Bytes(held)
<1>0. executed /\ held.page = "reservation"
  BY DEF Answered
<1>1. /\ held = [page |-> "reservation", is |-> v] /\ Content("reservation", v)
      /\ datain \in Seq(Byte) /\ \A i \in 1..Len(datain) : datain[i] = b[i]
  BY <1>0, Arrives
<1>2. /\ v \in Reservations /\ Reads(datain, b)
      /\ b = Bytes([page |-> "reservation", is |-> v])
  BY <1>1 DEF Content, Reads
<1> HIDE DEF v, b
<1>3. ReservationFormat(b, v)
  BY <1>2, ReservationMade
<1>4. CASE v = {}
  <2>1. Has(b, 4, Long(0))
    BY <1>3, <1>4 DEF ReservationFormat
  <2> QED BY <1>2, <1>4, <2>1, NoReservation DEF v
<1>5. ASSUME NEW r \in v PROVE ReservationReads(r.key, r.type)
  <2> DEFINE key == r.key
             type == r.type
  <2>1. key \in Seq(Byte) /\ Len(key) = 8 /\ type \in ValidTypes
    BY <1>2, ReservationFacts
  <2>2. ReservationAt(b, key, type)
    BY <1>3 DEF ReservationFormat
  <2> HIDE DEF key, type
  <2>3. ReservationReads(key, type)
    BY <1>2, <2>1, <2>2, ReservationGot
  <2> QED BY <2>3 DEF key, type
<1>6. v # {} => ~(v = {})
  OBVIOUS
<1> QED BY <1>4, <1>5, <1>6 DEF v

\* For every reservation and every size of the buffer: it reads as its own key, and, but
\* for the type that TypeReadsBack is about, as its own type, or throws.
THEOREM EveryReservationIsRead == RequestSpec => []ReservationRead
<1>1. CdbInv /\ AnswersInv => ReservationRead
  BY ReservationHolds DEF ReservationRead, ReservationReads
<1> QED BY <1>1, AnswersInvariant, PTL

\* The getters of bits.
LEMMA BitsRead ==
  ASSUME NEW x \in Byte, NEW s \in 0..7, NEW n \in 0..8
  PROVE  BitsOf(x, s, n) = {i \in 0..7 : i < n /\ i + s \in x}
<1>1. ASSUME NEW i \in 0..7 PROVE i \in BitsOf(x, s, n) <=> (i < n /\ i + s \in x)
  <2>1. i \in LowBits(n) <=> i < n
    BY LowBitsOfByte
  <2>2. i \in Shr(x, s) <=> i + s \in x
    BY DEF Shr
  <2> QED BY <2>1, <2>2 DEF BitsOf
<1>2. \A i \in BitsOf(x, s, n) : i \in 0..7
  BY DEF BitsOf
<1> QED BY <1>1, <1>2

\* The fields of the first two bytes of the standard page.
StandardByte(x, q, t) ==
  /\ x \in Byte /\ BitsOf(x, 5, 3) = q /\ BitsOf(x, 0, 5) = t
  /\ BitsOf({7}, 7, 1) # {} /\ BitsOf({}, 7, 1) = {}

\* The two fields of a byte of the standard page, each without the other.
LEMMA StandardBits ==
  ASSUME NEW q \in SUBSET (0..2), NEW t \in SUBSET (0..4), NEW x, x = t \cup Shl(q, 5)
  PROVE  StandardByte(x, q, t)
<1>1. \A i : i \in Shl(q, 5) <=> i \in 0..31 /\ i - 5 \in q
  BY DEF Shl
<1>2. x \in Byte
  <2>1. ASSUME NEW i \in x PROVE i \in 0..7
    <3>1. CASE i \in t
      BY <3>1
    <3>2. CASE i \in Shl(q, 5)
      <4>1. i \in 0..31 /\ i - 5 \in 0..2
        BY <1>1, <3>2
      <4> QED BY <4>1
    <3> QED BY <2>1, <3>1, <3>2
  <2> QED BY <2>1 DEF Byte
<1>3. PICK five, three, zero, one, seven :
        five = 5 /\ three = 3 /\ zero = 0 /\ one = 1 /\ seven = 7
  OBVIOUS
<1>4. BitsOf(x, five, three) = q
  <2>1. BitsOf(x, five, three) = {i \in 0..7 : i < three /\ i + five \in x}
    BY <1>2, <1>3, BitsRead
  <2>2. ASSUME NEW i \in 0..7 PROVE (i < 3 /\ i + 5 \in x) <=> i \in q
    <3>1. i + 5 \notin t /\ i + 5 - 5 = i /\ i + 5 \in 0..31
      OBVIOUS
    <3>2. i + 5 \in x <=> i \in q
      BY <1>1, <3>1
    <3>3. i \in q => i < 3
      OBVIOUS
    <3> QED BY <3>2, <3>3
  <2>3. \A i \in q : i \in 0..7
    OBVIOUS
  <2> QED BY <1>3, <2>1, <2>2, <2>3
<1>5. BitsOf(x, zero, five) = t
  <2>1. BitsOf(x, zero, five) = {i \in 0..7 : i < five /\ i + zero \in x}
    BY <1>2, <1>3, BitsRead
  <2>2. ASSUME NEW i \in 0..7 PROVE (i < 5 /\ i + 0 \in x) <=> i \in t
    <3>1. i < 5 => i - 5 \notin q
      OBVIOUS
    <3>2. i + 0 = i
      OBVIOUS
    <3>3. i \in t => i < 5
      OBVIOUS
    <3> QED BY <1>1, <3>1, <3>2, <3>3
  <2>3. \A i \in t : i \in 0..7
    OBVIOUS
  <2> QED BY <1>3, <2>1, <2>2, <2>3
<1>6. BitsOf({7}, seven, one) # {} /\ BitsOf({}, seven, one) = {}
  <2>1. {7} \in Byte /\ {} \in Byte
    BY DEF Byte
  <2>2. /\ BitsOf({7}, seven, one) = {i \in 0..7 : i < one /\ i + seven \in {7}}
        /\ BitsOf({}, seven, one) = {i \in 0..7 : i < one /\ i + seven \in {}}
    BY <1>3, <2>1, BitsRead
  <2>3. 0 \in {i \in 0..7 : i < one /\ i + seven \in {7}}
    BY <1>3
  <2> QED BY <2>2, <2>3
<1> QED BY <1>2, <1>3, <1>4, <1>5, <1>6 DEF StandardByte

\* What the getters of the standard page read.
StandardReads(v) ==
  /\ StringAt(8, 8) = IF Len(datain) >= 16 THEN v.vendor ELSE Throws
  /\ StringAt(16, 16) = IF Len(datain) >= 32 THEN v.product ELSE Throws
  /\ StringAt(32, 4) = IF Len(datain) >= 36 THEN v.rev ELSE Throws
  /\ BitsAt(0, 5, 3) \in {v.qualifier, Throws}
  /\ BitsAt(0, 0, 5) \in {v.type, Throws}
  /\ Readable(1, 1) => (BitsAt(1, 7, 1) # {} <=> v.rmb)

\* A string of the standard page: read whole, or not at all.
LEMMA OneString ==
  ASSUME NEW b, Reads(datain, b), NEW o \in Nat, NEW n \in Nat, 0 < n,
         NEW s \in Seq(Byte), Len(s) = n, Has(b, o, s)
  PROVE  StringAt(o, n) = IF Len(datain) >= o + n THEN s ELSE Throws
<1>1. datain \in Seq(Byte) /\ Len(datain) \in Nat /\ 0 < o + n
  BY DEF Reads
<1>2. Readable(o, n) <=> o + n <= Len(datain)
  BY <1>1, ReadableFacts
<1>3. o + n <= Len(datain) => GetBufferString(datain, o, n) = s
  BY StringReceived
<1> QED BY <1>1, <1>2, <1>3 DEF StringAt

\* What the getters of the standard page return.
LEMMA StandardGot ==
  ASSUME NEW v \in StandardData, NEW b, Reads(datain, b), StandardFormat(b, v)
  PROVE  StandardReads(v)
<1> DEFINE vendor == v.vendor
           product == v.product
           rev == v.rev
           q == v.qualifier
           t == v.type
<1>1. /\ q \in SUBSET (0..2) /\ t \in SUBSET (0..4) /\ v.rmb \in BOOLEAN
      /\ vendor \in [1..8 -> Byte] /\ product \in [1..16 -> Byte] /\ rev \in [1..4 -> Byte]
  BY StandardAssumption
<1>2. /\ vendor \in Seq(Byte) /\ Len(vendor) = 8 /\ product \in Seq(Byte)
      /\ Len(product) = 16 /\ rev \in Seq(Byte) /\ Len(rev) = 4
  BY <1>1, Strings
<1>3. /\ b[1] = t \cup Shl(q, 5) /\ b[2] = IF v.rmb THEN {7} ELSE {}
      /\ Has(b, 8, vendor) /\ Has(b, 16, product) /\ Has(b, 32, rev)
  BY DEF StandardFormat
<1>4. /\ datain \in Seq(Byte) /\ Len(datain) \in Nat
      /\ \A i \in 1..Len(datain) : datain[i] = b[i]
  BY DEF Reads
<1>5. /\ Readable(0, 1) => datain[0 + 1] = b[1]
      /\ Readable(1, 1) => datain[1 + 1] = b[2]
  <2>1. Readable(0, 1) => 1 \in 1..Len(datain)
    BY <1>4 DEF Readable
  <2>2. Readable(1, 1) => 2 \in 1..Len(datain)
    BY <1>4 DEF Readable
  <2> QED BY <1>4, <2>1, <2>2
<1> HIDE DEF vendor, product, rev, q, t
<1>6. PICK n4, n8, n16, n32 : n4 = 4 /\ n8 = 8 /\ n16 = 16 /\ n32 = 32
  OBVIOUS
<1>7. /\ n4 \in Nat /\ n8 \in Nat /\ n16 \in Nat /\ n32 \in Nat
      /\ 0 < n4 /\ 0 < n8 /\ 0 < n16
      /\ Has(b, n8, vendor) /\ Has(b, n16, product) /\ Has(b, n32, rev)
      /\ Len(vendor) = n8 /\ Len(product) = n16 /\ Len(rev) = n4
      /\ n8 + n8 = 16 /\ n16 + n16 = 32 /\ n32 + n4 = 36
  BY <1>2, <1>3, <1>6
<1>8. /\ StringAt(n8, n8) = IF Len(datain) >= n8 + n8 THEN vendor ELSE Throws
      /\ StringAt(n16, n16) = IF Len(datain) >= n16 + n16 THEN product ELSE Throws
      /\ StringAt(n32, n4) = IF Len(datain) >= n32 + n4 THEN rev ELSE Throws
  BY <1>2, <1>7, OneString
<1>9. /\ StringAt(8, 8) = IF Len(datain) >= 16 THEN vendor ELSE Throws
      /\ StringAt(16, 16) = IF Len(datain) >= 32 THEN product ELSE Throws
      /\ StringAt(32, 4) = IF Len(datain) >= 36 THEN rev ELSE Throws
  BY <1>6, <1>7, <1>8
<1>10. /\ BitsOf(b[1], 5, 3) = q /\ BitsOf(b[1], 0, 5) = t
       /\ BitsOf({7}, 7, 1) # {} /\ BitsOf({}, 7, 1) = {}
  <2>1. StandardByte(b[1], q, t)
    BY <1>1, <1>3, StandardBits, Zenon
  <2> QED BY <2>1 DEF StandardByte
<1>11. BitsAt(0, 5, 3) \in {q, Throws} /\ BitsAt(0, 0, 5) \in {t, Throws}
  BY <1>5, <1>10 DEF BitsAt, GetBufferBitArray
<1>12. ASSUME Readable(1, 1) PROVE BitsAt(1, 7, 1) # {} <=> v.rmb
  <2>1. BitsAt(1, 7, 1) = BitsOf(b[2], 7, 1)
    BY <1>5, <1>12 DEF BitsAt, GetBufferBitArray
  <2> QED BY <1>1, <1>3, <1>10, <2>1
<1> QED BY <1>9, <1>11, <1>12 DEF StandardReads, vendor, product, rev, q, t

\* The serial number, of a page that was received whole or not.
LEMMA SerialGot ==
  ASSUME NEW v \in Seq(Byte), Len(v) <= 255, NEW b, Reads(datain, b), ListFormat(b, v),
         Len(datain) <= Len(b)
  PROVE  GetUnitSerialNum = IF Len(datain) = Len(b) THEN v ELSE Throws
<1> DEFINE n == Len(v)
<1>1. /\ b \in Seq(Byte) /\ Len(b) = 4 + n /\ b[4] = Word8(n) /\ Has(b, 4, v)
      /\ n \in Nat /\ n <= 255
  BY DEF ListFormat
<1>2. /\ datain \in Seq(Byte) /\ Len(datain) \in Nat
      /\ \A i \in 1..Len(datain) : datain[i] = b[i]
  BY DEF Reads
<1> HIDE DEF n
<1>3. Readable(3, 1) <=> 4 <= Len(datain)
  <2>1. 3 \in Nat /\ 1 \in Nat /\ 0 < 3 + 1 /\ 3 + 1 = 4
    OBVIOUS
  <2> QED BY <1>2, <2>1, ReadableFacts
<1>4. CASE ~(4 <= Len(datain))
  BY <1>1, <1>2, <1>3, <1>4 DEF GetUnitSerialNum
<1>5. CASE 4 <= Len(datain)
  <2>1. ByteAt(3) = n
    <3>1. datain[3 + 1] = Word8(n)
      <4>1. 4 \in 1..Len(datain)
        BY <1>2, <1>5
      <4> QED BY <1>1, <1>2, <4>1
    <3>2. n \in 0..255
      BY <1>1
    <3> QED BY <3>1, <3>2, ByteFacts DEF ByteAt
  <2>2. Readable(4, n) <=> 4 + n <= Len(datain)
    <3>1. 4 \in Nat /\ 0 < 4 + n
      BY <1>1
    <3> QED BY <1>1, <1>2, <3>1, ReadableFacts
  <2>3. 4 + n <= Len(datain) => GetBufferString(datain, 4, n) = v
    <3>1. PICK m \in Nat : m = 4
      OBVIOUS
    <3>2. ASSUME m + n <= Len(datain) PROVE GetBufferString(datain, m, n) = v
      <4>1. Has(b, m, v) /\ Len(v) = n
        BY <1>1, <3>1 DEF n
      <4> QED BY <1>1, <3>2, <4>1, StringReceived
    <3> QED BY <3>1, <3>2
  <2> QED BY <1>1, <1>2, <1>3, <1>5, <2>1, <2>2, <2>3 DEF GetUnitSerialNum, StringAt
<1> QED BY <1>2, <1>4, <1>5

\* InquiryTruthful follows from AnswersInv.
LEMMA InquiryHolds == ASSUME AnswersInv PROVE InquiryTruthful
<1>1. ASSUME Answered("standard"), ~mEvpd
      PROVE  /\ \A f \in {<<"vendor", 8, 8>>, <<"product", 16, 16>>, <<"rev", 32, 4>>} :
                  StandardString(f[2], f[3]) =
                    IF Len(datain) >= f[2] + f[3] THEN held.is[f[1]] ELSE Throws
             /\ BitsAt(0, 5, 3) \in {held.is.qualifier, Throws}
             /\ BitsAt(0, 0, 5) \in {held.is.type, Throws}
             /\ Readable(1, 1) => (BitsAt(1, 7, 1) # {} <=> held.is.rmb)
  <2> DEFINE v == held.is
             b == Bytes(held)
  <2>1. executed /\ held.page = "standard"
    BY <1>1 DEF Answered
  <2>2. /\ held = [page |-> "standard", is |-> v] /\ Content("standard", v)
        /\ datain \in Seq(Byte) /\ \A i \in 1..Len(datain) : datain[i] = b[i]
    BY <2>1, Arrives
  <2>3. v \in StandardData /\ Reads(datain, b) /\ b = Bytes([page |-> "standard", is |-> v])
    BY <2>2 DEF Content, Reads
  <2> HIDE DEF v, b
  <2>4. StandardReads(v)
    BY <2>3, StandardBytes, StandardGot
  <2>5. \A o, n : StandardString(o, n) = StringAt(o, n)
    BY <1>1 DEF StandardString
  <2>6. /\ StandardString(8, 8) = IF Len(datain) >= 8 + 8 THEN v["vendor"] ELSE Throws
        /\ StandardString(16, 16) = IF Len(datain) >= 16 + 16 THEN v["product"] ELSE Throws
        /\ StandardString(32, 4) = IF Len(datain) >= 32 + 4 THEN v["rev"] ELSE Throws
    BY <2>4, <2>5 DEF StandardReads
  <2>7. ASSUME NEW f \in {<<"vendor", 8, 8>>, <<"product", 16, 16>>, <<"rev", 32, 4>>}
        PROVE  StandardString(f[2], f[3])
                 = IF Len(datain) >= f[2] + f[3] THEN v[f[1]] ELSE Throws
    BY <2>6, <2>7
  <2> QED BY <2>4, <2>7 DEF StandardReads, v
<1>2. mEvpd => \A o \in {8, 16, 32} : StandardString(o, 4) = Throws
  BY DEF StandardString
<1>3. ASSUME Answered("serial")
      PROVE  GetUnitSerialNum = IF Len(datain) = Len(Bytes(held)) THEN held.is ELSE Throws
  <2> DEFINE v == held.is
             b == Bytes(held)
  <2>1. executed /\ held.page = "serial"
    BY <1>3 DEF Answered
  <2>2. /\ held = [page |-> "serial", is |-> v] /\ Content("serial", v)
        /\ datain \in Seq(Byte) /\ \A i \in 1..Len(datain) : datain[i] = b[i]
        /\ Len(datain) <= Len(b)
    BY <2>1, Arrives
  <2>3. v \in Serials /\ Reads(datain, b) /\ b = Bytes([page |-> "serial", is |-> v])
    BY <2>2 DEF Content, Reads
  <2>4. Len(datain) <= Len(b)
    BY <2>2
  <2> HIDE DEF v, b
  <2>5. v \in Seq(Byte) /\ Len(v) <= 255 /\ ListFormat(b, v)
    BY <2>3, SerialBytes
  <2>6. GetUnitSerialNum = IF Len(datain) = Len(b) THEN v ELSE Throws
    BY <2>3, <2>4, <2>5, SerialGot
  <2> QED BY <2>6 DEF v, b
<1> QED BY <1>1, <1>2, <1>3 DEF InquiryTruthful

\* For everything that a target may say of itself and every size of the buffer: each getter
\* of INQUIRY returns what the target holds, or throws as it was not received.
THEOREM EveryInquiryIsTruthful == RequestSpec => []InquiryTruthful
<1>1. CdbInv /\ AnswersInv => InquiryTruthful
  BY InquiryHolds
<1> QED BY <1>1, AnswersInvariant, PTL

\* A number has one lowest bit.
LEMMA LowestBit ==
  ASSUME NEW a \in {0, 1}, NEW c \in {0, 1}, NEW p \in Nat, NEW q \in Nat,
         a + 2 * p = c + 2 * q
  PROVE  a = c /\ p = q
OBVIOUS

\* The bits of a number below 256.
Bits(p, a) ==
  p = a[0] + 2 * a[1] + 4 * a[2] + 8 * a[3] + 16 * a[4] + 32 * a[5] + 64 * a[6] + 128 * a[7]

\* A number has them in one way.
LEMMA EightBits ==
  ASSUME NEW a \in [0..7 -> {0, 1}], NEW c \in [0..7 -> {0, 1}], NEW n, Bits(n, a), Bits(n, c)
  PROVE  a = c
<1> DEFINE a0 == a[0] a1 == a[1] a2 == a[2] a3 == a[3]
           a4 == a[4] a5 == a[5] a6 == a[6] a7 == a[7]
           c0 == c[0] c1 == c[1] c2 == c[2] c3 == c[3]
           c4 == c[4] c5 == c[5] c6 == c[6] c7 == c[7]
<1>0. /\ a0 \in {0, 1} /\ a1 \in {0, 1} /\ a2 \in {0, 1} /\ a3 \in {0, 1}
      /\ a4 \in {0, 1} /\ a5 \in {0, 1} /\ a6 \in {0, 1} /\ a7 \in {0, 1}
      /\ c0 \in {0, 1} /\ c1 \in {0, 1} /\ c2 \in {0, 1} /\ c3 \in {0, 1}
      /\ c4 \in {0, 1} /\ c5 \in {0, 1} /\ c6 \in {0, 1} /\ c7 \in {0, 1}
  OBVIOUS
<1>30. /\ n = a0 + 2 * a1 + 4 * a2 + 8 * a3 + 16 * a4 + 32 * a5 + 64 * a6 + 128 * a7
      /\ n = c0 + 2 * c1 + 4 * c2 + 8 * c3 + 16 * c4 + 32 * c5 + 64 * c6 + 128 * c7
  BY DEF Bits
<1> USE <1>0
<1> HIDE DEF a0, a1, a2, a3, a4, a5, a6, a7, c0, c1, c2, c3, c4, c5, c6, c7
<1>1. PICK p1 \in Nat, q1 \in Nat :
        /\ p1 = a1 + 2 * a2 + 4 * a3 + 8 * a4 + 16 * a5 + 32 * a6 + 64 * a7
        /\ q1 = c1 + 2 * c2 + 4 * c3 + 8 * c4 + 16 * c5 + 32 * c6 + 64 * c7
  OBVIOUS
<1>2. a0 + 2 * p1 = c0 + 2 * q1
  BY <1>1, <1>30
<1>3. a0 = c0 /\ p1 = q1
  BY <1>2, LowestBit
<1>4. PICK p2 \in Nat, q2 \in Nat : /\ p2 = a2 + 2 * a3 + 4 * a4 + 8 * a5 + 16 * a6 + 32 * a7
                                    /\ q2 = c2 + 2 * c3 + 4 * c4 + 8 * c5 + 16 * c6 + 32 * c7
  OBVIOUS
<1>5. a1 + 2 * p2 = c1 + 2 * q2
  BY <1>1, <1>3, <1>4
<1>6. a1 = c1 /\ p2 = q2
  BY <1>5, LowestBit
<1>7. PICK p3 \in Nat, q3 \in Nat : /\ p3 = a3 + 2 * a4 + 4 * a5 + 8 * a6 + 16 * a7
                                    /\ q3 = c3 + 2 * c4 + 4 * c5 + 8 * c6 + 16 * c7
  OBVIOUS
<1>8. a2 + 2 * p3 = c2 + 2 * q3
  BY <1>4, <1>6, <1>7
<1>9. a2 = c2 /\ p3 = q3
  BY <1>8, LowestBit
<1>10. PICK p4 \in Nat, q4 \in Nat : /\ p4 = a4 + 2 * a5 + 4 * a6 + 8 * a7
                                     /\ q4 = c4 + 2 * c5 + 4 * c6 + 8 * c7
  OBVIOUS
<1>11. a3 + 2 * p4 = c3 + 2 * q4
  BY <1>7, <1>9, <1>10
<1>12. a3 = c3 /\ p4 = q4
  BY <1>11, LowestBit
<1>13. PICK p5 \in Nat, q5 \in Nat : /\ p5 = a5 + 2 * a6 + 4 * a7
                                     /\ q5 = c5 + 2 * c6 + 4 * c7
  OBVIOUS
<1>14. a4 + 2 * p5 = c4 + 2 * q5
  BY <1>10, <1>12, <1>13
<1>15. a4 = c4 /\ p5 = q5
  BY <1>14, LowestBit
<1>16. PICK p6 \in Nat, q6 \in Nat : /\ p6 = a6 + 2 * a7
                                     /\ q6 = c6 + 2 * c7
  OBVIOUS
<1>17. a5 + 2 * p6 = c5 + 2 * q6
  BY <1>13, <1>15, <1>16
<1>18. a5 = c5 /\ p6 = q6
  BY <1>17, LowestBit
<1>19. PICK p7 \in Nat, q7 \in Nat : /\ p7 = a7
                                     /\ q7 = c7
  OBVIOUS
<1>20. a6 + 2 * p7 = c6 + 2 * q7
  BY <1>16, <1>18, <1>19
<1>21. a6 = c6 /\ p7 = q7
  BY <1>20, LowestBit
<1>22. /\ a[0] = c[0] /\ a[1] = c[1] /\ a[2] = c[2] /\ a[3] = c[3]
       /\ a[4] = c[4] /\ a[5] = c[5] /\ a[6] = c[6] /\ a[7] = c[7]
  BY <1>3, <1>6, <1>9, <1>12, <1>15, <1>18, <1>19, <1>21
     DEF a0, a1, a2, a3, a4, a5, a6, a7, c0, c1, c2, c3, c4, c5, c6, c7
<1>23. \A i \in 0..7 : a[i] = c[i]
  BY <1>22
<1> QED BY <1>23

\* A byte is the one that its number makes.
LEMMA ByteOfValue ==
  ASSUME NEW x \in Byte, NEW n \in 0..255
  PROVE  Value(x) = n <=> x = Word8(n)
<1> DEFINE y == Word8(n)
           a == [i \in 0..7 |-> IF i \in x THEN 1 ELSE 0]
           c == [i \in 0..7 |-> IF i \in y THEN 1 ELSE 0]
<1>1. y \in Byte /\ Value(y) = n
  BY ByteFacts
<1> HIDE DEF y
<1>2. ASSUME NEW z \in Byte
      PROVE  Value(z) = Weight(z, 0) + Weight(z, 1) + Weight(z, 2) + Weight(z, 3)
                          + Weight(z, 4) + Weight(z, 5) + Weight(z, 6) + Weight(z, 7)
  <2>1. z \in SUBSET (0..31)
    BY DEF Byte
  <2>2. Value(z) = Number(z)
    BY <2>1, ValueIsNumber
  <2>3. \A i \in 8..31 : Weight(z, i) = 0
    BY DEF Weight, Byte
  <2>4. WeightOfByte(z, 1) = 0 /\ WeightOfByte(z, 2) = 0 /\ WeightOfByte(z, 3) = 0
    BY <2>3 DEF WeightOfByte
  <2>5. \A i \in 0..7 : Weight(z, i) \in Nat
    BY WeightFacts
  <2>6. WeightOfByte(z, 0) = Weight(z, 0) + Weight(z, 1) + Weight(z, 2) + Weight(z, 3)
                          + Weight(z, 4) + Weight(z, 5) + Weight(z, 6) + Weight(z, 7)
    BY DEF WeightOfByte
  <2> QED BY <2>2, <2>4, <2>5, <2>6 DEF Number
<1>3. /\ Value(x) = a[0] + 2 * a[1] + 4 * a[2] + 8 * a[3] + 16 * a[4] + 32 * a[5]
                      + 64 * a[6] + 128 * a[7]
      /\ Value(y) = c[0] + 2 * c[1] + 4 * c[2] + 8 * c[3] + 16 * c[4] + 32 * c[5]
                      + 64 * c[6] + 128 * c[7]
  <2>1. /\ Weight(x, 0) = a[0] /\ Weight(x, 1) = 2 * a[1] /\ Weight(x, 2) = 4 * a[2]
        /\ Weight(x, 3) = 8 * a[3] /\ Weight(x, 4) = 16 * a[4] /\ Weight(x, 5) = 32 * a[5]
        /\ Weight(x, 6) = 64 * a[6] /\ Weight(x, 7) = 128 * a[7]
    BY Powers DEF Weight
  <2>2. /\ Weight(y, 0) = c[0] /\ Weight(y, 1) = 2 * c[1] /\ Weight(y, 2) = 4 * c[2]
        /\ Weight(y, 3) = 8 * c[3] /\ Weight(y, 4) = 16 * c[4] /\ Weight(y, 5) = 32 * c[5]
        /\ Weight(y, 6) = 64 * c[6] /\ Weight(y, 7) = 128 * c[7]
    BY Powers DEF Weight
  <2>3. Value(x) = Weight(x, 0) + Weight(x, 1) + Weight(x, 2) + Weight(x, 3)
                          + Weight(x, 4) + Weight(x, 5) + Weight(x, 6) + Weight(x, 7)
    BY <1>2
  <2>4. Value(y) = Weight(y, 0) + Weight(y, 1) + Weight(y, 2) + Weight(y, 3)
                          + Weight(y, 4) + Weight(y, 5) + Weight(y, 6) + Weight(y, 7)
    BY <1>1, <1>2
  <2> QED BY <2>1, <2>2, <2>3, <2>4
<1>4. a \in [0..7 -> {0, 1}] /\ c \in [0..7 -> {0, 1}]
  OBVIOUS
<1>5. ASSUME Value(x) = Value(y) PROVE x = y
  <2>1. a = c
    <3>1. Bits(Value(x), a) /\ Bits(Value(x), c)
      BY <1>3, <1>5 DEF Bits
    <3> HIDE DEF a, c
    <3> QED BY <1>4, <3>1, EightBits
  <2>2. \A i \in 0..7 : a[i] = c[i]
    BY <2>1
  <2>3. \A i \in 0..7 : i \in x <=> i \in y
    BY <2>2
  <2> QED BY <1>1, <2>3 DEF Byte
<1> QED BY <1>1, <1>5 DEF y

\* The list of the pages, of the first 32 of which a request has room for.
LEMMA PagesGot ==
  ASSUME NEW v \in Seq(Byte), Len(v) <= 255, NEW b, Reads(datain, b), ListFormat(b, v),
         Len(datain) = First(Len(b), 36), Arrived(residual, Len(b), 36),
         kind = "supported", NEW page \in 0..255
  PROVE  HasPage(page) = (\E i \in DOMAIN v : i <= 32 /\ v[i] = Word8(page))
<1> DEFINE n == Len(v)
           m == First(n, 32)
<1>1. /\ b \in Seq(Byte) /\ Len(b) = 4 + n /\ b[4] = Word8(n) /\ Has(b, 4, v)
      /\ n \in Nat /\ n <= 255 /\ DOMAIN v = 1..n /\ \A i \in 1..n : v[i] \in Byte
  BY DEF ListFormat
<1>2. /\ datain \in Seq(Byte) /\ \A i \in 1..Len(datain) : datain[i] = b[i]
  BY DEF Reads
<1>3. \A i \in 1..n : b[4 + i] = v[i]
  BY <1>1 DEF Has
<1> HIDE DEF n
<1>4. m \in Nat /\ Len(datain) = 4 + m /\ m <= n /\ m <= 32 /\ (m = n \/ m = 32)
  BY <1>1 DEF First
<1>5. PageCount = m
  <2>1. CASE n < 32
    <3>1. residual.type = "underflow"
      BY <1>1, <2>1 DEF Arrived
    <3>2. Readable(3, 1)
      BY <1>2, <1>4 DEF Readable
    <3>3. ByteAt(3) = n
      <4>1. datain[3 + 1] = Word8(n)
        <5>1. 4 \in 1..Len(datain)
          BY <1>4
        <5> QED BY <1>1, <1>2, <5>1
      <4>2. n \in 0..255
        BY <1>1
      <4> QED BY <4>1, <4>2, ByteFacts DEF ByteAt
    <3>4. m = n
      BY <1>1, <2>1 DEF First
    <3> QED BY <3>1, <3>2, <3>3, <3>4 DEF PageCount
  <2>2. CASE ~(n < 32)
    <3>1. kind # "luns" /\ kind \in Measured
      BY ClassFacts DEF Measured
    <3>2. residual = [type |-> "none", count |-> 0]
      BY <1>1, <2>2, <3>1 DEF Arrived
    <3>3. m = 32
      BY <1>1, <2>2 DEF First
    <3> QED BY <3>2, <3>3 DEF PageCount
  <2> QED BY <2>1, <2>2
<1> HIDE DEF m
<1>6. PageCount # Throws
  BY <1>4, <1>5, ThrowsAssumption
<1>7. ASSUME NEW i \in 0..(m - 1)
      PROVE  (Readable(4 + i, 1) /\ ByteAt(4 + i) = page) <=> v[i + 1] = Word8(page)
  <2>1. i + 1 \in 1..n /\ 4 + i + 1 \in 1..Len(datain) /\ 4 + (i + 1) = 4 + i + 1 /\ 1 <= m
    BY <1>1, <1>4, <1>7
  <2>2. datain[4 + i + 1] = v[i + 1]
    BY <1>2, <1>3, <2>1
  <2>3. Readable(4 + i, 1)
    BY <1>2, <1>4, <2>1 DEF Readable
  <2>4. v[i + 1] \in Byte
    BY <1>1, <2>1
  <2> QED BY <2>2, <2>3, <2>4, ByteOfValue DEF ByteAt
<1>8. (\E i \in 0..(m - 1) : Readable(4 + i, 1) /\ ByteAt(4 + i) = page)
        <=> (\E i \in DOMAIN v : i <= 32 /\ v[i] = Word8(page))
  <2>1. ASSUME NEW i \in 0..(m - 1), Readable(4 + i, 1) /\ ByteAt(4 + i) = page
        PROVE  \E j \in DOMAIN v : j <= 32 /\ v[j] = Word8(page)
    <3>1. i + 1 \in DOMAIN v /\ i + 1 <= 32
      BY <1>1, <1>4, <2>1
    <3> QED BY <1>7, <2>1, <3>1
  <2>2. ASSUME NEW j \in DOMAIN v, j <= 32, v[j] = Word8(page)
        PROVE  \E i \in 0..(m - 1) : Readable(4 + i, 1) /\ ByteAt(4 + i) = page
    <3>1. j - 1 \in 0..(m - 1) /\ j - 1 + 1 = j
      BY <1>1, <1>4, <2>2
    <3> QED BY <1>7, <2>2, <3>1
  <2> QED BY <2>1, <2>2
<1>9. Readable(4, m) \/ m = 0
  BY <1>2, <1>4 DEF Readable
<1> QED BY <1>5, <1>6, <1>8, <1>9 DEF HasPage

\* HasPage finds the pages of the first 32 bytes, and no other.
LEMMA PagesHold ==
  ASSUME AnswersInv, Answered("supported"), kind = "supported", NEW page \in 0..255
  PROVE  HasPage(page) = (\E i \in DOMAIN held.is : i <= 32 /\ held.is[i] = Word8(page))
<1> DEFINE v == held.is
           b == Bytes(held)
<1>1. executed /\ held.page = "supported"
  BY DEF Answered
<1>2. /\ held = [page |-> "supported", is |-> v] /\ Content("supported", v)
      /\ datain \in Seq(Byte) /\ \A i \in 1..Len(datain) : datain[i] = b[i]
      /\ Len(datain) = First(Len(b), asked.length)
      /\ Arrived(residual, Len(b), asked.length)
  BY <1>1, Arrives
<1>3. asked.length = 36
  BY DEF AnswersInv, SizesInv
<1>4. v \in PageLists /\ Reads(datain, b) /\ b = Bytes([page |-> "supported", is |-> v])
  BY <1>2 DEF Content, Reads
<1>5. Len(datain) = First(Len(b), 36) /\ Arrived(residual, Len(b), 36)
  BY <1>2, <1>3
<1> HIDE DEF v, b
<1>6. v \in Seq(Byte) /\ Len(v) <= 255 /\ ListFormat(b, v)
  BY <1>4, SupportedBytes
<1>7. HasPage(page) = (\E i \in DOMAIN v : i <= 32 /\ v[i] = Word8(page))
  BY <1>4, <1>5, <1>6, PagesGot, Zenon
<1> QED BY <1>7 DEF v

\* For every list of pages: HasPage knows each of the first 32, no other, and does not
\* throw, whether the list is shorter than the buffer, fills it or was cut off.
THEOREM EveryPageIsFound == RequestSpec => []PagesFound
<1>1. CdbInv /\ AnswersInv => PagesFound
  BY PagesHold DEF PagesFound
<1> QED BY <1>1, AnswersInvariant, PTL

\* The first k of some sequences, joined.
Part(seqs, k) == FlattenSeq([i \in 1..k |-> seqs[i]])

\* One sequence starts with another.
Starts(s, t) == Len(s) <= Len(t) /\ \A i \in 1..Len(s) : t[i] = s[i]

\* g[i] is what is joined of the first i, of n sequences.
JoinedBy(g, seqs, n) ==
  g[1] = seqs[1] /\ \A i \in 2..n : g[i] = g[i - 1] \o seqs[i]

\* There is a function from the number of sequences joined to what was joined.
LEMMA PartsExist ==
  ASSUME NEW S, NEW seqs \in Seq(Seq(S)), NEW n, Len(seqs) = n, n # 0
  PROVE  \E g \in [1..n -> Seq(S)] : JoinedBy(g, seqs, n) /\ FlattenSeq(seqs) = g[n]
<1>1. Len(seqs) # 0
  OBVIOUS
<1>2. \E g \in [1..Len(seqs) -> Seq(S)] :
           /\ FlattenSeq(seqs) = g[Len(seqs)]
           /\ g[1] = seqs[1]
           /\ \A i \in 2..Len(seqs) : g[i] = g[i - 1] \o seqs[i]
  BY <1>1, JoinFacts, Zenon
<1> QED BY <1>2, Zenon DEF JoinedBy

\* Two functions have the same first m values.
Alike(s, t, m) == \A i \in 1..m : s[i] = t[i]

\* Functions that join the same sequences agree.
LEMMA PartsAgree ==
  ASSUME NEW s, NEW t, NEW m \in Nat, m >= 1, Alike(s, t, m),
         NEW g, JoinedBy(g, s, m), NEW h, NEW n \in Nat, m <= n, JoinedBy(h, t, n)
  PROVE  g[m] = h[m]
<1> DEFINE T == {j \in 1..m : g[j] = h[j]}
<1>1. /\ g[1] = s[1] /\ \A i \in 2..m : g[i] = g[i - 1] \o s[i]
      /\ h[1] = t[1] /\ \A i \in 2..n : h[i] = h[i - 1] \o t[i]
  BY DEF JoinedBy
<1> USE DEF Alike
<1>2. 1 \in T
  <2>1. 1 \in 1..m
    OBVIOUS
  <2> QED BY <1>1, <2>1
<1>3. ASSUME NEW j \in Nat, j >= 1, j < m, j \in T PROVE j + 1 \in T
  <2>1. /\ j + 1 \in 2..m /\ j + 1 \in 2..n /\ (j + 1) - 1 = j /\ j + 1 \in 1..m
    BY <1>3
  <2> DEFINE k == j + 1
  <2>2. k \in 2..m /\ k \in 2..n /\ k - 1 = j /\ k \in 1..m
    BY <2>1
  <2> HIDE DEF k
  <2>3. g[k] = g[j] \o s[k] /\ h[k] = h[j] \o t[k] /\ s[k] = t[k]
    BY <1>1, <2>2
  <2>4. g[k] = h[k]
    BY <1>3, <2>3
  <2> QED BY <2>2, <2>4 DEF k
<1> HIDE DEF T
<1>4. \A j \in 1..m : j \in T
  BY <1>2, <1>3, UpTo
<1> QED BY <1>4 DEF T

\* A part of them is a sequence of as many.
LEMMA PartSeqs ==
  ASSUME NEW S, NEW seqs \in Seq(Seq(S)), NEW k \in 0..Len(seqs)
  PROVE  /\ [i \in 1..k |-> seqs[i]] \in Seq(Seq(S)) /\ Len([i \in 1..k |-> seqs[i]]) = k
<1> DEFINE s == [i \in 1..k |-> seqs[i]]
<1>1. k \in Nat
  OBVIOUS
<1>2. s \in [1..k -> Seq(S)]
  OBVIOUS
<1> HIDE DEF s
<1>3. s \in Seq(Seq(S)) /\ Len(s) = k
  BY <1>1, <1>2, AsSequence
<1> QED BY <1>3 DEF s

\* The parts are sequences, the first is empty and the last is the whole.
LEMMA PartFacts ==
  ASSUME NEW S, NEW seqs \in Seq(Seq(S))
  PROVE  /\ \A k \in 0..Len(seqs) : Part(seqs, k) \in Seq(S)
         /\ Part(seqs, 0) = <<>>
         /\ Part(seqs, Len(seqs)) = FlattenSeq(seqs)
<1>1. ASSUME NEW k \in 0..Len(seqs) PROVE Part(seqs, k) \in Seq(S)
  <2> DEFINE s == [i \in 1..k |-> seqs[i]]
  <2>1. s \in Seq(Seq(S))
    BY PartSeqs
  <2>2. Part(seqs, k) = FlattenSeq(s)
    BY DEF Part
  <2> HIDE DEF s
  <2>3. FlattenSeq(s) \in Seq(S)
    BY <2>1, FlattenType, Zenon
  <2> QED BY <2>2, <2>3
<1>2. Part(seqs, 0) = <<>>
  <2>1. [i \in 1..0 |-> seqs[i]] = <<>>
    OBVIOUS
  <2>2. FlattenSeq(<<>>) = <<>>
    BY DEF FlattenSeq
  <2> QED BY <2>1, <2>2 DEF Part
<1>3. seqs = [i \in 1..Len(seqs) |-> seqs[i]]
  OBVIOUS
<1> QED BY <1>1, <1>2, <1>3 DEF Part

\* Each part is the one before and one more sequence.
LEMMA PartNext ==
  ASSUME NEW S, NEW seqs \in Seq(Seq(S)), NEW m \in Nat, NEW k, k = m + 1, k <= Len(seqs)
  PROVE  seqs[k] \in Seq(S) /\ Part(seqs, k) = Part(seqs, m) \o seqs[k]
<1> DEFINE s == [i \in 1..k |-> seqs[i]]
           t == [i \in 1..m |-> seqs[i]]
<1>1. /\ k \in Nat /\ k \in 0..Len(seqs) /\ m \in 0..Len(seqs) /\ seqs[k] \in Seq(S)
      /\ k # 0 /\ k \in 1..k /\ 1 \in 1..k
  OBVIOUS
<1>2. s \in Seq(Seq(S)) /\ Len(s) = k /\ t \in Seq(Seq(S)) /\ Len(t) = m
  BY <1>1, PartSeqs
<1>3. /\ \A i \in 1..k : s[i] = seqs[i]
      /\ \A i \in 1..m : t[i] = seqs[i]
  OBVIOUS
<1>4. Part(seqs, k) = FlattenSeq(s) /\ Part(seqs, m) = FlattenSeq(t)
  BY DEF Part
<1> HIDE DEF s, t
<1>5. PICK h \in [1..k -> Seq(S)] : JoinedBy(h, s, k) /\ FlattenSeq(s) = h[k]
  BY <1>1, <1>2, PartsExist, Zenon
<1>6. s[k] = seqs[k] /\ s[1] = seqs[1]
  BY <1>1, <1>3
<1>7. CASE m = 0
  <2>1. Part(seqs, m) = <<>>
    BY <1>7, PartFacts
  <2>2. h[k] = s[k]
    BY <1>5, <1>7 DEF JoinedBy
  <2> QED BY <1>1, <1>4, <1>5, <1>6, <2>1, <2>2
<1>8. CASE m # 0
  <2>1. PICK g \in [1..m -> Seq(S)] : JoinedBy(g, t, m) /\ FlattenSeq(t) = g[m]
    <3>1. t \in Seq(Seq(S))
      BY <1>2
    <3>2. Len(t) = m
      BY <1>2
    <3>3. m # 0
      BY <1>8
    <3>4. \A q, n : q \in Seq(Seq(S)) /\ Len(q) = n /\ n # 0 =>
            \E g \in [1..n -> Seq(S)] : JoinedBy(g, q, n) /\ FlattenSeq(q) = g[n]
      BY PartsExist, Zenon
    <3> QED BY <3>1, <3>2, <3>3, <3>4, Zenon
  <2>2. m >= 1 /\ m <= k /\ \A i \in 1..m : t[i] = s[i]
    BY <1>3, <1>8
  <2>3. g[m] = h[m]
    <3>1. k \in Nat /\ JoinedBy(g, t, m) /\ JoinedBy(h, s, k)
      BY <1>1, <1>5, <2>1
    <3>2. Alike(t, s, m)
      BY <2>2 DEF Alike
    <3>3. m >= 1
      BY <2>2
    <3>4. m <= k
      BY <2>2
    <3>5. k \in Nat
      BY <3>1
    <3>6. JoinedBy(g, t, m)
      BY <3>1
    <3>7. JoinedBy(h, s, k)
      BY <3>1
    <3>8. \A a, b, f, j : \A l, n \in Nat :
            l >= 1 /\ Alike(a, b, l) /\ JoinedBy(f, a, l) /\ l <= n /\ JoinedBy(j, b, n)
              => f[l] = j[l]
      BY PartsAgree, SMT
    <3> QED BY <3>2, <3>3, <3>4, <3>5, <3>6, <3>7, <3>8, SMT
  <2>4. h[k] = h[m] \o s[k]
    <3>1. k \in 2..k /\ k - 1 = m
      BY <2>2
    <3> QED BY <1>5, <3>1 DEF JoinedBy
  <2> QED BY <1>1, <1>4, <1>5, <1>6, <2>1, <2>3, <2>4
<1> QED BY <1>7, <1>8

\* A sequence starts with itself, and its start's start is its own.
LEMMA StartsFacts ==
  ASSUME NEW S, NEW s \in Seq(S), NEW t \in Seq(S)
  PROVE  /\ Starts(s, s) /\ Starts(s, s \o t)
<1>1. Len(s) \in Nat /\ Len(t) \in Nat
  OBVIOUS
<1>2. Len(s \o t) = Len(s) + Len(t) /\ \A i \in 1..Len(s) : (s \o t)[i] = s[i]
  OBVIOUS
<1> QED BY <1>1, <1>2 DEF Starts

\* A beginning of a beginning is a beginning.
LEMMA StartsOfStarts ==
  ASSUME NEW S, NEW s \in Seq(S), NEW t \in Seq(S), NEW u \in Seq(S),
         Starts(s, t), Starts(t, u)
  PROVE  Starts(s, u)
<1>1. Len(s) \in Nat /\ Len(t) \in Nat /\ Len(u) \in Nat
  OBVIOUS
<1>2. \A i \in 1..Len(s) : i \in 1..Len(t)
  BY <1>1 DEF Starts
<1> QED BY <1>1, <1>2 DEF Starts

\* The whole starts with each part.
LEMMA PartStarts ==
  ASSUME NEW S, NEW seqs \in Seq(Seq(S)), NEW k \in 0..Len(seqs)
  PROVE  Starts(Part(seqs, k), FlattenSeq(seqs))
<1> DEFINE n == Len(seqs)
           T == {m \in Nat : m <= k \/ (m <= n /\ Starts(Part(seqs, k), Part(seqs, m)))}
<1>1. n \in Nat /\ k \in 0..n /\ k \in Nat
  OBVIOUS
<1>2. FlattenSeq(seqs) = Part(seqs, n) /\ \A j \in 0..n : Part(seqs, j) \in Seq(S)
  BY PartFacts
<1>3. \A m \in Nat : \A j : j = m + 1 /\ j <= n =>
          seqs[j] \in Seq(S) /\ Part(seqs, j) = Part(seqs, m) \o seqs[j]
  BY PartNext
<1> HIDE DEF n
<1>4. Starts(Part(seqs, k), Part(seqs, k))
  BY <1>1, <1>2, StartsFacts
<1>5. CASE n = 0
  BY <1>1, <1>2, <1>4, <1>5
<1>6. CASE n # 0
  <2>1. 1 \in T
    <3>1. CASE k = 0
      <4>1. seqs[1] \in Seq(S) /\ Part(seqs, 1) = Part(seqs, 0) \o seqs[1]
        BY <1>1, <1>3, <1>6
      <4>2. Part(seqs, 0) \in Seq(S)
        BY <1>1, <1>2
      <4>3. Starts(Part(seqs, 0), Part(seqs, 1))
        BY <4>1, <4>2, StartsFacts
      <4> QED BY <1>1, <1>6, <3>1, <4>3
    <3>2. CASE k # 0
      BY <1>1, <3>2
    <3> QED BY <3>1, <3>2
  <2>2. ASSUME NEW m \in Nat, m >= 1, m < n, m \in T PROVE m + 1 \in T
    <3>1. CASE m + 1 <= k
      BY <3>1
    <3>2. CASE m = k
      <4>1. PICK j \in Nat : j = m + 1 /\ j <= n
        BY <1>1, <2>2
      <4>2. seqs[j] \in Seq(S) /\ Part(seqs, j) = Part(seqs, m) \o seqs[j]
        BY <1>3, <4>1
      <4>3. Part(seqs, m) \in Seq(S)
        BY <1>1, <1>2, <3>2
      <4>4. Starts(Part(seqs, m), Part(seqs, j))
        BY <4>2, <4>3, StartsFacts
      <4> QED BY <3>2, <4>1, <4>4
    <3>3. CASE m > k
      <4>1. PICK j \in Nat : j = m + 1 /\ j <= n
        BY <1>1, <2>2
      <4>2. seqs[j] \in Seq(S) /\ Part(seqs, j) = Part(seqs, m) \o seqs[j]
        BY <1>3, <4>1
      <4>3. Starts(Part(seqs, k), Part(seqs, m))
        BY <1>1, <2>2, <3>3
      <4>4. /\ Part(seqs, m) \in Seq(S) /\ Part(seqs, k) \in Seq(S)
            /\ Part(seqs, j) \in Seq(S)
        <5>1. m \in 0..n /\ j \in 0..n
          BY <1>1, <2>2, <4>1
        <5> QED BY <1>1, <1>2, <5>1
      <4>5. Starts(Part(seqs, m), Part(seqs, j))
        BY <4>2, <4>4, StartsFacts
      <4>6. Starts(Part(seqs, k), Part(seqs, j))
        BY <4>3, <4>4, <4>5, StartsOfStarts
      <4> QED BY <4>1, <4>6
    <3> QED BY <1>1, <3>1, <3>2, <3>3
  <2>3. \A m \in T : m > k => Starts(Part(seqs, k), Part(seqs, m))
    BY <1>1
  <2> HIDE DEF T
  <2>4. \A m \in 1..n : m \in T
    BY <1>1, <2>1, <2>2, UpTo
  <2>5. n \in T
    <3>1. n \in 1..n
      BY <1>1, <1>6
    <3> QED BY <2>4, <3>1
  <2>6. n = k \/ n > k
    BY <1>1
  <2> QED BY <1>2, <1>4, <2>3, <2>5, <2>6
<1> QED BY <1>5, <1>6

\* After a header of four bytes, each of some sequences is where those before it end.
LEMMA OneAfterAnother ==
  ASSUME NEW h \in Seq(Byte), Len(h) = 4, NEW seqs \in Seq(Seq(Byte)), NEW list, NEW b,
         list = FlattenSeq(seqs), Followed(h, list, b, 4),
         NEW m \in Nat, NEW k, k = m + 1, k <= Len(seqs)
  PROVE  /\ seqs[k] \in Seq(Byte) /\ Part(seqs, m) \in Seq(Byte) /\ Part(seqs, k) \in Seq(Byte)
         /\ Len(Part(seqs, k)) = Len(Part(seqs, m)) + Len(seqs[k])
         /\ Has(b, 4 + Len(Part(seqs, m)), seqs[k])
<1> DEFINE p == Part(seqs, m)
           q == Part(seqs, k)
           s == seqs[k]
<1>1. m \in 0..Len(seqs) /\ k \in 0..Len(seqs)
  OBVIOUS
<1>2. p \in Seq(Byte) /\ q \in Seq(Byte) /\ list \in Seq(Byte)
  <2>1. list \in Seq(Byte)
    BY FlattenType
  <2> QED BY <1>1, <2>1, PartFacts
<1>3. s \in Seq(Byte) /\ q = p \o s
  BY PartNext
<1>4. Starts(q, list)
  BY <1>1, PartStarts
<1> HIDE DEF p, q, s
<1>5. /\ Len(q) = Len(p) + Len(s) /\ Len(p) \in Nat /\ Len(s) \in Nat /\ Len(list) \in Nat
      /\ \A i \in 1..Len(s) : q[Len(p) + i] = s[i]
  BY <1>2, <1>3
<1>6. Len(q) <= Len(list) /\ \A i \in 1..Len(q) : list[i] = q[i]
  BY <1>4 DEF Starts
<1>7. Len(b) = 4 + Len(list) /\ \A i \in 1..Len(list) : b[4 + i] = list[i]
  BY DEF Followed, Has
<1>8. ASSUME NEW i \in 1..Len(s) PROVE b[(4 + Len(p)) + i] = s[i]
  <2> DEFINE j == Len(p) + i
  <2>1. j \in 1..Len(q) /\ j \in 1..Len(list) /\ (4 + Len(p)) + i = 4 + j
    BY <1>5, <1>6
  <2>2. q[j] = s[i]
    BY <1>5
  <2> HIDE DEF j
  <2> QED BY <1>6, <1>7, <2>1, <2>2
<1>9. (4 + Len(p)) + Len(s) <= Len(b)
  BY <1>5, <1>6, <1>7
<1>10. Has(b, 4 + Len(p), s)
  BY <1>8, <1>9 DEF Has
<1> QED BY <1>2, <1>3, <1>5, <1>10 DEF p, q, s

\* Where the descriptor k of a list is, or where one more would be.
At(v, k) == 4 + Len(DescriptorList(SubSeq(v, 1, k - 1)))

\* A descriptor is where the bytes of those before it end.
LEMMA AtPart ==
  ASSUME NEW v \in IdLists, NEW seqs, seqs = [i \in DOMAIN v |-> DescriptorBytes(v[i])],
         NEW m \in Nat, m <= Len(v)
  PROVE  At(v, m + 1) = 4 + Len(Part(seqs, m))
<1> DEFINE u == SubSeq(v, 1, m)
<1>1. v \in Seq(Descriptor) /\ DOMAIN v = 1..Len(v) /\ Len(v) \in Nat
  BY IdsFacts
<1>2. u = [i \in 1..m |-> v[i]]
  BY <1>1
<1>3. DOMAIN u = 1..m /\ \A i \in 1..m : u[i] = v[i] /\ i \in DOMAIN v
  BY <1>1, <1>2
<1> HIDE DEF u
<1>4. [i \in DOMAIN u |-> DescriptorBytes(u[i])] = [i \in 1..m |-> seqs[i]]
  BY <1>3
<1>5. DescriptorList(u) = Part(seqs, m)
  BY <1>4 DEF DescriptorList, Part
<1>6. (m + 1) - 1 = m
  OBVIOUS
<1> QED BY <1>5, <1>6 DEF At, u

\* A descriptor is four bytes and its ID.
LEMMA DescriptorLength ==
  ASSUME NEW d \in Descriptor
  PROVE  DescriptorBytes(d) \in Seq(Byte) /\ Len(DescriptorBytes(d)) = 4 + Len(d.id)
<1> DEFINE two == d.idType \cup Shl(d.association, 4) \cup (IF d.piv THEN {7} ELSE {})
           four == Word8(Len(d.id))
           id == d.id
           one == d.codeSet
<1>1. DescriptorBytes(d) \in Seq(Byte) /\ id \in Seq(Byte)
  BY DescriptorTyped, DescriptorFacts
<1>2. DescriptorBytes(d) = <<one, two, {}, four>> \o id
  BY DEF DescriptorBytes
<1> HIDE DEF one, two, four, id
<1>3. Len(<<one, two, {}, four>> \o id) = 4 + Len(id)
  <2> DEFINE S == Byte \cup {one, two, {}, four}
             a == <<one, two, {}, four>>
  <2>1. a \in Seq(S) /\ id \in Seq(S) /\ Len(a) = 4
    BY <1>1
  <2> HIDE DEF a
  <2> QED BY <2>1 DEF a
<1> QED BY <1>1, <1>2, <1>3 DEF id

\* The page of a list of descriptors.
DescriptorsFormat(b, v) ==
  /\ Fits16(Len(DescriptorList(v))) /\ Has(b, 2, Short(Len(DescriptorList(v))))
  /\ At(v, 1) = 4 /\ At(v, Len(v) + 1) = 4 + Len(DescriptorList(v))
  /\ Len(b) = At(v, Len(v) + 1)
  /\ \A i \in 1..Len(v) :
       /\ At(v, i) \in Nat /\ At(v, i) >= 4 /\ At(v, i + 1) = At(v, i) + 4 + Len(v[i].id)
       /\ DescriptorBytes(v[i]) \in Seq(Byte)
       /\ Len(DescriptorBytes(v[i])) = 4 + Len(v[i].id)
       /\ Has(b, At(v, i), DescriptorBytes(v[i]))

\* The page that the target answers has that format.
LEMMA DescriptorsMade ==
  ASSUME NEW v \in IdLists
  PROVE  DescriptorsFormat(Bytes([page |-> "deviceId", is |-> v]), v)
<1> DEFINE seqs == [i \in DOMAIN v |-> DescriptorBytes(v[i])]
           list == DescriptorList(v)
           a == <<{}, Word8(131)>>
           t == Short(Len(list))
           h == a \o t
           b == h \o list
           n == Len(v)
<1>1. /\ v \in Seq(Descriptor) /\ DOMAIN v = 1..n /\ n \in Nat
      /\ \A i \in 1..n : v[i] \in Descriptor
  BY IdsFacts
<1>2. Bytes([page |-> "deviceId", is |-> v]) = b
  BY DEF Bytes, ToBytes, Short
<1>3. list = FlattenSeq(seqs)
  BY DEF DescriptorList
<1>4. /\ seqs \in Seq(Seq(Byte)) /\ Len(seqs) = n
      /\ \A i \in 1..n : seqs[i] = DescriptorBytes(v[i])
  <2>1. seqs \in [1..n -> Seq(Byte)]
    BY <1>1, DescriptorTyped
  <2>2. \A i \in 1..n : seqs[i] = DescriptorBytes(v[i])
    BY <1>1
  <2> HIDE DEF seqs, n
  <2> QED BY <1>1, <2>1, <2>2, AsSequence
<1>5. seqs = [i \in DOMAIN v |-> DescriptorBytes(v[i])]
  OBVIOUS
<1> HIDE DEF seqs
<1>6. list \in Seq(Byte)
  BY <1>3, <1>4, FlattenType
<1>7. a \in Seq(Byte) /\ Len(a) = 2
  BY DEF Word8, Word, Byte
<1>8. t \in Seq(Byte) /\ Len(t) = 2
  BY ShortFacts
<1>9. Fits16(Len(list))
  <2>1. Len(list) \in Nat /\ Len(list) <= 65535
    BY <1>6, IdLengthsAssumption, SMT
  <2> QED BY <2>1, SMT DEF Fits16
<1> HIDE DEF a, t, list
<1>10. Followed(a, t, h, 2)
  BY <1>7, <1>8, Appended
<1>11. h \in Seq(Byte) /\ Len(h) = 4 /\ Has(h, 2, t)
  BY <1>8, <1>10 DEF Followed
<1> HIDE DEF h
<1>12. Followed(h, list, b, 4)
  BY <1>6, <1>11, Appended
<1> HIDE DEF b
<1>13. Has(b, 2, t)
  <2>1. 2 \in Nat /\ Len(list) \in Nat
    BY <1>6
  <2> QED BY <1>8, <1>11, <1>12, <2>1, HasStill
<1>14. Len(b) = 4 + Len(list)
  BY <1>12 DEF Followed
<1>15. \A m \in Nat : m <= n => At(v, m + 1) = 4 + Len(Part(seqs, m))
  BY <1>5, AtPart
<1>16. Part(seqs, 0) = <<>> /\ Part(seqs, n) = list
  BY <1>3, <1>4, PartFacts
<1>17. At(v, 1) = 4
  <2>1. 0 \in Nat /\ 0 <= n /\ 0 + 1 = 1
    BY <1>1
  <2>2. At(v, 0 + 1) = 4 + Len(Part(seqs, 0))
    BY <1>15, <2>1
  <2> QED BY <1>16, <2>1, <2>2
<1>18. At(v, n + 1) = 4 + Len(list)
  <2>1. n \in Nat /\ n <= n
    BY <1>1
  <2> QED BY <1>15, <1>16, <2>1
<1>19. ASSUME NEW i \in 1..n
       PROVE  /\ At(v, i) \in Nat /\ At(v, i) >= 4 /\ At(v, i + 1) = At(v, i) + 4 + Len(v[i].id)
              /\ DescriptorBytes(v[i]) \in Seq(Byte)
              /\ Len(DescriptorBytes(v[i])) = 4 + Len(v[i].id)
              /\ Has(b, At(v, i), DescriptorBytes(v[i]))
  <2> DEFINE m == i - 1
             s == DescriptorBytes(v[i])
             l == Len(v[i].id)
  <2>1. m \in Nat /\ i = m + 1 /\ i \in Nat /\ m <= n /\ i <= n /\ i <= Len(seqs)
    BY <1>1, <1>4
  <2>2. s \in Seq(Byte) /\ Len(s) = 4 + l /\ l \in Nat /\ seqs[i] = s
    <3>1. v[i] \in Descriptor
      BY <1>1
    <3>2. v[i].id \in Seq(Byte)
      BY <3>1, DescriptorFacts
    <3>3. l \in Nat
      BY <3>2
    <3> QED BY <1>4, <3>1, <3>3, DescriptorLength
  <2> HIDE DEF m, s, l
  <2>3. /\ Part(seqs, m) \in Seq(Byte) /\ Part(seqs, i) \in Seq(Byte)
        /\ Len(Part(seqs, i)) = Len(Part(seqs, m)) + Len(seqs[i])
        /\ Has(b, 4 + Len(Part(seqs, m)), seqs[i])
    BY <1>3, <1>4, <1>11, <1>12, <2>1, OneAfterAnother
  <2>4. At(v, i) = 4 + Len(Part(seqs, m)) /\ At(v, i + 1) = 4 + Len(Part(seqs, i))
    BY <1>15, <2>1
  <2>5. Len(Part(seqs, m)) \in Nat
    BY <2>3
  <2>6. At(v, i) \in Nat /\ At(v, i) >= 4 /\ At(v, i + 1) = At(v, i) + 4 + l
    BY <2>2, <2>3, <2>4, <2>5
  <2>7. Has(b, At(v, i), s)
    BY <2>2, <2>3, <2>4
  <2> QED BY <2>2, <2>6, <2>7 DEF s, l
<1>20. DescriptorsFormat(b, v)
  BY <1>9, <1>13, <1>14, <1>17, <1>18, <1>19 DEF DescriptorsFormat, t, list
<1> QED BY <1>2, <1>20

\* The recursion of Walk, along a page that ends at end.
WalkBody(g, end, o) ==
  IF o >= end THEN [found |-> <<>>, whole |-> TRUE]
  ELSE IF ~Readable(o + 3, 1) THEN [found |-> <<>>, whole |-> FALSE]
  ELSE LET rest == g[o + ByteAt(o + 3) + 4]
       IN  [rest EXCEPT !.found = <<o>> \o @]

IsWalk(g, end) == g = [o \in Nat |-> WalkBody(g, end, o)]

\* Walk is its own recursion, written out.
LEMMA WalkIsChosen ==
  Walk = (CHOOSE g : IsWalk(g, ShortAt(2) + 4))[4]
BY DEF Walk, IsWalk, WalkBody

\* The byte that a step of the walk reads.
LEMMA ByteRead ==
  ASSUME datain \in Seq(Byte), NEW o \in Nat, Readable(o, 1)
  PROVE  ByteAt(o) \in Nat /\ o + 1 <= Len(datain)
<1>1. o + 1 <= Len(datain)
  BY ReadableFacts
<1>2. o + 1 \in 1..Len(datain)
  BY <1>1
<1>3. datain[o + 1] \in Byte
  BY <1>2
<1>4. datain[o + 1] \in SUBSET (0..31)
  BY <1>3 DEF Byte
<1> QED BY <1>1, <1>4, ValueIsNumber, NumberFacts DEF ByteAt

\* A step of the walk looks further on only.
LEMMA WalkForward ==
  ASSUME datain \in Seq(Byte), NEW g, NEW h, NEW end, NEW o \in Nat,
         \A p \in Nat : p > o => h[p] = g[p]
  PROVE  WalkBody(h, end, o) = WalkBody(g, end, o)
<1>1. CASE Readable(o + 3, 1)
  <2> DEFINE p == o + ByteAt(o + 3) + 4
  <2>1. ByteAt(o + 3) \in Nat
    BY <1>1, ByteRead
  <2>2. p \in Nat /\ p > o
    BY <2>1
  <2> HIDE DEF p
  <2>3. h[p] = g[p]
    BY <2>2
  <2> QED BY <2>3 DEF WalkBody, p
<1>2. CASE ~Readable(o + 3, 1)
  BY <1>2 DEF WalkBody
<1> QED BY <1>1, <1>2

\* A solution of the recursion from m before the end on.
WalksFrom(g, end, m) ==
  /\ g = [o \in Nat |-> g[o]]
  /\ \A o \in Nat : o + m >= end + 1 => g[o] = WalkBody(g, end, o)

\* From the end on there is one.
LEMMA WalkEnds ==
  ASSUME NEW end \in Nat PROVE \E g : WalksFrom(g, end, 1)
<1> DEFINE g == [o \in Nat |-> [found |-> <<>>, whole |-> TRUE]]
<1>1. g = [o \in Nat |-> g[o]]
  OBVIOUS
<1>2. ASSUME NEW o \in Nat, o + 1 >= end + 1 PROVE g[o] = WalkBody(g, end, o)
  <2>1. o >= end
    BY <1>2
  <2> QED BY <2>1 DEF WalkBody
<1>3. WalksFrom(g, end, 1)
  BY <1>1, <1>2 DEF WalksFrom
<1> QED BY <1>3

\* And from one before as well.
LEMMA WalkBefore ==
  ASSUME datain \in Seq(Byte), NEW end \in Nat, NEW m \in Nat, NEW g, WalksFrom(g, end, m)
  PROVE  \E h : WalksFrom(h, end, m + 1)
<1> DEFINE h == [o \in Nat |-> IF o + m = end THEN WalkBody(g, end, o) ELSE g[o]]
<1>1. h = [o \in Nat |-> h[o]]
  OBVIOUS
<1>2. \A o \in Nat : h[o] = IF o + m = end THEN WalkBody(g, end, o) ELSE g[o]
  OBVIOUS
<1> HIDE DEF h
<1>3. ASSUME NEW o \in Nat, o + (m + 1) >= end + 1 PROVE h[o] = WalkBody(h, end, o)
  <2>1. h[o] = WalkBody(g, end, o)
    <3>1. CASE o + m = end
      BY <1>2, <3>1
    <3>2. CASE o + m # end
      <4>1. o + m >= end + 1
        BY <1>3, <3>2
      <4>2. g[o] = WalkBody(g, end, o)
        BY <4>1 DEF WalksFrom
      <4> QED BY <1>2, <3>2, <4>2
    <3> QED BY <3>1, <3>2
  <2>2. ASSUME NEW p \in Nat, p > o PROVE h[p] = g[p]
    <3>1. p + m # end
      BY <1>3, <2>2
    <3> QED BY <1>2, <3>1
  <2>3. WalkBody(h, end, o) = WalkBody(g, end, o)
    BY <2>2, WalkForward
  <2> QED BY <2>1, <2>3
<1>4. WalksFrom(h, end, m + 1)
  BY <1>1, <1>3 DEF WalksFrom
<1> QED BY <1>4

\* So the recursion of Walk has a solution.
LEMMA WalkExists ==
  ASSUME datain \in Seq(Byte), NEW end \in Nat
  PROVE  \E g : IsWalk(g, end)
<1> DEFINE T == {m \in Nat : \E g : WalksFrom(g, end, m)}
           n == end + 1
<1>1. 1 \in T
  BY WalkEnds
<1>2. \A m \in Nat : m >= 1 /\ m < n /\ m \in T => m + 1 \in T
  BY WalkBefore
<1>3. \A m \in T : \E g : WalksFrom(g, end, m)
  OBVIOUS
<1>4. n \in Nat /\ n \in 1..n
  OBVIOUS
<1> HIDE DEF T, n
<1>5. n \in T
  BY <1>1, <1>2, <1>4, UpTo
<1>6. PICK g : WalksFrom(g, end, n)
  BY <1>3, <1>5
<1>7. \A o \in Nat : o + n >= end + 1
  BY DEF n
<1>8. g = [o \in Nat |-> g[o]] /\ \A o \in Nat : g[o] = WalkBody(g, end, o)
  BY <1>6, <1>7 DEF WalksFrom
<1>9. [o \in Nat |-> g[o]] = [o \in Nat |-> WalkBody(g, end, o)]
  BY <1>8
<1> QED BY <1>8, <1>9 DEF IsWalk

\* Walk, as the value of a function that satisfies its recursion.
LEMMA WalkFacts ==
  ASSUME datain \in Seq(Byte), NEW end \in Nat, ShortAt(2) + 4 = end
  PROVE  \E g : Walk = g[4] /\ \A o \in Nat : g[o] = WalkBody(g, end, o)
<1> DEFINE g == CHOOSE f : IsWalk(f, end)
<1>1. Walk = g[4]
  BY WalkIsChosen
<1>2. IsWalk(g, end)
  BY WalkExists
<1> HIDE DEF g
<1>3. \A o \in Nat : g[o] = WalkBody(g, end, o)
  BY <1>2 DEF IsWalk
<1> QED BY <1>1, <1>3

\* The bytes of a descriptor.
LEMMA DescriptorFields ==
  ASSUME NEW d \in Descriptor
  PROVE  /\ DescriptorBytes(d)[1] = d.codeSet
         /\ DescriptorBytes(d)[2] =
              d.idType \cup Shl(d.association, 4) \cup (IF d.piv THEN {7} ELSE {})
         /\ DescriptorBytes(d)[4] = Word8(Len(d.id))
         /\ \A i \in 1..Len(d.id) : DescriptorBytes(d)[4 + i] = d.id[i]
<1> DEFINE two == d.idType \cup Shl(d.association, 4) \cup (IF d.piv THEN {7} ELSE {})
           four == Word8(Len(d.id))
           id == d.id
           one == d.codeSet
           a == <<one, two, {}, four>>
           S == Byte \cup {one, two, {}, four}
<1>1. id \in Seq(S)
  <2>1. id \in Seq(Byte)
    BY DescriptorFacts
  <2> QED BY <2>1
<1>2. DescriptorBytes(d) = a \o id
  BY DEF DescriptorBytes
<1>3. a \in Seq(S) /\ Len(a) = 4 /\ a[1] = one /\ a[2] = two /\ a[4] = four
  OBVIOUS
<1> HIDE DEF one, two, four, id, a, S
<1> DEFINE c == a \o id
<1>4. \A i \in 1..(Len(a) + Len(id)) : c[i] = IF i <= Len(a) THEN a[i] ELSE id[i - Len(a)]
  BY <1>1, <1>3, ConcatProperties
<1> HIDE DEF c
<1>5. Len(id) \in Nat
  BY <1>1
<1>6. c[1] = one /\ c[2] = two /\ c[4] = four
  BY <1>3, <1>4, <1>5
<1>7. ASSUME NEW i \in 1..Len(id) PROVE c[4 + i] = id[i]
  <2>1. 4 + i \in 1..(Len(a) + Len(id)) /\ ~(4 + i <= Len(a)) /\ (4 + i) - Len(a) = i
    BY <1>3, <1>5
  <2> QED BY <1>4, <2>1
<1> QED BY <1>2, <1>6, <1>7 DEF one, two, four, id, c

\* The offsets grow along the list.
LEMMA AtGrows ==
  ASSUME NEW b, NEW v, DescriptorsFormat(b, v), Len(v) \in Nat,
         \A i \in 1..Len(v) : Len(v[i].id) \in Nat,
         NEW j \in 1..Len(v)
  PROVE  \A k \in 1..(Len(v) + 1) : k > j => At(v, j) + 4 <= At(v, k) /\ At(v, k) \in Nat
<1> DEFINE n == Len(v)
           T == {k \in Nat : k > j => At(v, j) + 4 <= At(v, k) /\ At(v, k) \in Nat}
<1>1. /\ n \in Nat /\ j \in 1..n
      /\ \A i \in 1..n : At(v, i) \in Nat /\ At(v, i + 1) = At(v, i) + 4 + Len(v[i].id)
                         /\ Len(v[i].id) \in Nat
  BY DEF DescriptorsFormat
<1> HIDE DEF n
<1>2. 1 \in T
  BY <1>1
<1>3. ASSUME NEW k \in Nat, k >= 1, k < n + 1, k \in T PROVE k + 1 \in T
  <2>1. k \in 1..n
    BY <1>1, <1>3
  <2> DEFINE p == At(v, k)
             q == At(v, k + 1)
             o == At(v, j)
             l == Len(v[k].id)
  <2>2. p \in Nat /\ q = p + 4 + l /\ l \in Nat /\ o \in Nat
    BY <1>1, <2>1
  <2>3. k > j => o + 4 <= p
    BY <1>3
  <2>4. k = j => o = p
    OBVIOUS
  <2> HIDE DEF o, p, q, l
  <2>5. k + 1 > j => o + 4 <= q /\ q \in Nat
    BY <1>1, <2>1, <2>2, <2>3, <2>4
  <2> QED BY <2>5 DEF o, q
<1>4. \A k \in T : k > j => At(v, j) + 4 <= At(v, k) /\ At(v, k) \in Nat
  OBVIOUS
<1> HIDE DEF T
<1>5. \A k \in 1..(n + 1) : k \in T
  <2>1. n + 1 \in Nat
    BY <1>1
  <2> QED BY <1>2, <1>3, <2>1, UpTo
<1> QED BY <1>4, <1>5 DEF n

\* The length that the walk reads at a descriptor is that of its ID.
LEMMA LengthRead ==
  ASSUME NEW v \in IdLists, NEW b, DescriptorsFormat(b, v), Reads(datain, b),
         NEW j \in 1..Len(v), At(v, j) + 4 <= Len(datain)
  PROVE  ByteAt(At(v, j) + 3) = Len(v[j].id)
<1> DEFINE o == At(v, j)
           s == DescriptorBytes(v[j])
           l == Len(v[j].id)
<1>1. o \in Nat /\ Has(b, o, s) /\ Len(s) = 4 + l
  BY DEF DescriptorsFormat
<1>2. v[j] \in Descriptor /\ v[j].id \in Seq(Byte)
  BY IdsFacts, DescriptorFacts
<1>3. l \in Nat /\ l <= 255
  BY <1>2, IdLengthsAssumption, SMT
<1>4. s[4] = Word8(l)
  BY <1>2, DescriptorFields
<1>5. datain \in Seq(Byte) /\ \A i \in 1..Len(datain) : datain[i] = b[i]
  BY DEF Reads
<1> HIDE DEF s, l
<1>6. b[o + 4] = s[4]
  BY <1>1, <1>3 DEF Has
<1> HIDE DEF o
<1>7. datain[o + 4] = b[o + 4]
  BY <1>1, <1>5 DEF o
<1>8. (o + 3) + 1 = o + 4
  BY <1>1
<1>9. l \in 0..255
  BY <1>3
<1>10. Value(Word8(l)) = l
  BY <1>9, ByteFacts
<1> QED BY <1>4, <1>6, <1>7, <1>8, <1>10 DEF ByteAt, o, l

\* What a walk from the descriptor j on finds, of the n descriptors of a list: each
\* whose header was received, in their order, and all of them or it throws.
Found(w, v, n, j) ==
  /\ w = [found |-> w.found, whole |-> w.whole]
  /\ w.found \in Seq(Nat) /\ w.whole \in BOOLEAN
  /\ \A i \in 1..Len(w.found) : /\ w.found[i] = At(v, j + i - 1)
                                /\ At(v, j + i - 1) + 4 <= Len(datain)
  /\ j + Len(w.found) <= n + 1
  /\ w.whole => j + Len(w.found) = n + 1
  /\ ~w.whole => n >= 1 /\ Len(datain) < At(v, n) + 4

\* At the end it finds nothing more.
LEMMA FoundAtEnd ==
  ASSUME NEW v, NEW n \in Nat, NEW w, w = [found |-> <<>>, whole |-> TRUE]
  PROVE  Found(w, v, n, n + 1)
<1>1. w.found = <<>> /\ w.whole = TRUE /\ Len(<<>>) = 0
  OBVIOUS
<1> QED BY <1>1 DEF Found

\* Nor where the header was cut off.
LEMMA FoundAtCut ==
  ASSUME NEW v, NEW n \in Nat, NEW j \in 1..n, NEW w, w = [found |-> <<>>, whole |-> FALSE],
         Len(datain) < At(v, n) + 4
  PROVE  Found(w, v, n, j)
<1>1. w.found = <<>> /\ w.whole = FALSE /\ Len(<<>>) = 0
  OBVIOUS
<1> QED BY <1>1 DEF Found

\* A descriptor, and what is found after it.
LEMMA FoundOneMore ==
  ASSUME NEW v, NEW n \in Nat, NEW j \in 1..n, NEW r, Found(r, v, n, j + 1),
         NEW o \in Nat, o = At(v, j), o + 4 <= Len(datain),
         NEW w, w = [r EXCEPT !.found = <<o>> \o @]
  PROVE  Found(w, v, n, j)
<1> DEFINE f == r.found
           g == <<o>> \o f
<1>1. /\ r = [found |-> f, whole |-> r.whole] /\ f \in Seq(Nat) /\ r.whole \in BOOLEAN
      /\ \A i \in 1..Len(f) : /\ f[i] = At(v, (j + 1) + i - 1)
                              /\ At(v, (j + 1) + i - 1) + 4 <= Len(datain)
      /\ (j + 1) + Len(f) <= n + 1
      /\ r.whole => (j + 1) + Len(f) = n + 1
      /\ ~r.whole => n >= 1 /\ Len(datain) < At(v, n) + 4
  BY DEF Found
<1>2. w = [r EXCEPT !.found = g]
  OBVIOUS
<1>3. w = [found |-> g, whole |-> r.whole] /\ w.found = g /\ w.whole = r.whole
  BY <1>1, <1>2
<1> HIDE DEF f
<1>4. <<o>> \in Seq(Nat) /\ Len(<<o>>) = 1 /\ <<o>>[1] = o
  OBVIOUS
<1>5. /\ g \in Seq(Nat) /\ Len(g) = 1 + Len(f) /\ Len(f) \in Nat /\ g[1] = o
      /\ \A i \in 2..(1 + Len(f)) : g[i] = f[i - 1]
  <2> DEFINE a == <<o>>
  <2>1. a \in Seq(Nat) /\ Len(a) = 1 /\ a[1] = o /\ Len(f) \in Nat
    BY <1>1, <1>4
  <2> HIDE DEF a
  <2>2. /\ a \o f \in Seq(Nat) /\ Len(a \o f) = Len(a) + Len(f)
        /\ \A i \in 1..(Len(a) + Len(f)) :
              (a \o f)[i] = IF i <= Len(a) THEN a[i] ELSE f[i - Len(a)]
    <3>1. f \in Seq(Nat)
      BY <1>1
    <3>2. a \in Seq(Nat)
      BY <2>1
    <3> QED BY <3>1, <3>2, ConcatProperties
  <2>3. g = a \o f
    BY DEF a
  <2> HIDE DEF g
  <2>4. \A i \in 1..(1 + Len(f)) : g[i] = IF i <= 1 THEN a[i] ELSE f[i - 1]
    <3>1. 1 + Len(f) = Len(a) + Len(f)
      BY <2>1
    <3> QED BY <2>1, <2>2, <2>3, <3>1
  <2> DEFINE m == 1 + Len(f)
  <2>5. m \in Nat /\ 1 \in 1..m /\ \A i \in 2..m : i \in 1..m /\ ~(i <= 1)
    BY <2>1
  <2>6. \A i \in 1..m : g[i] = IF i <= 1 THEN a[i] ELSE f[i - 1]
    BY <2>4
  <2> HIDE DEF m
  <2>7. g[1] = o
    <3>1. 1 \in 1..m
      BY <2>5
    <3>2. g[1] = a[1]
      BY <2>6, <3>1
    <3> QED BY <2>1, <3>2
  <2>8. \A i \in 2..m : g[i] = f[i - 1]
    BY <2>5, <2>6
  <2> QED BY <2>1, <2>2, <2>3, <2>7, <2>8 DEF m
<1> HIDE DEF g
<1>6. ASSUME NEW i \in 1..Len(g)
      PROVE  g[i] = At(v, j + i - 1) /\ At(v, j + i - 1) + 4 <= Len(datain)
  <2>1. CASE i = 1
    <3>1. j + i - 1 = j
      BY <2>1
    <3> QED BY <1>5, <2>1, <3>1
  <2>2. CASE i # 1
    <3> DEFINE k == i - 1
    <3>1. k \in 1..Len(f) /\ i \in 2..(1 + Len(f)) /\ (j + 1) + k - 1 = j + i - 1
      <4>0. Len(f) \in Nat /\ Len(g) = 1 + Len(f)
        BY <1>5
      <4>1. i \in Nat /\ i >= 2 /\ i <= 1 + Len(f)
        BY <2>2, <4>0
      <4>2. k \in 1..Len(f)
        BY <4>0, <4>1
      <4>3. i \in 2..(1 + Len(f))
        BY <4>0, <4>1
      <4>4. (j + 1) + k - 1 = j + i - 1
        BY <4>1
      <4> QED BY <4>2, <4>3, <4>4
    <3> HIDE DEF k
    <3>2. f[k] = At(v, (j + 1) + k - 1) /\ At(v, (j + 1) + k - 1) + 4 <= Len(datain)
      BY <1>1, <3>1
    <3>3. g[i] = f[k]
      BY <1>5, <3>1 DEF k
    <3> QED BY <3>1, <3>2, <3>3
  <2> QED BY <2>1, <2>2
<1>7. j + Len(g) = (j + 1) + Len(f)
  BY <1>5
<1> QED BY <1>1, <1>3, <1>5, <1>6, <1>7 DEF Found

\* The walk of GetDescriptorCount along a page, as much of it as was received.
LEMMA WalkFinds ==
  ASSUME NEW v \in IdLists, NEW b, DescriptorsFormat(b, v), Reads(datain, b),
         4 <= Len(datain)
  PROVE  Found(Walk, v, Len(v), 1)
<1> DEFINE n == Len(v)
           end == At(v, n + 1)
<1>1. /\ n \in Nat /\ \A i \in 1..n : v[i] \in Descriptor
      /\ datain \in Seq(Byte) /\ Len(datain) \in Nat
  BY IdsFacts DEF Reads
<1>2. \A i \in 1..n : Len(v[i].id) \in Nat
  <2>1. \A i \in 1..n : v[i].id \in Seq(Byte)
    BY <1>1, DescriptorFacts
  <2> QED BY <2>1
<1>3. /\ At(v, 1) = 4
      /\ \A i \in 1..n : At(v, i) \in Nat /\ At(v, i + 1) = At(v, i) + 4 + Len(v[i].id)
  BY DEF DescriptorsFormat
<1>4. \A i \in 1..n : \A k \in 1..(n + 1) :
        k > i => At(v, i) + 4 <= At(v, k) /\ At(v, k) \in Nat
  BY <1>1, <1>2, AtGrows
<1>5. end \in Nat /\ ShortAt(2) + 4 = end
  <2> DEFINE l == Len(DescriptorList(v))
  <2>1. Fits16(l) /\ Has(b, 2, Short(l)) /\ end = 4 + l
    BY DEF DescriptorsFormat
  <2> HIDE DEF l
  <2>2. 2 \in Nat /\ 2 + 2 <= Len(datain)
    OBVIOUS
  <2>3. Value(GetBufferShort(datain, 2)) = l
    BY <2>1, <2>2, ShortReceived, Zenon
  <2>4. l \in Nat
    BY <2>1, FitValue
  <2> QED BY <2>1, <2>3, <2>4 DEF ShortAt
<1>6. \A i \in 1..n : ByteAt(At(v, i) + 3) = Len(v[i].id) \/ ~(At(v, i) + 4 <= Len(datain))
  BY LengthRead
<1> HIDE DEF n, end
<1>7. PICK g : Walk = g[4] /\ \A o \in Nat : g[o] = WalkBody(g, end, o)
  BY <1>1, <1>5, WalkFacts
<1> DEFINE T == {k \in Nat : \A j \in 1..(n + 1) : j + k = n + 2 => Found(g[At(v, j)], v, n, j)}
<1>8. 1 \in T
  <2> SUFFICES ASSUME NEW j \in 1..(n + 1), j + 1 = n + 2 PROVE Found(g[At(v, j)], v, n, j)
    OBVIOUS
  <2>1. j = n + 1 /\ At(v, j) = end
    BY <1>1 DEF end
  <2>2. g[end] = [found |-> <<>>, whole |-> TRUE]
    <3>1. g[end] = WalkBody(g, end, end) /\ end >= end
      BY <1>5, <1>7
    <3> QED BY <3>1 DEF WalkBody
  <2> QED BY <1>1, <2>1, <2>2, FoundAtEnd
<1>9. ASSUME NEW k \in Nat, k >= 1, k < n + 1, k \in T PROVE k + 1 \in T
  <2> SUFFICES ASSUME NEW j \in 1..(n + 1), j + (k + 1) = n + 2
               PROVE  Found(g[At(v, j)], v, n, j)
    OBVIOUS
  <2> DEFINE o == At(v, j)
             i == j + 1
             l == Len(v[j].id)
  <2>1. j \in 1..n /\ i \in 1..(n + 1) /\ i + k = n + 2 /\ i = j + 1
    BY <1>1, <1>9
  <2>2. Found(g[At(v, i)], v, n, i)
    BY <1>9, <2>1
  <2>3. o \in Nat /\ l \in Nat /\ At(v, i) = o + 4 + l
    BY <1>2, <1>3, <2>1
  <2>4. o < end
    <3>1. n + 1 \in 1..(n + 1) /\ n + 1 > j
      BY <1>1, <2>1
    <3>2. o + 4 <= end
      BY <1>4, <2>1, <3>1 DEF end
    <3> QED BY <1>5, <2>3, <3>2
  <2>5. g[o] = WalkBody(g, end, o)
    BY <1>7, <2>3
  <2>6. Readable(o + 3, 1) <=> o + 4 <= Len(datain)
    <3>1. o + 3 \in Nat /\ 1 \in Nat /\ 0 < (o + 3) + 1 /\ (o + 3) + 1 = o + 4
      BY <2>3
    <3> QED BY <1>1, <3>1, ReadableFacts
  <2>7. CASE o + 4 <= Len(datain)
    <3>1. ByteAt(o + 3) = l
      BY <1>6, <2>1, <2>7
    <3> DEFINE r == g[At(v, i)]
    <3>2. o + l + 4 = At(v, i)
      <4> HIDE DEF o, l, i
      <4> QED BY <2>3
    <3>3. g[o] = [r EXCEPT !.found = <<o>> \o @]
      <4>1. ~(o >= end)
        BY <1>5, <2>3, <2>4
      <4> HIDE DEF o, l, i
      <4> QED BY <2>5, <2>6, <2>7, <3>1, <3>2, <4>1 DEF WalkBody
    <3>4. o = At(v, j)
      OBVIOUS
    <3> HIDE DEF o, r
    <3>5. Found(r, v, n, j + 1)
      BY <2>1, <2>2 DEF r
    <3>6. Found(g[o], v, n, j)
      BY <1>1, <2>1, <2>3, <2>7, <3>3, <3>4, <3>5, FoundOneMore
    <3> QED BY <3>4, <3>6
  <2>8. CASE ~(o + 4 <= Len(datain))
    <3>1. g[o] = [found |-> <<>>, whole |-> FALSE]
      <4>1. ~(o >= end)
        BY <1>5, <2>3, <2>4
      <4> QED BY <2>5, <2>6, <2>8, <4>1 DEF WalkBody
    <3>2. Len(datain) < At(v, n) + 4
      <4>1. n \in 1..n /\ n \in 1..(n + 1) /\ (n = j \/ n > j)
        BY <1>1, <2>1
      <4>2. At(v, n) \in Nat /\ (n > j => o + 4 <= At(v, n))
        BY <1>3, <1>4, <2>1, <4>1
      <4>3. n = j => At(v, n) = o
        OBVIOUS
      <4> QED BY <1>1, <2>3, <2>8, <4>1, <4>2, <4>3
    <3> QED BY <1>1, <2>1, <3>1, <3>2, FoundAtCut
  <2> QED BY <2>7, <2>8
<1>10. \A k \in T : \A j \in 1..(n + 1) : j + k = n + 2 => Found(g[At(v, j)], v, n, j)
  OBVIOUS
<1> HIDE DEF T
<1>11. n + 1 \in T
  <2>1. n + 1 \in Nat /\ n + 1 \in 1..(n + 1)
    BY <1>1
  <2>2. \A k \in 1..(n + 1) : k \in T
    BY <1>8, <1>9, <2>1, UpTo
  <2> QED BY <2>1, <2>2
<1>12. Found(g[At(v, 1)], v, n, 1)
  <2>1. 1 \in 1..(n + 1) /\ 1 + (n + 1) = n + 2
    BY <1>1
  <2> QED BY <1>10, <1>11, <2>1
<1> QED BY <1>3, <1>7, <1>12 DEF n

\* The fields of the second byte of a descriptor.
DescriptorBits(x, t, a, p) ==
  /\ x \in Byte /\ BitsOf(x, 0, 4) = t /\ BitsOf(x, 4, 2) = a
  /\ BitsOf(x, 7, 1) = IF p = {} THEN {} ELSE {0}

\* Each is read without the others.
LEMMA SecondByte ==
  ASSUME NEW t \in SUBSET (0..3), NEW a \in SUBSET (0..1), NEW p \in {{}, {7}},
         NEW x, x = t \cup Shl(a, 4) \cup p
  PROVE  DescriptorBits(x, t, a, p)
<1>1. \A i : i \in Shl(a, 4) <=> i \in 0..31 /\ i - 4 \in a
  BY DEF Shl
<1>2. x \in Byte
  <2>1. ASSUME NEW i \in x PROVE i \in 0..7
    <3>1. CASE i \in t
      BY <3>1
    <3>2. CASE i \in Shl(a, 4)
      <4>1. i \in 0..31 /\ i - 4 \in 0..1
        BY <1>1, <3>2
      <4> QED BY <4>1
    <3>3. CASE i \in p
      BY <3>3
    <3> QED BY <2>1, <3>1, <3>2, <3>3
  <2> QED BY <2>1 DEF Byte
<1>3. PICK zero, one, two, four, seven :
        zero = 0 /\ one = 1 /\ two = 2 /\ four = 4 /\ seven = 7
  OBVIOUS
<1>4. BitsOf(x, zero, four) = t
  <2>1. BitsOf(x, zero, four) = {i \in 0..7 : i < four /\ i + zero \in x}
    BY <1>2, <1>3, BitsRead
  <2>2. ASSUME NEW i \in 0..7 PROVE (i < 4 /\ i + 0 \in x) <=> i \in t
    <3>1. i < 4 => i - 4 \notin a /\ i \notin p
      OBVIOUS
    <3>2. i + 0 = i
      OBVIOUS
    <3>3. i \in t => i < 4
      OBVIOUS
    <3> QED BY <1>1, <3>1, <3>2, <3>3
  <2>3. \A i \in t : i \in 0..7
    OBVIOUS
  <2> QED BY <1>3, <2>1, <2>2, <2>3
<1>5. BitsOf(x, four, two) = a
  <2>1. BitsOf(x, four, two) = {i \in 0..7 : i < two /\ i + four \in x}
    BY <1>2, <1>3, BitsRead
  <2>2. ASSUME NEW i \in 0..7 PROVE (i < 2 /\ i + 4 \in x) <=> i \in a
    <3>1. i + 4 \notin t /\ i + 4 - 4 = i /\ i + 4 \in 0..31
      OBVIOUS
    <3>2. i < 2 => i + 4 \notin p
      OBVIOUS
    <3>3. i \in a => i < 2
      OBVIOUS
    <3>4. i < 2 => (i + 4 \in x <=> i \in a)
      BY <1>1, <3>1, <3>2
    <3> QED BY <3>3, <3>4
  <2>3. \A i \in a : i \in 0..7
    OBVIOUS
  <2> QED BY <1>3, <2>1, <2>2, <2>3
<1>6. BitsOf(x, seven, one) = IF p = {} THEN {} ELSE {0}
  <2>1. BitsOf(x, seven, one) = {i \in 0..7 : i < one /\ i + seven \in x}
    BY <1>2, <1>3, BitsRead
  <2>2. 7 \in x <=> p # {}
    <3>1. 7 \notin t /\ 7 - 4 \notin a /\ (7 \in p <=> p # {})
      OBVIOUS
    <3> QED BY <1>1, <3>1
  <2>3. ASSUME NEW i \in 0..7 PROVE (i < 1 /\ i + 7 \in x) <=> i = 0 /\ p # {}
    <3>1. i < 1 <=> i = 0
      OBVIOUS
    <3>2. i = 0 => i + 7 = 7
      OBVIOUS
    <3> QED BY <2>2, <3>1, <3>2
  <2>4. BitsOf(x, seven, one) = {i \in 0..7 : i < 1 /\ i + 7 \in x}
    BY <1>3, <2>1
  <2>5. {i \in 0..7 : i < 1 /\ i + 7 \in x} = {i \in 0..7 : i = 0 /\ p # {}}
    BY <2>3
  <2>6. p # {} => {i \in 0..7 : i = 0 /\ p # {}} = {0}
    OBVIOUS
  <2>7. p = {} => {i \in 0..7 : i = 0 /\ p # {}} = {}
    OBVIOUS
  <2> QED BY <2>4, <2>5, <2>6, <2>7
<1> QED BY <1>2, <1>3, <1>4, <1>5, <1>6 DEF DescriptorBits

\* The types of an ID that the code knows are those up to 8.
LEMMA KnownTypes ==
  ASSUME NEW t \in SUBSET (0..3)
  PROVE  Value(t) <= 8 <=> t \subseteq 0..2 \/ t = {3}
<1>1. Value(t) = Number(t)
  <2>1. t \in SUBSET (0..31)
    OBVIOUS
  <2> QED BY <2>1, ValueIsNumber
<1>2. \A i \in 4..31 : Weight(t, i) = 0
  BY DEF Weight
<1>3. Number(t) = Weight(t, 0) + Weight(t, 1) + Weight(t, 2) + Weight(t, 3)
  <2>1. /\ Weight(t, 0) \in Nat /\ Weight(t, 1) \in Nat /\ Weight(t, 2) \in Nat
        /\ Weight(t, 3) \in Nat
    BY WeightFacts
  <2>2. WeightOfByte(t, 0) = Weight(t, 0) + Weight(t, 1) + Weight(t, 2) + Weight(t, 3)
    BY <1>2, <2>1 DEF WeightOfByte
  <2>3. WeightOfByte(t, 1) = 0 /\ WeightOfByte(t, 2) = 0 /\ WeightOfByte(t, 3) = 0
    BY <1>2 DEF WeightOfByte
  <2> QED BY <2>1, <2>2, <2>3 DEF Number
<1>4. /\ Weight(t, 0) = IF 0 \in t THEN 1 ELSE 0
      /\ Weight(t, 1) = IF 1 \in t THEN 2 ELSE 0
      /\ Weight(t, 2) = IF 2 \in t THEN 4 ELSE 0
      /\ Weight(t, 3) = IF 3 \in t THEN 8 ELSE 0
  BY Powers DEF Weight
<1>5. t \subseteq 0..2 <=> 3 \notin t
  OBVIOUS
<1>6. t = {3} <=> 3 \in t /\ 0 \notin t /\ 1 \notin t /\ 2 \notin t
  <2>1. ASSUME 3 \in t, 0 \notin t, 1 \notin t, 2 \notin t PROVE t = {3}
    <3>1. \A i \in t : i \in 0..3
      OBVIOUS
    <3>2. \A i \in t : i = 3
      BY <2>1, <3>1
    <3> QED BY <2>1, <3>2
  <2> QED BY <2>1
<1> QED BY <1>1, <1>3, <1>4, <1>5, <1>6

\* What the getters of SCSIDeviceID return at the offset o of the descriptor d.
ReadsAs(o, d) ==
  /\ GetCodeSet(o) = IF d.codeSet \in {{0}, {1}, {0, 1}} THEN d.codeSet ELSE {}
  /\ GetIDType(o) = IF Value(d.idType) <= 8 THEN d.idType ELSE {0, 3}
  /\ GetAssociation(o) = d.association
  /\ GetPIV(o) = IF d.piv THEN {0} ELSE {}
  /\ GetID(o) \in {d.id, Throws}

\* A descriptor whose header was received reads as itself.
LEMMA DescriptorGot ==
  ASSUME NEW v \in IdLists, NEW b, DescriptorsFormat(b, v), Reads(datain, b),
         NEW j \in 1..Len(v), At(v, j) + 4 <= Len(datain)
  PROVE  ReadsAs(At(v, j), v[j])
<1> DEFINE o == At(v, j)
           d == v[j]
           s == DescriptorBytes(d)
           id == d.id
           set == d.codeSet
           t == d.idType
           a == d.association
           p == IF d.piv THEN {7} ELSE {}
           l == Len(id)
<1>1. d \in Descriptor
  BY IdsFacts
<1>2. /\ set \in SUBSET (0..3) /\ t \in SUBSET (0..3) /\ a \in SUBSET (0..1)
      /\ p \in {{}, {7}} /\ id \in Seq(Byte) /\ l \in Nat
  BY <1>1, DescriptorFacts
<1>3. /\ o \in Nat /\ s \in Seq(Byte) /\ Len(s) = 4 + l /\ Has(b, o, s)
  BY DEF DescriptorsFormat
<1>4. /\ s[1] = set /\ s[2] = t \cup Shl(a, 4) \cup p
      /\ \A i \in 1..l : s[4 + i] = id[i]
  BY <1>1, DescriptorFields
<1>5. ByteAt(o + 3) = l
  BY LengthRead
<1>6. p = {} <=> ~d.piv
  OBVIOUS
<1>7. /\ datain \in Seq(Byte) /\ Len(datain) \in Nat
      /\ \A i \in 1..Len(datain) : datain[i] = b[i]
  BY DEF Reads
<1>8. o + 4 <= Len(datain)
  OBVIOUS
<1> HIDE DEF o, s, id, set, t, a, p, l
<1>9. \A i \in 1..(4 + l) : b[o + i] = s[i]
  BY <1>3 DEF Has
<1>10. datain[o + 1] = set /\ datain[o + 2] = t \cup Shl(a, 4) \cup p
  <2>1. b[o + 1] = s[1] /\ b[o + 2] = s[2]
    <3>1. 1 \in 1..(4 + l) /\ 2 \in 1..(4 + l)
      BY <1>2
    <3> QED BY <1>9, <3>1
  <2>2. o + 1 \in 1..Len(datain) /\ o + 2 \in 1..Len(datain)
    BY <1>3, <1>7, <1>8
  <2> QED BY <1>4, <1>7, <2>1, <2>2
<1>11. Readable(o, 1) /\ Readable(o + 1, 1) /\ Readable(o + 3, 1)
  <2>1. /\ o \in Nat /\ 1 \in Nat /\ 0 < o + 1 /\ o + 1 <= Len(datain)
        /\ o + 1 \in Nat /\ 0 < (o + 1) + 1 /\ (o + 1) + 1 <= Len(datain)
        /\ o + 3 \in Nat /\ 0 < (o + 3) + 1 /\ (o + 3) + 1 <= Len(datain)
    BY <1>3, <1>7, <1>8
  <2> QED BY <1>7, <2>1, ReadableFacts
<1>12. BitsAt(o, 0, 4) = set
  BY <1>2, <1>10, <1>11, FourBits DEF BitsAt, GetBufferBitArray
<1> DEFINE x == datain[o + 2]
<1>13. DescriptorBits(x, t, a, p)
  BY <1>2, <1>10, SecondByte
<1>14. \A n, i : BitsAt(o + 1, n, i) = BitsOf(x, n, i)
  <2>1. (o + 1) + 1 = o + 2
    BY <1>3
  <2> QED BY <1>11, <2>1 DEF BitsAt, GetBufferBitArray
<1> HIDE DEF x
<1>15. /\ BitsAt(o + 1, 0, 4) = t /\ BitsAt(o + 1, 4, 2) = a
       /\ BitsAt(o + 1, 7, 1) = IF p = {} THEN {} ELSE {0}
  BY <1>13, <1>14 DEF DescriptorBits
<1>16. set # Throws /\ t # Throws
  <2>1. set \in Byte /\ t \in Byte
    BY <1>2 DEF Byte
  <2> QED BY <2>1, ThrowsAssumption, SMT
<1>17. GetCodeSet(o) = IF set \in {{0}, {1}, {0, 1}} THEN set ELSE {}
  BY <1>12, <1>16 DEF GetCodeSet
<1>18. GetIDType(o) = IF Value(t) <= 8 THEN t ELSE {0, 3}
  <2>1. GetIDType(o) = IF t \subseteq 0..2 \/ t = {3} THEN t ELSE {0, 3}
    BY <1>15, <1>16 DEF GetIDType
  <2> QED BY <1>2, <2>1, KnownTypes
<1>19. GetAssociation(o) = a /\ GetPIV(o) = IF p = {} THEN {} ELSE {0}
  BY <1>15 DEF GetAssociation, GetPIV
<1>20. GetID(o) \in {id, Throws}
  <2>1. GetID(o) = StringAt(o + 4, l)
    BY <1>5, <1>11 DEF GetID, o
  <2>2. CASE Readable(o + 4, l)
    <3>1. (o + 4) + l <= Len(datain)
      <4>1. o + 4 \in Nat /\ 0 < (o + 4) + l
        BY <1>2, <1>3
      <4> QED BY <1>2, <1>7, <2>2, <4>1, ReadableFacts
    <3>2. Has(b, o + 4, id)
      <4>1. o + (4 + l) <= Len(b)
        BY <1>3 DEF Has
      <4>2. (o + 4) + l <= Len(b)
        BY <1>2, <1>3, <4>1
      <4>3. ASSUME NEW i \in 1..l PROVE b[(o + 4) + i] = id[i]
        <5>1. 4 + i \in 1..(4 + l) /\ o + (4 + i) = (o + 4) + i
          BY <1>2, <1>3
        <5> QED BY <1>4, <1>9, <5>1
      <4> QED BY <4>2, <4>3 DEF Has, l
    <3>3. GetBufferString(datain, o + 4, l) = id
      <4>1. o + 4 \in Nat /\ Len(id) = l
        BY <1>3 DEF l
      <4> QED BY <1>2, <3>1, <3>2, <4>1, StringReceived
    <3> QED BY <2>1, <2>2, <3>3 DEF StringAt
  <2>3. CASE ~Readable(o + 4, l)
    BY <2>1, <2>3 DEF StringAt
  <2> QED BY <2>2, <2>3
<1>21. /\ GetPIV(o) = IF d.piv THEN {0} ELSE {}
  BY <1>6, <1>19
<1> QED BY <1>17, <1>18, <1>19, <1>20, <1>21 DEF ReadsAs, o, id, set, t, a

\* The descriptors that a SCSIInquiryDeviceIdVPDPage has: those of the page whose
\* header was received, and all of them, each once, if the walk came to the end.
DescriptorInv ==
  /\ mEvpd \in BOOLEAN /\ mParsed \in BOOLEAN /\ mDescriptors \in Seq(Nat)
  /\ ~executed \/ kind # "deviceId" => mDescriptors = <<>> /\ ~mParsed
  /\ \A i \in 1..Len(mDescriptors) : \E j \in 1..Len(held.is) :
       mDescriptors[i] = At(held.is, j) /\ At(held.is, j) + 4 <= Len(datain)
  /\ mParsed => /\ Len(mDescriptors) = Len(held.is)
                /\ \A i \in 1..Len(mDescriptors) : mDescriptors[i] = At(held.is, i)
  /\ ~mParsed /\ mDescriptors # <<>> =>
       Len(held.is) >= 1 /\ Len(datain) < At(held.is, Len(held.is)) + 4

\* A request that has walked along nothing.
LEMMA NoneWalked ==
  ASSUME mEvpd' \in BOOLEAN, mDescriptors' = <<>>, mParsed' = FALSE
  PROVE  DescriptorInv'
<1>1. <<>> \in Seq(Nat) /\ Len(<<>>) = 0 /\ \A i \in 1..0 : FALSE
  OBVIOUS
<1> QED BY <1>1 DEF DescriptorInv

\* DescriptorInv is kept by a step that changes neither the answer nor the vector.
LEMMA WalkedBefore ==
  ASSUME DescriptorInv, UNCHANGED <<kind, executed, datain, held, mDescriptors, mParsed>>,
         mEvpd' \in BOOLEAN
  PROVE  DescriptorInv'
BY DEF DescriptorInv

\* What a SCSIInquiryDeviceIdVPDPage has received that begins with a header.
LEMMA PageReceived ==
  ASSUME AnswersInv, executed, kind = "deviceId", 4 <= Len(datain)
  PROVE  /\ held.is \in IdLists /\ DescriptorsFormat(Bytes(held), held.is)
         /\ Reads(datain, Bytes(held))
<1>1. held.page # "none"
  <2> SUFFICES ASSUME held.page = "none" PROVE FALSE
    OBVIOUS
  <2>1. Bytes(held) = <<>>
    BY DEF Bytes
  <2>2. Len(datain) = First(0, Room)
    BY <2>1 DEF AnswersInv, ReceivedInv
  <2>3. Room \in Nat
    BY RoomFacts DEF AnswersInv
  <2> QED BY <2>2, <2>3 DEF First
<1>2. /\ held = [page |-> held.page, is |-> held.is] /\ held.page \in PagesOf(kind)
      /\ Content(held.page, held.is) /\ datain \in Seq(Byte)
      /\ \A i \in 1..Len(datain) : datain[i] = Bytes(held)[i]
  BY <1>1, Arrives
<1>3. held.page = "deviceId"
  BY <1>2 DEF PagesOf
<1>4. held.is \in IdLists
  BY <1>2, <1>3 DEF Content
<1> DEFINE v == held.is
<1>5. held = [page |-> "deviceId", is |-> v] /\ v \in IdLists
  BY <1>2, <1>3, <1>4
<1> HIDE DEF v
<1>6. DescriptorsFormat(Bytes(held), v)
  BY <1>5, DescriptorsMade
<1> QED BY <1>2, <1>4, <1>6 DEF v, Reads

\* GetDescriptorCount adds what it finds; what an earlier call that threw left behind
\* stays, and the page is not parsed.
LEMMA WalkHolds ==
  ASSUME AnswersInv, DescriptorInv, GetDescriptorCount
  PROVE  DescriptorInv'
<1> DEFINE v == held.is
           n == Len(v)
           f == Walk.found
           b == Bytes(held)
<1>1. /\ kind = "deviceId" /\ ~mParsed /\ Readable(2, 2)
      /\ mDescriptors' = mDescriptors \o f /\ mParsed' = Walk.whole
      /\ kind' = kind /\ executed' = executed /\ datain' = datain /\ held' = held
      /\ mEvpd' = mEvpd
  BY DEF GetDescriptorCount, vars
<1>2. executed /\ datain \in Seq(Byte) /\ 4 <= Len(datain)
  <2>1. datain \in Seq(Byte) /\ (~executed => datain = <<>>) /\ executed \in BOOLEAN
    BY DEF AnswersInv, ReceivedInv, HeldInv
  <2>2. datain # <<>> /\ 2 + 2 <= Len(datain)
    BY <1>1 DEF Readable
  <2> QED BY <2>1, <2>2
<1>3. v \in IdLists /\ DescriptorsFormat(b, v) /\ Reads(datain, b)
  BY <1>1, <1>2, PageReceived
<1>4. Found(Walk, v, n, 1)
  BY <1>2, <1>3, WalkFinds
<1>5. n \in Nat
  BY <1>3, IdsFacts
<1>6. /\ f \in Seq(Nat) /\ Walk.whole \in BOOLEAN /\ Len(f) \in Nat
      /\ \A i \in 1..Len(f) : f[i] = At(v, 1 + i - 1) /\ At(v, 1 + i - 1) + 4 <= Len(datain)
      /\ 1 + Len(f) <= n + 1
      /\ Walk.whole => 1 + Len(f) = n + 1
      /\ ~Walk.whole => n >= 1 /\ Len(datain) < At(v, n) + 4
  BY <1>4 DEF Found
<1>7. /\ mEvpd \in BOOLEAN /\ mDescriptors \in Seq(Nat) /\ Len(mDescriptors) \in Nat
      /\ \A i \in 1..Len(mDescriptors) : \E j \in 1..n :
           mDescriptors[i] = At(v, j) /\ At(v, j) + 4 <= Len(datain)
      /\ mDescriptors # <<>> => n >= 1 /\ Len(datain) < At(v, n) + 4
  BY <1>1 DEF DescriptorInv
<1> DEFINE whole == Walk.whole
           old == mDescriptors
           new == mDescriptors \o f
<1>8. mDescriptors' = new /\ mParsed' = whole
  BY <1>1
<1> HIDE DEF v, n, f, b, whole
<1>9. \A i \in 1..Len(f) : f[i] = At(v, i) /\ At(v, i) + 4 <= Len(datain) /\ i \in 1..n
  <2>1. ASSUME NEW i \in 1..Len(f)
        PROVE  f[i] = At(v, i) /\ At(v, i) + 4 <= Len(datain) /\ i \in 1..n
    <3>1. 1 + i - 1 = i
      OBVIOUS
    <3>2. i \in 1..n
      BY <1>5, <1>6
    <3> QED BY <1>6, <3>1, <3>2
  <2> QED BY <2>1
<1>10. /\ new \in Seq(Nat) /\ Len(new) = Len(old) + Len(f)
       /\ \A i \in 1..(Len(old) + Len(f)) :
            new[i] = IF i <= Len(old) THEN old[i] ELSE f[i - Len(old)]
  BY <1>6, <1>7, ConcatProperties
<1>11. whole \in BOOLEAN /\ (whole => Len(f) = n)
       /\ (~whole => n >= 1 /\ Len(datain) < At(v, n) + 4)
  BY <1>5, <1>6 DEF whole
<1>12. whole => old = <<>>
  <2> SUFFICES ASSUME whole, old # <<>> PROVE FALSE
    OBVIOUS
  <2>1. n \in 1..Len(f)
    BY <1>5, <1>7, <1>11
  <2>2. At(v, n) + 4 <= Len(datain) /\ Len(datain) < At(v, n) + 4
    BY <1>7, <1>9, <2>1
  <2>3. At(v, n) \in Nat
    <3>1. n \in 1..n
      BY <1>9, <2>1
    <3> QED BY <1>3, <3>1 DEF DescriptorsFormat, n
  <2>4. Len(datain) \in Nat
    BY <1>2
  <2> QED BY <2>2, <2>3, <2>4
<1> HIDE DEF new
<1>13. ASSUME NEW i \in 1..Len(new)
       PROVE  \E j \in 1..n : new[i] = At(v, j) /\ At(v, j) + 4 <= Len(datain)
  <2>1. i \in 1..(Len(old) + Len(f))
    BY <1>10
  <2>2. CASE i <= Len(old)
    <3>1. i \in 1..Len(old) /\ new[i] = old[i]
      BY <1>7, <1>10, <2>1, <2>2
    <3> QED BY <1>7, <3>1
  <2>3. CASE ~(i <= Len(old))
    <3> DEFINE k == i - Len(old)
    <3>1. k \in 1..Len(f) /\ new[i] = f[k]
      BY <1>6, <1>7, <1>10, <2>1, <2>3
    <3> HIDE DEF k
    <3> QED BY <1>9, <3>1
  <2> QED BY <2>2, <2>3
<1>14. whole => Len(new) = n /\ \A i \in 1..Len(new) : new[i] = At(v, i)
  <2> SUFFICES ASSUME whole PROVE Len(new) = n /\ \A i \in 1..Len(new) : new[i] = At(v, i)
    OBVIOUS
  <2>1. Len(old) = 0
    BY <1>12
  <2>2. new = f
    BY <1>6, <1>7, <1>12 DEF new
  <2> QED BY <1>9, <1>11, <2>2
<1>15. v = held'.is
  BY <1>1 DEF v
<1> QED BY <1>1, <1>2, <1>7, <1>8, <1>10, <1>11, <1>13, <1>14, <1>15 DEF DescriptorInv, n

\* DescriptorInv is kept by every step.
LEMMA DescriptorStepHolds ==
  ASSUME PRInv, CdbInv, AnswersInv, DescriptorInv, [RequestNext]_<<vars, inVars>>
  PROVE  DescriptorInv'
<1>0. mEvpd \in BOOLEAN /\ mParsed \in BOOLEAN
  BY DEF DescriptorInv
<1>1. CASE Next /\ UNCHANGED inVars
  <2>1. kind \in OutKinds \cup {"none"}
    BY <1>1 DEF Next, New, NewRegisterAndMove, SetReservationType, SetReservationKey,
                SetServiceActionReservationKey, SetFlag, SetRelativeTargetPortId,
                SetTransportIdList, ResetOutBuffer, OutKinds
  <2>2. mDescriptors = <<>> /\ mParsed = FALSE
    BY <1>0, <2>1, ClassFacts DEF DescriptorInv
  <2>3. mDescriptors' = mDescriptors /\ mParsed' = mParsed /\ mEvpd' = mEvpd
    BY <1>1 DEF inVars
  <2> QED BY <1>0, <2>2, <2>3, NoneWalked
<1>2. ASSUME NEW k, NEW c, NEW size, Constructed(k, c, size) PROVE DescriptorInv'
  <2>1. mDescriptors' = <<>> /\ mParsed' = FALSE
    BY <1>2 DEF Constructed
  <2>2. mEvpd' = (k \in {"supported", "serial", "deviceId"})
    BY <1>2 DEF Constructed
  <2>3. (k \in {"supported", "serial", "deviceId"}) \in BOOLEAN
    OBVIOUS
  <2> QED BY <2>1, <2>2, <2>3, NoneWalked
<1>3. CASE NewRequest
  <2>1. PICK k, c, size : Constructed(k, c, size)
    BY <1>3 DEF NewRequest, NewInquiry, NewReadCapacity, NewNoData, NewReportLuns,
                NewRead10, NewPersistentReserveIn
  <2> QED BY <1>2, <2>1
<1>4. CASE RetryReportLuns
  <2>1. PICK k, c, size : Constructed(k, c, size)
    BY <1>4 DEF RetryReportLuns, NewReportLuns
  <2> QED BY <1>2, <2>1
<1>5. ASSUME NEW lba \in Lbas, SetLBA(lba) PROVE DescriptorInv'
  BY <1>0, <1>5, WalkedBefore DEF SetLBA
<1>6. ASSUME NEW n \in Sizes, SetAllocationLen(n) PROVE DescriptorInv'
  BY <1>0, <1>6, WalkedBefore DEF SetAllocationLen
<1>7. ASSUME NEW b \in BOOLEAN, SetEVPD(b) PROVE DescriptorInv'
  <2>1. /\ UNCHANGED <<kind, executed, datain, held, mDescriptors, mParsed>>
        /\ mEvpd' \in BOOLEAN
    BY <1>7 DEF SetEVPD
  <2> QED BY <2>1, WalkedBefore
<1>8. CASE ResetInBuffer \/ UNCHANGED <<vars, inVars>>
  <2>1. UNCHANGED <<kind, executed, datain, held, mDescriptors, mParsed, mEvpd>>
    BY <1>8 DEF ResetInBuffer, vars, inVars
  <2> QED BY <1>0, <2>1, WalkedBefore
<1>9. CASE Execute
  <2>1. ~executed /\ UNCHANGED <<mEvpd, mDescriptors, mParsed>>
    BY <1>9 DEF Execute
  <2>2. mDescriptors = <<>> /\ mParsed = FALSE
    BY <1>0, <2>1 DEF DescriptorInv
  <2> QED BY <1>0, <2>1, <2>2, NoneWalked
<1>10. CASE GetDescriptorCount
  BY <1>10, WalkHolds
<1>11. CASE Destroy
  BY <1>11, NoneWalked DEF Destroy
<1> QED BY <1>1, <1>3, <1>4, <1>5, <1>6, <1>7, <1>8, <1>9, <1>10, <1>11 DEF RequestNext

\* What the vector of descriptors has in every state.
LEMMA DescriptorsWalked == RequestSpec => []DescriptorInv
<1>1. RequestInit => DescriptorInv
  <2> SUFFICES ASSUME RequestInit PROVE DescriptorInv
    OBVIOUS
  <2>1. /\ mEvpd = FALSE /\ mParsed = FALSE /\ mDescriptors = <<>>
    BY DEF RequestInit
  <2>2. <<>> \in Seq(Nat) /\ Len(<<>>) = 0 /\ \A i \in 1..0 : FALSE
    OBVIOUS
  <2> QED BY <2>1, <2>2 DEF DescriptorInv
<1>2. /\ PRInv /\ CdbInv /\ AnswersInv /\ DescriptorInv /\ [RequestNext]_<<vars, inVars>>
      => DescriptorInv'
  BY DescriptorStepHolds
<1> QED BY <1>1, <1>2, Invariant, AnswersInvariant, PTL DEF RequestSpec

\* The descriptors that the invariant speaks of read as themselves.
LEMMA DescriptorsHold == ASSUME AnswersInv, DescriptorInv PROVE DescriptorsRight
<1> SUFFICES ASSUME Answered("deviceId") PROVE
       /\ mParsed => mDescriptors = OffsetsOf(held.is)
       /\ \A i \in DOMAIN mDescriptors : \E j \in DOMAIN held.is :
            /\ mDescriptors[i] = OffsetsOf(held.is)[j]
            /\ ReadsAs(mDescriptors[i], held.is[j])
  BY DEF DescriptorsRight, ReadsAs
<1> DEFINE v == held.is
           n == Len(v)
<1>1. executed /\ held.page = "deviceId"
  BY DEF Answered
<1>2. held # Nothing
  BY <1>1, NothingFacts
<1>3. v \in IdLists
  BY <1>1, <1>2 DEF AnswersInv, HeldInv, Content
<1>4. DOMAIN v = 1..n /\ n \in Nat
  BY <1>3, IdsFacts
<1>5. OffsetsOf(v) = [i \in 1..n |-> At(v, i)]
  BY <1>4 DEF OffsetsOf, At
<1>6. /\ mDescriptors \in Seq(Nat) /\ DOMAIN mDescriptors = 1..Len(mDescriptors)
      /\ Len(mDescriptors) \in Nat
  BY DEF DescriptorInv
<1>7. ASSUME mParsed PROVE mDescriptors = OffsetsOf(v)
  <2>1. Len(mDescriptors) = n /\ \A i \in 1..n : mDescriptors[i] = At(v, i)
    BY <1>7 DEF DescriptorInv
  <2>2. mDescriptors = [i \in 1..n |-> mDescriptors[i]]
    BY <1>6, <2>1
  <2> HIDE DEF n, v
  <2>3. [i \in 1..n |-> mDescriptors[i]] = [i \in 1..n |-> At(v, i)]
    BY <2>1
  <2> QED BY <1>5, <2>2, <2>3
<1>8. ASSUME NEW i \in 1..Len(mDescriptors)
      PROVE  \E j \in 1..n : /\ mDescriptors[i] = OffsetsOf(v)[j]
                             /\ ReadsAs(mDescriptors[i], v[j])
  <2>1. PICK j \in 1..n : mDescriptors[i] = At(v, j) /\ At(v, j) + 4 <= Len(datain)
    BY DEF DescriptorInv
  <2>2. kind = "deviceId"
    <3>1. mDescriptors # <<>>
      BY <1>6
    <3> QED BY <3>1 DEF DescriptorInv
  <2>3. 4 <= Len(datain)
    <3>1. DescriptorsFormat(Bytes([page |-> "deviceId", is |-> v]), v)
      BY <1>3, DescriptorsMade
    <3> HIDE DEF v
    <3>2. At(v, j) \in Nat /\ At(v, j) >= 4
      BY <2>1, <3>1 DEF DescriptorsFormat
    <3>3. Len(datain) \in Nat
      BY DEF AnswersInv, ReceivedInv
    <3> QED BY <2>1, <3>2, <3>3
  <2>4. DescriptorsFormat(Bytes(held), v) /\ Reads(datain, Bytes(held))
    BY <1>1, <2>2, <2>3, PageReceived
  <2>5. ReadsAs(At(v, j), v[j])
    BY <1>3, <2>1, <2>4, DescriptorGot
  <2> HIDE DEF v, n
  <2>6. OffsetsOf(v)[j] = At(v, j)
    BY <1>5
  <2> QED BY <2>1, <2>5, <2>6
<1> QED BY <1>4, <1>6, <1>7, <1>8

\* DescriptorsRight: each SCSIDeviceID is at a descriptor of the page and reads as it or
\* throws, also one left behind by a GetDescriptorCount that threw; a count that was
\* returned is that of the page.
THEOREM EveryDescriptorIsRight == RequestSpec => []DescriptorsRight
<1>1. AnswersInv /\ DescriptorInv => DescriptorsRight
  BY DescriptorsHold
<1> QED BY <1>1, AnswersInvariant, DescriptorsWalked, PTL

\* The type invariant is part of what is known.
LEMMA TypesHold ==
  ASSUME PRInv, CdbInv, AnswersInv, DescriptorInv PROVE RequestTypeOK
<1>1. /\ kind \in Classes /\ mInBuffer \in Seq(Byte) /\ datain \in Seq(Byte)
      /\ executed \in BOOLEAN
  BY DEF AnswersInv, SizesInv, HeldInv, ReceivedInv
<1>2. kind \in InKinds => cdb \in Seq(Byte) /\ Len(cdb) \in {6, 10, 12, 16}
  BY ClassFacts DEF CdbInv, InquiryIn, LunsIn, ReadIn, CapacityIn, Capacity16In, PRInIn
<1>3. Bytes(held) \in Seq(Byte) /\ Len(Bytes(held)) \in Nat
  BY HeldTyped DEF AnswersInv, HeldInv
<1>4. Room \in Nat /\ Room <= Len(mInBuffer) /\ Len(mInBuffer) \in Nat
  BY <1>1, RoomFacts DEF AnswersInv
<1>5. Len(datain) <= Len(mInBuffer)
  <2>1. CASE executed
    <3>1. Len(datain) = First(Len(Bytes(held)), Room)
      BY <2>1 DEF AnswersInv, ReceivedInv
    <3> QED BY <1>3, <1>4, <3>1 DEF First
  <2>2. CASE ~executed
    <3>1. Len(datain) = 0
      BY <2>2 DEF AnswersInv, ReceivedInv
    <3> QED BY <1>4, <3>1
  <2> QED BY <2>1, <2>2
<1>6. residual.type \in {"none", "overflow", "underflow"} /\ residual.count \in Nat
  <2>1. CASE executed
    <3> DEFINE sent == Len(Bytes(held))
               room == Room
    <3>1. Arrived(residual, sent, room)
      BY <2>1 DEF AnswersInv, ReceivedInv
    <3>2. sent \in Nat /\ room \in Nat
      BY <1>3, <1>4
    <3> HIDE DEF sent, room
    <3>3. sent < room \/ sent = room \/ sent > room
      BY <3>2
    <3>4. sent < room => room - sent \in Nat
      BY <3>2
    <3> QED BY <3>1, <3>3, <3>4 DEF Arrived
  <2>2. CASE ~executed
    BY <2>2 DEF AnswersInv, ReceivedInv
  <2> QED BY <2>1, <2>2
<1>7. mEvpd \in BOOLEAN /\ mParsed \in BOOLEAN /\ mDescriptors \in Seq(Nat)
  BY DEF DescriptorInv
<1>8. PRTypeOK
  BY DEF PRInv
<1> QED BY <1>1, <1>2, <1>5, <1>6, <1>7, <1>8 DEF RequestTypeOK, Classes

\* RequestTypeOK: iSCSIExecSCSISync never copies more to a buffer than it has room for.
THEOREM RequestTypes == RequestSpec => []RequestTypeOK
<1>1. PRInv /\ CdbInv /\ AnswersInv /\ DescriptorInv => RequestTypeOK
  BY TypesHold
<1> QED BY <1>1, Invariant, AnswersInvariant, DescriptorsWalked, PTL
=============================================================================
