------------------------- MODULE PersistentReserve -------------------------
(***************************************************************************)
(* A PERSISTENT RESERVE OUT request: SCSIPersistentReserveOut and its      *)
(* subclass SCSIPersistentReserveOutRegisterAndMove, whose setters may be  *)
(* called in any order and write fields of the same CDB and buffer, some   *)
(* of them in the same byte.                                               *)
(*                                                                         *)
(* fields is a history variable: what the caller has asked for, and if the *)
(* request was constructed with room for the 24 bytes of the header.  With *)
(* less, the setters of the fields that are outside throw, and             *)
(* SetTransportIdList reads past the end of the buffer.  A setter that     *)
(* throws changes nothing and is left out.                                 *)
(***************************************************************************)
EXTENDS Buffers

CONSTANTS
  Actions,     \* service actions, as bytes
  Types,       \* reservation types, as words of 4 bits
  Keys,        \* reservation keys, eight bytes each
  Lists,       \* transport ID lists, as byte sequences
  PortIds,     \* relative target port IDs, as words of 16 bits
  Lengths,     \* the allocation lengths that the constructor is given
  Stray        \* the bytes that there may be in memory past the end of a buffer

\* The kinds of request this module is about.
OutKinds == {"plain", "move"}

NoKey == Zeroed(8)
RegisterAndMove == {0, 1, 2}      \* PR_REGISTER_AND_MOVE, 0x07
Opcode == {0, 1, 2, 3, 4, 6}      \* 0x5F
HeaderLength == 24

ASSUME InputsAssumption ==
  /\ Actions \subseteq Byte
  /\ Types \subseteq SUBSET (0..3)
  /\ Keys \subseteq [1..8 -> Byte]
  /\ Lists \subseteq Seq(Byte) \ {<<>>}
  /\ PortIds \subseteq SUBSET (0..15)
  /\ Lengths \subseteq Nat
  /\ Stray \subseteq Byte

VARIABLES
  kind,         \* the class of the request; "none" before its constructor, and
                \* what is not in OutKinds for those of other modules
  cdb,
  mOutBuffer,
  fields

vars == <<kind, cdb, mOutBuffer, fields>>

\* The byte and bit of each flag.
FlagAt ==
  [plain |-> [aptpl |-> <<20, 0>>, allTgPt |-> <<20, 2>>, specIPt |-> <<20, 4>>],
   move |-> [aptpl |-> <<17, 0>>, unreg |-> <<17, 1>>]]

PRTypeOK ==
  /\ mOutBuffer \in Seq(Byte)
  /\ kind \in OutKinds => cdb \in [1..10 -> Byte]
  /\ kind \in OutKinds /\ fields.whole => Len(mOutBuffer) >= HeaderLength

NoFields ==
  [action |-> {}, type |-> {}, key |-> NoKey, saKey |-> NoKey, flags |-> {},
   portId |-> {}, idLength |-> {}, list |-> <<>>, whole |-> TRUE]

Init ==
  /\ kind = "none"
  /\ cdb = Zeroed(10)
  /\ mOutBuffer = <<>>
  /\ fields = NoFields
-----------------------------------------------------------------------------
(* Constructors.                                                           *)

\* The constructor of the base class.
NewCdb(action, allocationLength) ==
  setBufferShort(setBufferByte(setBufferByte(Zeroed(10), 0, Opcode), 1, action),
                 7, Word(allocationLength, 16))

\* The default length is that of the header; what is longer reads as a list.
New(action, allocationLength) ==
  /\ kind = "none" /\ kind' = "plain"
  /\ cdb' = NewCdb(action, allocationLength)
  /\ mOutBuffer' = Zeroed(allocationLength)
  /\ fields' = [NoFields EXCEPT !.action = action,
                                !.list = Zeroed(allocationLength - HeaderLength),
                                !.whole = allocationLength >= HeaderLength]

\* It throws if the length of the ID is less than 24 or not a multiple of 4.
NewRegisterAndMove(id) ==
  /\ kind = "none" /\ kind' = "move"
  /\ Len(id) >= 24 /\ Len(id) % 4 = 0
  /\ cdb' = NewCdb(RegisterAndMove, HeaderLength + Len(id))
  /\ mOutBuffer' =
       setBufferString(
         setBufferLong(Zeroed(HeaderLength + Len(id)), 20, Word(Len(id), 32)),
         24, id)
  /\ fields' = [NoFields EXCEPT !.action = RegisterAndMove,
                                !.idLength = Word(Len(id), 32), !.list = id]
-----------------------------------------------------------------------------
(* Setters.                                                                *)

SetReservationType(t) ==
  /\ kind \in OutKinds
  /\ FitsBits(0, 4, t)
  /\ cdb' = setBufferBitArray(cdb, 2, 0, 4, t)
  /\ fields' = [fields EXCEPT !.type = t]
  /\ UNCHANGED <<kind, mOutBuffer>>

SetReservationKey(key) ==
  /\ kind \in OutKinds /\ Inside(mOutBuffer, 0, 8)
  /\ mOutBuffer' = setBufferString(mOutBuffer, 0, key)
  /\ fields' = [fields EXCEPT !.key = key]
  /\ UNCHANGED <<kind, cdb>>

SetServiceActionReservationKey(key) ==
  /\ kind \in OutKinds /\ Inside(mOutBuffer, 8, 8)
  /\ mOutBuffer' = setBufferString(mOutBuffer, 8, key)
  /\ fields' = [fields EXCEPT !.saKey = key]
  /\ UNCHANGED <<kind, cdb>>

\* SetAPTPL, SetAllTgPt, SetUNREG: the virtual function of the class.
SetFlag(f, val) ==
  /\ kind \in OutKinds /\ f # "specIPt" /\ f \in DOMAIN FlagAt[kind]
  /\ Inside(mOutBuffer, FlagAt[kind][f][1], 1)
  /\ mOutBuffer' = setBufferBool(mOutBuffer, FlagAt[kind][f][1], FlagAt[kind][f][2], val)
  /\ fields' = [fields EXCEPT !.flags = IF val THEN @ \cup {f} ELSE @ \ {f}]
  /\ UNCHANGED <<kind, cdb>>

SetRelativeTargetPortId(id) ==
  /\ kind = "move" /\ Inside(mOutBuffer, 18, 2)
  /\ mOutBuffer' = setBufferShort(mOutBuffer, 18, id)
  /\ fields' = [fields EXCEPT !.portId = id]
  /\ UNCHANGED <<kind, cdb>>

\* The 24 bytes from the start of the buffer, with past where it has ended.
Header(past) ==
  [i \in 1..HeaderLength |-> IF i <= Len(mOutBuffer) THEN mOutBuffer[i] ELSE past[i]]

\* Mutants: the length in the CDB stays; the new buffer has no header.
KeepsLength(list) ==
  /\ kind = "plain"
  /\ \E past \in [(Len(mOutBuffer) + 1)..HeaderLength -> Stray] :
       mOutBuffer' = setBufferBool(Header(past) \o list, 20, 4, TRUE)
  /\ fields' = [fields EXCEPT !.flags = @ \cup {"specIPt"}, !.list = list]
  /\ UNCHANGED <<kind, cdb>>

NoHeader(list) ==
  /\ kind = "plain"
  /\ mOutBuffer' = list
  /\ UNCHANGED <<kind, cdb, fields>>

\* The buffer is replaced by one that has room for the list after the first
\* 24 bytes of the old one, if it has as many (RegisterAndMove's throws).
SetTransportIdList(list) ==
  /\ kind = "plain"
  /\ cdb' = setBufferShort(cdb, 7, Word(HeaderLength + Len(list), 16))
  /\ \E past \in [(Len(mOutBuffer) + 1)..HeaderLength -> Stray] :
       mOutBuffer' = setBufferBool(Header(past) \o list, 20, 4, TRUE)
  /\ fields' = [fields EXCEPT !.flags = @ \cup {"specIPt"}, !.list = list]
  /\ UNCHANGED kind

\* SCSIRequest's: the buffer keeps its size.
ResetOutBuffer ==
  /\ kind \in OutKinds
  /\ mOutBuffer' = Zeroed(Len(mOutBuffer))
  /\ fields' = [NoFields EXCEPT !.action = fields.action, !.type = fields.type,
                                !.list = Zeroed(Len(fields.list)),
                                !.whole = fields.whole]
  /\ UNCHANGED <<kind, cdb>>

Next ==
  \/ \E a \in Actions, n \in Lengths : New(a, n)
  \/ \E id \in Lists : NewRegisterAndMove(id)
  \/ \E t \in Types : SetReservationType(t)
  \/ \E k \in Keys : SetReservationKey(k) \/ SetServiceActionReservationKey(k)
  \/ \E f \in {"aptpl", "allTgPt", "unreg"}, val \in BOOLEAN : SetFlag(f, val)
  \/ \E p \in PortIds : SetRelativeTargetPortId(p)
  \/ \E list \in Lists : SetTransportIdList(list)
  \/ ResetOutBuffer

Spec == Init /\ [][Next]_vars
-----------------------------------------------------------------------------
(* What the request says, read with the getters of SCSIRequest.            *)

\* A field of the other class' requests reads as nothing.
Decoded ==
  [action |-> cdb[2],
   type |-> GetBufferBitArray(cdb, 2, 0, 4),
   key |-> GetBufferString(mOutBuffer, 0, 8),
   saKey |-> GetBufferString(mOutBuffer, 8, 8),
   flags |-> {f \in DOMAIN FlagAt[kind] :
                GetBufferBool(mOutBuffer, FlagAt[kind][f][1], FlagAt[kind][f][2])},
   portId |-> IF kind = "move" THEN GetBufferShort(mOutBuffer, 18) ELSE {},
   idLength |-> IF kind = "move" THEN GetBufferLong(mOutBuffer, 20) ELSE {},
   list |-> SubSeq(mOutBuffer, HeaderLength + 1, Len(mOutBuffer)),
   whole |-> TRUE]

\* The bits that belong to no field.
Reserved(b) ==
  IF kind = "move" THEN IF b = 17 THEN 2..7 ELSE IF b = 16 THEN 0..7 ELSE {}
  ELSE IF b = 20 THEN {1, 3, 5, 6, 7} ELSE IF b \in (16..23) THEN 0..7 ELSE {}

\* Whatever setters were called in whatever order, each field of a request that
\* was constructed with room for the header holds what was last asked for: no
\* setter disturbs a field of another, not even in the same byte or when the
\* buffer is replaced, and nothing else is set.
FieldsIntact ==
  kind \in OutKinds /\ fields.whole =>
    /\ Decoded = fields
    /\ \A b \in 0..(HeaderLength - 1) : mOutBuffer[b + 1] \cap Reserved(b) = {}

\* The parameter list length in the CDB is the low 16 bits of the size of the
\* buffer: lines 31 and 65 truncate what setCdbShort is given.
LengthWord ==
  kind \in OutKinds => GetBufferShort(cdb, 7) = Word(Len(mOutBuffer), 16)
=============================================================================
