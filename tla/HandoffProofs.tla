---------------------------- MODULE HandoffProofs ----------------------------
(***************************************************************************)
(* The proof that BackGround implements Handoff in every program with one  *)
(* foreground thread, however many wrappers it has, and whatever the       *)
(* targets and the program do: the refinement mapping is BackGround!holder.*)
(***************************************************************************)
EXTENDS BackGroundProofs

-----------------------------------------------------------------------------
(* What the mapping needs that the layers of BackGroundProofs do not say.  *)

\* A wrapper that a caller uses has a context: what RemoveConnection has taken
\* off the list was the caller's own connection, and listed ones have one.
UseInv == fgPC[Main] \in {"connect", "using"} => mIscsi[fgConn[Main]] # "null"

Inv5 == Inv1 /\ Inv2 /\ Inv4 /\ UseInv

LEMMA OwnPosition ==
  ASSUME OneThread, Inv1, Inv2, Inv4, NEW t \in Threads, RemoveErase(t)
  PROVE  /\ mConnections # <<>>
         /\ fgConn[t] \in Registered
         /\ Distinct(mConnections')
         /\ Registered' = Registered \ {fgConn[t]}
<1>1. PICK i \in EraseAt(t) : mConnections' = RemoveAt(mConnections, i)
  BY DEF RemoveErase
<1>2. /\ mConnections \in Seq(Wrappers) /\ Distinct(mConnections)
      /\ i \in DOMAIN mConnections
  BY <1>1 DEF EraseAt, Inv1, TypeOK, Inv2, OffTheListInUse, Distinct
<1>3. fgIndex[t] \in Nat /\ fgIndex[t] >= Len(mConnections)
  BY DEF OneThread, RemoveErase, Inv1, TypeOK, Inv4, IndexInv
<1>4. i # fgIndex[t] + 1
  BY <1>2, <1>3
<1>5. mConnections[i] = fgConn[t] /\ fgConn[t] \in Registered
  BY <1>1, <1>4 DEF EraseAt
<1>6. Distinct(mConnections') /\ Registered' = Registered \ {mConnections[i]}
  BY <1>1, <1>2, EraseElements DEF Registered
<1> QED BY <1>2, <1>5, <1>6

LEMMA UseInvStep ==
  ASSUME OneThread
  PROVE  Inv5 /\ [Next]_vars => UseInv'
<1> SUFFICES ASSUME Inv5, [Next]_vars PROVE UseInv'
  OBVIOUS
<1>1. /\ Main \in Threads /\ \A t \in Threads : t = Main
      /\ fgPC \in [Threads -> InMethod \cup {"idle", "stop", "join"}]
      /\ fgConn \in [Threads -> Wrappers \cup {NoWrapper}]
      /\ mIscsi \in [Wrappers -> {"null", "open", "gone"}]
      /\ fgPC[Main] \in InMethod => fgConn[Main] \in Wrappers
      /\ UseInv
  BY ThreadsAssumption DEF OneThread, Inv5, Inv1, TypeOK
<1> USE <1>1 DEF UseInv
<1>2. CASE UNCHANGED <<fgVars, mIscsi>>
  BY <1>2 DEF fgVars
<1>3. ASSUME NEW t \in Threads, Operation(t) PROVE UseInv'
  <2>1. t = Main
    OBVIOUS
  <2>2. ASSUME NEW w \in Wrappers, Connect(t, w) PROVE UseInv'
    BY <2>1, <2>2 DEF Connect, Calls, Goes
  <2>3. ASSUME NEW w \in Wrappers, RemoveReadSize(t, w) PROVE UseInv'
    BY <2>1, <2>3 DEF RemoveReadSize, Calls, Goes
  <2>4. CASE RemoveErase(t)
    <3>1. mIscsi[fgConn[t]] # "null"
      BY <2>4, OwnPosition DEF Inv5, Inv2, ContextInv
    <3> QED BY <2>1, <2>4, <3>1 DEF RemoveErase
  <2>5. CASE RemoveThrow(t)
    BY <2>1, <2>5 DEF RemoveThrow, Leaves, Goes
  <2>6. CASE OpReturn(t)
    BY <2>1, <2>6 DEF OpReturn, Goes
  <2>7. CASE OpThrow(t)
    BY <2>1, <2>7 DEF OpThrow, Leaves, Goes
  <2>8. CASE OpDisconnect(t)
    BY <2>1, <2>8 DEF OpDisconnect, Leaves, Goes
  <2>9. CASE OpNullContext(t)
    BY <1>2, <2>9 DEF OpNullContext
  <2>10. CASE AddEnter(t)
    BY <2>1, <2>10 DEF AddEnter, Goes
  <2>11. CASE AddPush(t)
    BY <2>1, <2>11 DEF AddPush, Leaves, Goes
  <2> QED
    BY <1>3, <2>2, <2>3, <2>4, <2>5, <2>6, <2>7, <2>8, <2>9, <2>10, <2>11 DEF Operation
<1>4. CASE Background
  BY <1>2, <1>4 DEF Background, BGCheck, BGWait, BGTimeout, BGSpurious, BGLoop, BGServe,
                    BGService, BGThrow
<1>5. CASE Stopping
  BY <1>5 DEF Stopping, StopCheck, Exit, StopSignal, StopJoin, Goes
<1>6. CASE Environment
  <2>1. ASSUME NEW w \in Wrappers, Destroy(w) PROVE UseInv'
    BY <2>1 DEF Destroy, fgVars
  <2>2. CASE Tick \/ \E w \in Wrappers : TargetNop(w) \/ TargetClose(w)
    BY <1>2, <2>2 DEF Tick, TargetNop, TargetClose
  <2> QED BY <1>6, <2>1, <2>2 DEF Environment
<1>7. CASE UNCHANGED vars
  BY <1>2, <1>7 DEF vars
<1>8. ASSUME NEW w \in Wrappers, ConnectNullContext(w) PROVE UseInv'
  BY <1>2, <1>8 DEF ConnectNullContext
<1> QED BY <1>3, <1>4, <1>5, <1>6, <1>7, <1>8 DEF Next, Over

LEMMA Inv5Init == Init => Inv5
<1>1. Init => UseInv
  BY ThreadsAssumption DEF Init, UseInv
<1> QED BY <1>1, Inv1Init, Inv2Init, Inv4Init DEF Inv5

LEMMA Inv5Step == ASSUME OneThread PROVE Inv5 /\ [Next]_vars => Inv5'
BY Inv1Step, Inv2Step, Inv4Step, UseInvStep DEF Inv5
-----------------------------------------------------------------------------
(* The mapping, wrapper by wrapper.                                        *)

HandoffStep == Abstract!HandoffNext \/ UNCHANGED holder

\* A step that leaves every wrapper where it is is a stutter of the abstract
\* specification, and one that moves a single wrapper is the move.
LEMMA Stutters ==
  (\A v \in Wrappers : HolderOf(v)' = HolderOf(v)) => UNCHANGED holder
BY DEF holder

LEMMA MovesOne ==
  ASSUME NEW w \in Wrappers, NEW from, NEW to,
         HolderOf(w) = from, HolderOf(w)' = to,
         \A v \in Wrappers \ {w} : HolderOf(v)' = HolderOf(v)
  PROVE  Abstract!Moves(w, from, to)
<1>1. holder[w] = from
  BY DEF holder
<1>2. holder' = [v \in Wrappers |-> IF v = w THEN to ELSE HolderOf(v)]
  BY DEF holder
<1>3. holder' = [holder EXCEPT ![w] = to]
  BY <1>2 DEF holder
<1> QED BY <1>1, <1>3 DEF Abstract!Moves

\* The steps that change nothing the mapping reads.
LEMMA MappingSame ==
  ASSUME Registered' = Registered, UNCHANGED mIscsi,
         \A v \in Wrappers : InUse(v)' = InUse(v),
         bgPC # "service", bgPC' # "service"
  PROVE  UNCHANGED holder
<1>1. \A v \in Wrappers : HolderOf(v)' = HolderOf(v)
  BY DEF HolderOf
<1> QED BY <1>1, Stutters

\* The same while the background thread services the head of the list.
LEMMA MappingStill ==
  ASSUME UNCHANGED <<mConnections, mIscsi, bgPC>>,
         \A v \in Wrappers : InUse(v)' = InUse(v)
  PROVE  UNCHANGED holder
<1>1. \A v \in Wrappers : HolderOf(v)' = HolderOf(v)
  BY DEF HolderOf, Registered
<1> QED BY <1>1, Stutters

-----------------------------------------------------------------------------
(* Each step of the background task.                                       *)

LEMMA BackgroundMaps ==
  ASSUME Inv5, Background
  PROVE  HandoffStep
<1> USE DEF HandoffStep
<1>1. /\ mConnections \in Seq(Wrappers) /\ Registered \subseteq Wrappers
      /\ Distinct(mConnections) /\ \A w \in Registered \cap Wrappers : ~InUse(w)
  BY DEF Inv5, Inv1, TypeOK, Inv2, OffTheListInUse, Registered, ToSet, Distinct
<1>2. mConnections # <<>> => Head(mConnections) \in Registered
  <2> SUFFICES ASSUME mConnections # <<>> PROVE Head(mConnections) \in Registered
    OBVIOUS
  <2>1. Head(mConnections) = mConnections[1] /\ 1 \in DOMAIN mConnections
    BY <1>1, EmptySeq
  <2> QED BY <2>1 DEF Registered, ToSet
<1>3. ASSUME UNCHANGED fgVars
      PROVE  \A v \in Wrappers : InUse(v)' = InUse(v)
  BY <1>3 DEF fgVars, InUse, Using
<1>4. CASE BGCheck \/ BGWait \/ BGTimeout \/ BGSpurious \/ BGLoop
  <2>1. /\ UNCHANGED <<mConnections, fgVars, mIscsi>>
        /\ bgPC # "service" /\ bgPC' # "service"
    BY <1>4 DEF BGCheck, BGWait, BGTimeout, BGSpurious, BGLoop, LoopAgain
  <2> QED BY <1>3, <2>1, MappingSame DEF Registered
<1>5. CASE BGServe
  <2>1. /\ UNCHANGED <<mConnections, fgVars, mIscsi>>
        /\ bgPC # "service" /\ bgPC' = "service" /\ mConnections # <<>>
    BY <1>5 DEF BGServe
  <2>2. PICK w \in Wrappers : w = Head(mConnections) /\ w \in Registered /\ ~InUse(w)
    BY <1>1, <1>2, <2>1
  <2>3. HolderOf(w) = "list" /\ HolderOf(w)' = "thread"
    BY <1>3, <2>1, <2>2 DEF HolderOf, Registered
  <2>4. \A v \in Wrappers \ {w} : HolderOf(v)' = HolderOf(v)
    BY <1>3, <2>1, <2>2 DEF HolderOf, Registered
  <2>5. Abstract!Moves(w, "list", "thread")
    BY <2>3, <2>4, MovesOne
  <2>6. \A v \in Wrappers : holder[v] # "thread"
    BY <2>1 DEF holder, HolderOf
  <2> QED BY <2>5, <2>6 DEF Abstract!HandoffNext, Abstract!Serve
<1>6. CASE BGService
  <2>1. /\ UNCHANGED <<fgVars, mIscsi>> /\ bgPC = "service" /\ mConnections # <<>>
        /\ mConnections' = Rotated
    BY <1>6 DEF BGService, Inv5, Inv1, MutexInv
  <2>2. bgPC' # "service"
    BY <1>6 DEF BGService, EndOfTurn, LoopAgain
  <2>3. Registered' = Registered
    BY <1>1, <2>1, RotatedElements DEF Registered
  <2>4. PICK w \in Wrappers : w = Head(mConnections) /\ w \in Registered /\ ~InUse(w)
    BY <1>1, <1>2, <2>1
  <2>5. HolderOf(w) = "thread" /\ HolderOf(w)' = "list"
    BY <1>3, <2>1, <2>2, <2>3, <2>4 DEF HolderOf
  <2>6. \A v \in Wrappers \ {w} : HolderOf(v)' = HolderOf(v)
    BY <1>3, <2>1, <2>2, <2>3, <2>4 DEF HolderOf
  <2>7. Abstract!Moves(w, "thread", "list")
    BY <2>5, <2>6, MovesOne
  <2> QED BY <2>7 DEF Abstract!HandoffNext, Abstract!Release
<1>7. CASE BGThrow
  BY <1>3, <1>7, MappingStill DEF BGThrow, bgVars
<1> QED BY <1>4, <1>5, <1>6, <1>7 DEF Background

-----------------------------------------------------------------------------
(* Each step of an operation.                                              *)

LEMMA OperationMaps ==
  ASSUME OneThread, Inv5, NEW t \in Threads, Operation(t)
  PROVE  HandoffStep
<1> USE DEF HandoffStep
<1>1. /\ Main \in Threads /\ t = Main
      /\ fgPC \in [Threads -> InMethod \cup {"idle", "stop", "join"}]
      /\ fgConn \in [Threads -> Wrappers \cup {NoWrapper}]
      /\ mIscsi \in [Wrappers -> {"null", "open", "gone"}]
      /\ fgConn[t] \in Wrappers <=> fgPC[t] \in InMethod
      /\ \A w \in Wrappers : Owner[w] = t
      /\ NoWrapper \notin Wrappers
  BY ThreadsAssumption DEF OneThread, Inv5, Inv1, TypeOK
<1>2. /\ mConnections \in Seq(Wrappers) /\ Registered \subseteq Wrappers
      /\ Distinct(mConnections) /\ \A w \in Wrappers : InUse(w) => w \notin Registered
  BY DEF Inv5, Inv1, TypeOK, Inv2, OffTheListInUse, Registered, ToSet, Distinct
<1>3. ASSUME NEW w \in Wrappers
      PROVE  InUse(w) <=> fgConn[t] = w /\ fgPC[t] \in {"connect", "using", "add", "push"}
  BY <1>1 DEF InUse, Using
<1>4. ASSUME NEW w \in Wrappers
      PROVE  InUse(w)' <=> fgConn'[t] = w /\ fgPC'[t] \in {"connect", "using", "add", "push"}
  BY <1>1 DEF InUse, Using
<1>5. ASSUME NEW w \in Wrappers, Connect(t, w) PROVE HandoffStep
  <2>1. /\ fgConn[t] \notin Wrappers
        /\ fgPC'[t] = "connect" /\ fgConn'[t] = w
        /\ mIscsi[w] = "null" /\ mIscsi' = [mIscsi EXCEPT ![w] = "open"]
        /\ UNCHANGED <<mConnections, bgPC>> /\ Registered' = Registered
    BY <1>1, <1>5 DEF Connect, Calls, Goes, InMethod, bgVars, Registered
  <2>2. w \notin Registered
    BY <2>1 DEF Inv5, Inv2, ContextInv
  <2>3. HolderOf(w) = "none" /\ HolderOf(w)' = "caller"
    BY <1>3, <1>4, <2>1, <2>2 DEF HolderOf
  <2>4. \A v \in Wrappers \ {w} : HolderOf(v)' = HolderOf(v)
    BY <1>1, <1>3, <1>4, <2>1 DEF HolderOf
  <2>5. Abstract!Moves(w, "none", "caller")
    BY <2>3, <2>4, MovesOne
  <2> QED BY <2>5 DEF Abstract!HandoffNext, Abstract!Start
<1>6. CASE \/ \E w \in Wrappers : RemoveReadSize(t, w)
           \/ RemoveThrow(t) \/ OpReturn(t) \/ OpNullContext(t) \/ AddEnter(t)
  <2>1. CASE \E w \in Wrappers : RemoveReadSize(t, w)
    <3>1. \A v \in Wrappers : InUse(v)' = InUse(v)
      BY <1>1, <2>1 DEF RemoveReadSize, Calls, Goes, InMethod, InUse, Using
    <3> QED BY <2>1, <3>1, MappingStill DEF RemoveReadSize, bgVars
  <2>2. CASE RemoveThrow(t)
    <3>1. \A v \in Wrappers : InUse(v)' = InUse(v)
      BY <1>1, <2>2 DEF RemoveThrow, Leaves, Goes, InUse, Using
    <3> QED BY <2>2, <3>1, MappingStill DEF RemoveThrow, bgVars
  <2>3. CASE OpReturn(t)
    <3>1. \A v \in Wrappers : InUse(v)' = InUse(v)
      BY <1>1, <2>3 DEF OpReturn, Goes, InUse, Using
    <3> QED BY <2>3, <3>1, MappingStill DEF OpReturn, bgVars
  <2>4. CASE OpNullContext(t)
    <3>1. \A v \in Wrappers : InUse(v)' = InUse(v)
      BY <2>4 DEF OpNullContext, fgVars, InUse, Using
    <3> QED BY <2>4, <3>1, MappingStill DEF OpNullContext, bgVars
  <2>5. CASE AddEnter(t)
    <3>1. \A v \in Wrappers : InUse(v)' = InUse(v)
      BY <1>1, <2>5 DEF AddEnter, Goes, InUse, Using
    <3>2. bgPC # "service" /\ bgPC' # "service"
      BY <2>5, HolderAssumption
      DEF AddEnter, StartBackGroundTask, Inv5, Inv1, MutexInv, BG, Free
    <3> QED BY <2>5, <3>1, <3>2, MappingSame DEF AddEnter, Registered
  <2> QED BY <1>6, <2>1, <2>2, <2>3, <2>4, <2>5
<1>7. CASE RemoveErase(t)
  <2>1. PICK w \in Wrappers : w = fgConn[t]
    BY <1>1, <1>7 DEF RemoveErase, InMethod
  <2>2. w \in Registered /\ Registered' = Registered \ {w}
    BY <1>7, <2>1, OwnPosition DEF Inv5
  <2>3. /\ fgPC[t] = "remove" /\ fgPC'[t] = "using" /\ UNCHANGED <<fgConn, mIscsi>>
        /\ bgPC # "service" /\ bgPC' # "service"
    BY <1>1, <1>7, HolderAssumption
    DEF RemoveErase, Goes, NotifyOne, Inv5, Inv1, MutexInv, BG, Free
  <2>4. HolderOf(w) = "list" /\ HolderOf(w)' = "caller"
    BY <1>3, <1>4, <2>1, <2>2, <2>3 DEF HolderOf
  <2>5. \A v \in Wrappers \ {w} : HolderOf(v)' = HolderOf(v)
    BY <1>3, <1>4, <2>1, <2>2, <2>3 DEF HolderOf
  <2>6. Abstract!Moves(w, "list", "caller")
    BY <2>4, <2>5, MovesOne
  <2> QED BY <2>6 DEF Abstract!HandoffNext, Abstract!Take
<1>8. CASE OpThrow(t)
  <2>1. PICK w \in Wrappers : w = fgConn[t]
    BY <1>1, <1>8 DEF OpThrow, InMethod
  <2>2. /\ InUse(w) /\ w \notin Registered /\ mIscsi[w] # "null"
    BY <1>1, <1>2, <1>3, <1>8, <2>1 DEF OpThrow, Inv5, UseInv
  <2>3. /\ fgPC'[t] = "idle" /\ UNCHANGED <<mConnections, bgPC, mIscsi>>
        /\ Registered' = Registered
    BY <1>1, <1>8 DEF OpThrow, Leaves, Goes, bgVars, Registered
  <2>4. HolderOf(w) = "caller" /\ HolderOf(w)' = "lost"
    BY <1>4, <2>2, <2>3 DEF HolderOf
  <2>5. \A v \in Wrappers \ {w} : HolderOf(v)' = HolderOf(v)
    BY <1>3, <1>4, <2>1, <2>3 DEF HolderOf
  <2>6. Abstract!Moves(w, "caller", "lost")
    BY <2>4, <2>5, MovesOne
  <2> QED BY <2>6 DEF Abstract!HandoffNext, Abstract!Fail
<1>9. CASE OpDisconnect(t)
  <2>1. PICK w \in Wrappers : w = fgConn[t]
    BY <1>1, <1>9 DEF OpDisconnect, InMethod
  <2>2. InUse(w) /\ w \notin Registered
    BY <1>2, <1>3, <1>9, <2>1 DEF OpDisconnect
  <2>3. /\ fgPC'[t] = "idle" /\ UNCHANGED <<mConnections, bgPC>>
        /\ Registered' = Registered /\ mIscsi' = [mIscsi EXCEPT ![w] = "null"]
    BY <1>1, <1>9, <2>1 DEF OpDisconnect, Leaves, Goes, bgVars, Registered
  <2>4. HolderOf(w) = "caller" /\ HolderOf(w)' = "none"
    BY <1>1, <1>4, <2>2, <2>3 DEF HolderOf
  <2>5. \A v \in Wrappers \ {w} : HolderOf(v)' = HolderOf(v)
    BY <1>1, <1>3, <1>4, <2>1, <2>3 DEF HolderOf
  <2>6. Abstract!Moves(w, "caller", "none")
    BY <2>4, <2>5, MovesOne
  <2> QED BY <2>6 DEF Abstract!HandoffNext, Abstract!End
<1>10. CASE AddPush(t)
  <2>1. PICK w \in Wrappers : w = fgConn[t]
    BY <1>1, <1>10 DEF AddPush, InMethod
  <2>2. InUse(w) /\ w \notin Registered
    BY <1>2, <1>3, <1>10, <2>1 DEF AddPush
  <2>3. Registered' = Registered \cup {w}
    BY <1>2, <1>10, <2>1, <2>2, AppendElements DEF AddPush, Registered
  <2>4. /\ fgPC'[t] = "idle" /\ UNCHANGED mIscsi
        /\ bgPC # "service" /\ bgPC' # "service"
    BY <1>1, <1>10, HolderAssumption
    DEF AddPush, Leaves, Goes, NotifyOne, Inv5, Inv1, MutexInv, BG, Free
  <2>5. HolderOf(w) = "caller" /\ HolderOf(w)' = "list"
    BY <1>4, <2>2, <2>3, <2>4 DEF HolderOf
  <2>6. \A v \in Wrappers \ {w} : HolderOf(v)' = HolderOf(v)
    BY <1>3, <1>4, <2>1, <2>3, <2>4 DEF HolderOf
  <2>7. Abstract!Moves(w, "caller", "list")
    BY <2>5, <2>6, MovesOne
  <2> QED BY <2>7 DEF Abstract!HandoffNext, Abstract!Hand
<1> QED BY <1>5, <1>6, <1>7, <1>8, <1>9, <1>10 DEF Operation

-----------------------------------------------------------------------------
(* The other steps, and the theorem.                                       *)

LEMMA OtherMaps ==
  ASSUME OneThread, Inv5,
         \/ Stopping \/ Environment \/ UNCHANGED vars
         \/ \E w \in Wrappers : ConnectNullContext(w)
  PROVE  HandoffStep
<1> USE DEF HandoffStep
<1>1. /\ Main \in Threads /\ \A w \in Wrappers : Owner[w] = Main
      /\ fgPC \in [Threads -> InMethod \cup {"idle", "stop", "join"}]
      /\ mIscsi \in [Wrappers -> {"null", "open", "gone"}]
  BY ThreadsAssumption DEF OneThread, Inv5, Inv1, TypeOK
<1>2. CASE UNCHANGED <<mConnections, mIscsi, bgPC, fgVars>>
  <2>1. \A v \in Wrappers : InUse(v)' = InUse(v)
    BY <1>2 DEF fgVars, InUse, Using
  <2> QED BY <1>2, <2>1, MappingStill
<1>3. CASE Stopping
  <2>1. /\ UNCHANGED <<mConnections, fgConn, mIscsi>>
        /\ \/ UNCHANGED fgPC
           \/ /\ fgPC[Main] \in {"idle", "stop", "join"}
              /\ fgPC'[Main] \in {"idle", "stop", "join"}
        /\ bgPC' = bgPC \/ (bgPC # "service" /\ bgPC' # "service")
    BY <1>1, <1>3 DEF Stopping, StopCheck, Exit, StopSignal, StopJoin, NotifyOne, Goes, bgVars
  <2>2. \A v \in Wrappers : InUse(v)' = InUse(v)
    BY <1>1, <2>1 DEF InUse, Using
  <2> QED BY <2>1, <2>2, MappingStill, MappingSame DEF Registered
<1>4. CASE Environment
  <2>1. ASSUME NEW w \in Wrappers, Destroy(w) PROVE HandoffStep
    <3>1. /\ ~InUse(w) /\ mIscsi' = [mIscsi EXCEPT ![w] = "gone"]
          /\ UNCHANGED <<mConnections, bgPC>> /\ Registered' = Registered
          /\ \A v \in Wrappers : InUse(v)' = InUse(v)
      BY <2>1 DEF Destroy, InUse, Using, bgVars, fgVars, Registered
    <3>2. \A v \in Wrappers \ {w} : HolderOf(v)' = HolderOf(v)
      BY <1>1, <3>1 DEF HolderOf
    <3>3. CASE w \notin Registered /\ mIscsi[w] = "null"
      <4>1. HolderOf(w) = "none" /\ HolderOf(w)' = "lost"
        BY <1>1, <3>1, <3>3 DEF HolderOf
      <4>2. Abstract!Moves(w, "none", "lost")
        BY <3>2, <4>1, MovesOne
      <4> QED BY <4>2 DEF Abstract!HandoffNext, Abstract!Never
    <3>4. CASE ~(w \notin Registered /\ mIscsi[w] = "null")
      <4>1. HolderOf(w)' = HolderOf(w)
        BY <1>1, <3>1, <3>4 DEF HolderOf
      <4> QED BY <3>2, <4>1, Stutters
    <3> QED BY <3>3, <3>4
  <2>2. CASE Tick \/ \E w \in Wrappers : TargetNop(w) \/ TargetClose(w)
    BY <1>2, <2>2 DEF Tick, TargetNop, TargetClose, bgVars
  <2> QED BY <1>4, <2>1, <2>2 DEF Environment
<1>5. CASE UNCHANGED vars
  BY <1>2, <1>5 DEF vars, bgVars
<1>6. ASSUME NEW w \in Wrappers, ConnectNullContext(w) PROVE HandoffStep
  BY <1>2, <1>6 DEF ConnectNullContext, bgVars
<1> QED BY <1>3, <1>4, <1>5, <1>6

\* In a program with one foreground thread connections change hands as the
\* comments of iSCSILibWrapper.cpp promise: taken off the list before use and
\* put back after it, served one at a time and never while in use, and out of
\* everybody's hands for good after an exception.
THEOREM HandoffRefined == ASSUME OneThread PROVE Spec => ImplementsHandoff
<1>1. Init => Abstract!HandoffInit
  <2> SUFFICES ASSUME Init PROVE \A w \in Wrappers : HolderOf(w) = "none"
    BY DEF Abstract!HandoffInit, holder
  <2>1. Registered = {}
    BY DEF Init, Registered, ToSet
  <2>2. \A w \in Wrappers : ~InUse(w)
    BY ThreadsAssumption DEF Init, InUse, Using
  <2> QED BY <2>1, <2>2 DEF Init, HolderOf
<1>2. Inv5 /\ [Next]_vars => [Abstract!HandoffNext]_holder
  BY BackgroundMaps, OperationMaps, OtherMaps DEF Next, Over, HandoffStep
<1> QED
  BY <1>1, <1>2, Inv5Init, Inv5Step, PTL DEF Spec, ImplementsHandoff, Abstract!HandoffSpec

-----------------------------------------------------------------------------
(* How the process can end.                                                *)

\* Nobody is about to use a wrapper that has been destroyed.
NoneGone ==
  /\ \A w \in Registered : mIscsi[w] # "gone"
  /\ \A t \in Threads : fgPC[t] \in InMethod => mIscsi[fgConn[t]] # "gone"

LEMMA NoneGoneSame == NoneGone /\ UNCHANGED <<mConnections, fgPC, fgConn, mIscsi>> => NoneGone'
BY DEF NoneGone, Registered, InMethod

LEMMA NoneGoneStep == Careful /\ Inv1 /\ Inv2 /\ NoneGone /\ [Next]_vars => NoneGone'
<1> SUFFICES ASSUME Careful, Inv1, Inv2, NoneGone, [Next]_vars PROVE NoneGone'
  OBVIOUS
<1>1. /\ fgPC \in [Threads -> InMethod \cup {"idle", "stop", "join"}]
      /\ fgConn \in [Threads -> Wrappers \cup {NoWrapper}]
      /\ \A t \in Threads : fgPC[t] \in InMethod => fgConn[t] \in Wrappers
      /\ mIscsi \in [Wrappers -> {"null", "open", "gone"}]
      /\ mConnections \in Seq(Wrappers) /\ Distinct(mConnections)
      /\ Registered \subseteq Wrappers
  BY DEF Inv1, Inv2, TypeOK, OffTheListInUse, Distinct, Registered, ToSet
<1> USE <1>1
<1>2. CASE Background
  <2>1. UNCHANGED <<fgPC, fgConn, mIscsi>>
    BY <1>2 DEF Background, BGCheck, BGWait, BGTimeout, BGSpurious, BGLoop, BGServe,
                BGService, BGThrow, fgVars
  <2>2. Registered' = Registered
    <3>1. CASE BGService
      BY <3>1, RotatedElements DEF BGService, Inv1, MutexInv, Registered
    <3>2. CASE ~BGService
      BY <1>2, <3>2
      DEF Background, BGCheck, BGWait, BGTimeout, BGSpurious, BGLoop, BGServe, BGThrow,
          Registered
    <3> QED BY <3>1, <3>2
  <2> QED BY <2>1, <2>2 DEF NoneGone
<1>3. ASSUME NEW t \in Threads, Operation(t) PROVE NoneGone'
  <2> USE DEF NoneGone
  <2>1. ASSUME NEW w \in Wrappers, Connect(t, w) PROVE NoneGone'
    BY <2>1 DEF Connect, Calls, Goes, Registered, InMethod
  <2>2. ASSUME NEW w \in Wrappers, RemoveReadSize(t, w) PROVE NoneGone'
    BY <2>2 DEF RemoveReadSize, Calls, Goes, Registered
  <2>3. CASE RemoveErase(t)
    <3>1. PICK i \in EraseAt(t) : mConnections' = RemoveAt(mConnections, i)
      BY <2>3 DEF RemoveErase
    <3>2. i \in DOMAIN mConnections
      BY <3>1 DEF EraseAt
    <3>3. Registered' \subseteq Registered
      BY <3>1, <3>2, EraseElements DEF Registered
    <3> QED BY <2>3, <3>3 DEF RemoveErase, Goes, InMethod
  <2>4. CASE RemoveThrow(t) \/ OpThrow(t)
    BY <2>4 DEF RemoveThrow, OpThrow, Leaves, Goes, Registered, InMethod
  <2>5. CASE OpReturn(t) \/ AddEnter(t)
    BY <2>5 DEF OpReturn, AddEnter, Goes, Registered, InMethod
  <2>6. CASE OpDisconnect(t)
    BY <2>6 DEF OpDisconnect, Leaves, Goes, Registered, InMethod
  <2>7. CASE OpNullContext(t)
    BY <2>7, NoneGoneSame DEF OpNullContext, fgVars
  <2>8. CASE AddPush(t)
    <3>1. fgConn[t] \in Wrappers /\ fgConn[t] \notin Registered
      BY <2>8 DEF AddPush, InMethod, Inv2, OwnerInv, OffTheListInUse, InUse, Using
    <3>2. Registered' = Registered \cup {fgConn[t]}
      BY <2>8, <3>1, AppendElements DEF AddPush, Registered
    <3>3. mIscsi[fgConn[t]] # "gone"
      BY <2>8 DEF AddPush, InMethod
    <3> QED BY <2>8, <3>2, <3>3 DEF AddPush, Leaves, Goes, InMethod
  <2> QED BY <1>3, <2>1, <2>2, <2>3, <2>4, <2>5, <2>6, <2>7, <2>8 DEF Operation
<1>4. CASE Stopping
  <2>1. /\ UNCHANGED <<mConnections, fgConn, mIscsi>>
        /\ \A t \in Threads : fgPC'[t] \in InMethod => fgPC'[t] = fgPC[t]
    BY <1>4, ThreadsAssumption
    DEF Stopping, StopCheck, Exit, StopSignal, StopJoin, Goes, InMethod
  <2> QED BY <2>1 DEF NoneGone, Registered
<1>5. CASE Environment
  <2>1. ASSUME NEW w \in Wrappers, Destroy(w) PROVE NoneGone'
    <3>1. /\ w \notin Registered /\ fgPC[Owner[w]] = "idle"
          /\ mIscsi' = [mIscsi EXCEPT ![w] = "gone"]
          /\ UNCHANGED <<mConnections, fgPC, fgConn>>
      BY <2>1 DEF Destroy, fgVars
    <3>2. \A t \in Threads : fgPC[t] \in InMethod => fgConn[t] # w
      BY <3>1 DEF Inv2, OwnerInv, InMethod
    <3> QED BY <3>1, <3>2 DEF NoneGone, Registered
  <2>2. CASE Tick \/ \E w \in Wrappers : TargetNop(w) \/ TargetClose(w)
    BY <2>2, NoneGoneSame DEF Tick, TargetNop, TargetClose, fgVars
  <2> QED BY <1>5, <2>1, <2>2 DEF Environment
<1>6. CASE UNCHANGED vars
  BY <1>6, NoneGoneSame DEF vars, fgVars
<1>7. ASSUME NEW w \in Wrappers, ConnectNullContext(w) PROVE NoneGone'
  BY <1>7, NoneGoneSame DEF ConnectNullContext, fgVars
<1> QED BY <1>2, <1>3, <1>4, <1>5, <1>6, <1>7 DEF Next, Over

LEMMA NoneGoneInit == Init => NoneGone
<1>1. Init => Registered = {}
  BY DEF Init, Registered, ToSet
<1> QED BY <1>1 DEF Init, NoneGone, InMethod

\* ~iSCSILibWrapper does not look at the list.  If every program takes its wrappers off
\* it first, no thread, whether the program's or the background thread, ever follows a
\* pointer to a wrapper that has been destroyed.
THEOREM NoDanglingPointer == ASSUME Careful PROVE Spec => []NoneGone
BY NoneGoneInit, NoneGoneStep, Inv1Init, Inv1Step, Inv2Init, Inv2Step, PTL DEF Spec


\* With one thread, however many wrappers there are and whatever the program does with
\* them, the process ends by itself in the known ways only: at line 336, or in the
\* background thread.  No operation that has begun gives libiscsi a null context, and
\* the background thread uses a destroyed wrapper only where the program is one that
\* destroys wrappers on the list.
THEOREM EveryEndIsKnown == ASSUME OneThread PROVE Spec => EndsAreKnown
<1> DEFINE Ending ==
      \/ \E w \in Wrappers : ConnectNullContext(w)
      \/ /\ BGThrow
         /\ \/ inbound[Head(mConnections)] = "closed"
            \/ inbound[Head(mConnections)] = "quiet" /\ ~PollForever
            \/ mIscsi[Head(mConnections)] = "gone" /\ ~Careful
           KnownGone == Careful => NoneGone
<1>1. Inv5 /\ KnownGone /\ [Next]_vars => [alive /\ ~alive' => Ending]_vars
  <2> SUFFICES ASSUME Inv5, KnownGone, Next, alive, ~alive' PROVE Ending
    OBVIOUS
  <2>1. CASE BGThrow
    <3>1. mConnections # <<>> /\ mConnections \in Seq(Wrappers)
      BY <2>1 DEF BGThrow, Inv5, Inv1, TypeOK, MutexInv
    <3>2. Head(mConnections) = mConnections[1] /\ 1 \in DOMAIN mConnections
      BY <3>1, EmptySeq
    <3>3. Careful => mIscsi[Head(mConnections)] # "gone"
      BY <3>2 DEF NoneGone, Registered, ToSet
    <3> QED BY <2>1, <3>3 DEF BGThrow
  <2>2. CASE Background
    BY <2>1, <2>2 DEF Background, BGCheck, BGWait, BGTimeout, BGSpurious, BGLoop, BGServe,
                      BGService, envVars
  <2>3. ASSUME NEW t \in Threads, Operation(t) PROVE FALSE
    <3>1. t = Main
      BY DEF OneThread
    <3>2. ~OpNullContext(t)
      BY <3>1 DEF Inv5, UseInv, OpNullContext
    <3> QED
      BY <2>3, <3>2 DEF Operation, Connect, RemoveReadSize, RemoveErase, RemoveThrow,
                        OpReturn, OpThrow, OpDisconnect, AddEnter, AddPush, envVars
  <2>4. ~Stopping
    BY DEF Stopping, StopCheck, Exit, StopSignal, StopJoin, envVars
  <2>5. ~Environment
    BY DEF Environment, Tick, Destroy, TargetNop, TargetClose, envVars
  <2>6. ~UNCHANGED vars
    BY DEF vars, envVars
  <2> QED BY <2>2, <2>3, <2>4, <2>5, <2>6 DEF Next, Over
<1>2. Inv5 => Inv1 /\ Inv2
  BY DEF Inv5
<1>3. Inv1 /\ Inv2 /\ KnownGone /\ [Next]_vars => KnownGone'
  <2>1. Careful' <=> Careful
    OBVIOUS
  <2> QED BY <2>1, NoneGoneStep
<1>4. Init => KnownGone
  BY NoneGoneInit
<1> HIDE DEF KnownGone
<1> QED
  BY <1>1, <1>2, <1>3, <1>4, Inv5Init, Inv5Step, PTL DEF Spec, EndsAreKnown

=============================================================================
