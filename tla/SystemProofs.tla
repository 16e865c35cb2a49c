---------------------------- MODULE SystemProofs ----------------------------
(***************************************************************************)
(* Proofs about module System: the library is an instance of BackGround    *)
(* and, seen from the wrapper Self, one of Session, so that what            *)
(* BackGroundProofs, HandoffProofs and SessionProofs prove of each holds    *)
(* of the two together, and what neither of them says alone follows.       *)
(***************************************************************************)
EXTENDS System, HandoffProofs

\* The theorems of SessionProofs, for Self.
SP == INSTANCE SessionProofs
        WITH mIscsi <- HasContext, registered <- Listed, alive <- Exists

-----------------------------------------------------------------------------
(* System implements BackGround.                                           *)

\* System assumes that the program has one thread.
LEMMA OneForeground == OneThread /\ Main \in Threads
BY SelfAssumption DEF OneThread

LEMMA BackGroundStep == [SystemNext]_systemVars => [Next]_vars
<1> SUFFICES ASSUME [SystemNext]_systemVars PROVE [Next]_vars
  OBVIOUS
<1> USE OneForeground, SelfAssumption DEF Apart, Within
<1>1. CASE SelfOperation
  <2>1. CASE SelfConnect
    BY <2>1 DEF SelfConnect, Next, Operation
  <2>2. CASE SelfRemove
    BY <2>2 DEF SelfRemove, Next, Operation
  <2>3. CASE SelfGoesOn
    BY <2>3 DEF SelfGoesOn
  <2>4. CASE SelfThrows
    BY <2>4 DEF SelfThrows, Next, Operation
  <2>5. CASE SelfDisconnects
    BY <2>5 DEF SelfDisconnects, Next, Operation
  <2>6. CASE SelfReturns
    BY <2>6 DEF SelfReturns, Next, Operation
  <2> QED BY <1>1, <2>1, <2>2, <2>3, <2>4, <2>5, <2>6 DEF SelfOperation
<1>2. CASE OtherOperation
  BY <1>2 DEF OtherOperation, Next
<1>3. CASE BackgroundStep
  BY <1>3 DEF BackgroundStep, Next, Background
<1>4. CASE ProgramStep
  BY <1>4 DEF ProgramStep, Next, Environment
<1>5. CASE TargetStep
  BY <1>5 DEF TargetStep, Next, Environment
<1>6. CASE Apart(Over)
  BY <1>6 DEF Next
<1>7. CASE UNCHANGED systemVars
  BY <1>7 DEF systemVars
<1> QED BY <1>1, <1>2, <1>3, <1>4, <1>5, <1>6, <1>7 DEF SystemNext

\* What a wrapper does in full stays within what BackGround lets any wrapper do:
\* every theorem about BackGround holds of the library as a whole.
THEOREM ImplementsBackGround == SystemSpec => Spec
<1>1. SystemInit => Init
  BY DEF SystemInit
<1> QED BY <1>1, BackGroundStep, PTL DEF SystemSpec, Spec

LEMMA SystemInv == SystemSpec => []Inv5
<1>1. SystemInit => Inv5
  BY Inv5Init DEF SystemInit
<1>2. Inv5 /\ [SystemNext]_systemVars => Inv5'
  BY BackGroundStep, Inv5Step, OneForeground
<1> QED BY <1>1, <1>2, PTL DEF SystemSpec

-----------------------------------------------------------------------------
(* System implements Session.                                              *)

\* What is a stutter for the session.
LEMMA SessionSame ==
  ASSUME UNCHANGED sessionVars,
         (HasContext' <=> HasContext), (Listed' <=> Listed), (Exists' <=> Exists)
  PROVE  UNCHANGED S!vars
<1>1. HasContext' = HasContext /\ Listed' = Listed /\ Exists' = Exists
  OBVIOUS
<1>2. UNCHANGED <<S!clientVars, S!callVars, S!netVars>>
  BY DEF sessionVars, S!clientVars, S!callVars, S!netVars
<1>3. UNCHANGED <<mError, mRedirected, mDiscoveryPairs, executed>>
  BY DEF sessionVars
<1> QED BY <1>1, <1>2, <1>3, Zenon DEF S!vars

\* The list, the context of Self and the process are as they were.
LEMMA SessionStill ==
  ASSUME UNCHANGED sessionVars, Registered' = Registered, mIscsi'[Self] = mIscsi[Self],
         alive' = alive
  PROVE  UNCHANGED S!vars
<1>1. (HasContext' <=> HasContext) /\ (Listed' <=> Listed) /\ (Exists' <=> Exists)
  BY DEF HasContext, Listed, Exists
<1> QED BY <1>1, SessionSame

\* The steps of Self are those of Session: what is joined to them only makes them rarer.
LEMMA SelfMaps == ASSUME SelfOperation PROVE [S!Next]_S!vars
<1> USE DEF S!Next, Within
<1>1. CASE SelfConnect
  BY <1>1 DEF SelfConnect, S!Call
<1>2. CASE SelfRemove
  <2>1. ASSUME Apart(RemoveReadSize(Main, Self)) PROVE UNCHANGED S!vars
    BY <2>1, SessionStill DEF Apart, RemoveReadSize, Registered, envVars
  <2>2. ASSUME NEW o \in Listable, NEW r \in S!RequestsOf(o), S!Remove(o, r) PROVE S!Call
    BY <2>2 DEF Listable, S!Call
  <2>3. ASSUME NEW o \in Listable, S!NotListed(o) PROVE S!Call
    BY <2>3 DEF Listable, S!Call
  <2> QED BY <1>2, <2>1, <2>2, <2>3 DEF SelfRemove
<1>3. CASE SelfGoesOn
  BY <1>3 DEF SelfGoesOn, S!Call, S!Loop
<1>4. CASE SelfThrows
  BY <1>4 DEF SelfThrows, S!Call, S!Loop
<1>5. CASE SelfDisconnects
  BY <1>5 DEF SelfDisconnects, S!Call
<1>6. CASE SelfReturns
  <2>1. ASSUME Apart(OpReturn(Main)) PROVE UNCHANGED S!vars
    BY <2>1, SessionStill DEF Apart, OpReturn, Registered
  <2>2. ASSUME Apart(AddEnter(Main)) PROVE UNCHANGED S!vars
    BY <2>2, SessionStill DEF Apart, AddEnter, Registered, envVars
  <2> QED BY <1>6, <2>1, <2>2 DEF SelfReturns, S!Loop
<1> QED BY <1>1, <1>2, <1>3, <1>4, <1>5, <1>6 DEF SelfOperation

\* What is done to another wrapper takes that one off the list, puts it back, gives it
\* a context or takes it away: nothing of it is seen from Self.  That RemoveConnection
\* erases nothing of Self's is OwnPosition, that it uses no null context is UseInv; its iSCSIConnect may end
\* the process, which is one of Session's steps.
LEMMA AnothersOperation ==
  ASSUME Inv5, OtherOperation, ~\E w \in Wrappers \ {Self} : ConnectNullContext(w)
  PROVE  UNCHANGED S!vars
<1>1. /\ Main \in Threads /\ Self \in Wrappers /\ OneThread
      /\ fgConn[Main] # Self /\ fgConn'[Main] # Self
      /\ Operation(Main) /\ UNCHANGED sessionVars
  BY OneForeground, SelfAssumption DEF OtherOperation, Elsewhere
<1>2. /\ mConnections \in Seq(Wrappers)
      /\ fgPC[Main] \in InMethod => fgConn[Main] \in Wrappers
      /\ fgConn \in [Threads -> Wrappers \cup {NoWrapper}]
      /\ mIscsi \in [Wrappers -> {"null", "open", "gone"}]
  BY <1>1 DEF Inv5, Inv1, TypeOK
<1>3. ASSUME NEW w \in Wrappers, Connect(Main, w) PROVE UNCHANGED S!vars
  <2>1. w # Self
    BY <1>1, <1>2, <1>3 DEF Connect, Calls
  <2> QED
    BY <1>1, <1>2, <1>3, <2>1, SessionStill DEF Connect, Registered, envVars
<1>4. ASSUME NEW w \in Wrappers, RemoveReadSize(Main, w) PROVE UNCHANGED S!vars
  BY <1>1, <1>4, SessionStill DEF RemoveReadSize, Registered, envVars
<1>5. CASE RemoveErase(Main)
  <2>1. Registered' = Registered \ {fgConn[Main]}
    BY <1>1, <1>5, OwnPosition DEF Inv5
  <2>2. Listed' <=> Listed
    BY <1>1, <2>1 DEF Listed
  <2>3. (HasContext' <=> HasContext) /\ (Exists' <=> Exists)
    BY <1>5 DEF RemoveErase, HasContext, Exists, envVars
  <2> QED BY <1>1, <2>2, <2>3, SessionSame
<1>6. CASE RemoveThrow(Main) \/ OpThrow(Main) \/ AddEnter(Main) \/ OpReturn(Main)
  <2>1. Registered' = Registered /\ UNCHANGED <<mIscsi, alive>>
    BY <1>6 DEF RemoveThrow, OpThrow, AddEnter, OpReturn, Registered, envVars
  <2> QED BY <1>1, <2>1, SessionStill
<1>7. CASE OpDisconnect(Main)
  <2>1. mIscsi'[Self] = mIscsi[Self]
    BY <1>1, <1>2, <1>7 DEF OpDisconnect
  <2> QED BY <1>1, <1>7, <2>1, SessionStill DEF OpDisconnect, Registered
<1>8. ~OpNullContext(Main)
  BY DEF Inv5, UseInv, OpNullContext
<1>9. CASE AddPush(Main)
  <2>1. fgConn[Main] \in Wrappers
    BY <1>2, <1>9 DEF AddPush, InMethod
  <2>2. fgConn[Main] \notin Registered
    BY <1>1, <1>9, <2>1, ThreadsAssumption
    DEF AddPush, Inv5, Inv2, OffTheListInUse, InUse, Using, OneThread
  <2>3. Registered' = Registered \cup {fgConn[Main]}
    BY <1>2, <1>9, <2>1, <2>2, AppendElements
    DEF AddPush, Registered, Inv5, Inv2, OffTheListInUse, Distinct
  <2>4. Listed' <=> Listed
    BY <1>1, <2>3 DEF Listed
  <2>5. (HasContext' <=> HasContext) /\ (Exists' <=> Exists)
    BY <1>9 DEF AddPush, HasContext, Exists, envVars
  <2> QED BY <1>1, <2>4, <2>5, SessionSame
<1> QED BY <1>1, <1>3, <1>4, <1>5, <1>6, <1>7, <1>8, <1>9 DEF Operation


\* The process ends, and not in a step of Self.
LEMMA EndsElsewhere ==
  ASSUME UNCHANGED <<sessionVars, mConnections, mIscsi>>, alive' = FALSE
  PROVE  S!AnotherFails \/ UNCHANGED S!vars
<1>1. (HasContext' <=> HasContext) /\ (Listed' <=> Listed) /\ ~Exists'
  BY DEF HasContext, Listed, Exists, Registered
<1>2. CASE Exists
  <2>1. HasContext' = HasContext /\ Listed' = Listed
    BY DEF HasContext, Listed, Registered
  <2>2. Exists' = FALSE
    BY Zenon DEF Exists
  <2>3. UNCHANGED <<S!clientVars, mError, mRedirected, mDiscoveryPairs, executed,
                    S!callVars, S!netVars>>
    BY DEF sessionVars, S!clientVars, S!callVars, S!netVars
  <2> QED BY <1>2, <2>1, <2>2, <2>3, Zenon DEF S!AnotherFails
<1>3. CASE ~Exists
  BY <1>1, <1>3, SessionSame
<1> QED BY <1>2, <1>3

LEMMA AnothersConnect ==
  ASSUME OtherOperation, NEW w \in Wrappers, ConnectNullContext(w)
  PROVE  [S!Next]_S!vars
<1>1. UNCHANGED <<sessionVars, mConnections, mIscsi>> /\ alive' = FALSE
  BY DEF OtherOperation, ConnectNullContext
<1> QED BY <1>1, EndsElsewhere DEF S!Next

\* The background thread changes neither who is listed nor any context; its failure is
\* one of Session's two, as it services Self or another.
LEMMA BackgroundStepMaps == ASSUME Inv5, BackgroundStep PROVE [S!Next]_S!vars
<1> USE DEF S!Next, Apart
<1>1. CASE Apart(BGCheck \/ BGWait \/ BGTimeout \/ BGSpurious \/ BGLoop \/ BGServe)
  <2>1. UNCHANGED <<sessionVars, mConnections, mIscsi, alive>>
    BY <1>1 DEF BGCheck, BGWait, BGTimeout, BGSpurious, BGLoop, BGServe, envVars
  <2> QED BY <2>1, SessionStill DEF Registered
<1>2. CASE Apart(BGService)
  <2>1. Registered' = Registered
    BY <1>2, RotatedElements
    DEF BGService, Registered, Distinct, Inv5, Inv1, TypeOK, MutexInv, Inv2, OffTheListInUse
  <2> QED BY <1>2, <2>1, SessionStill DEF BGService
<1>3. CASE BGThrow /\ Head(mConnections) = Self /\ S!BackGroundThrows
  BY <1>3
<1>4. CASE BGThrow /\ Head(mConnections) # Self /\ UNCHANGED sessionVars
  <2>1. /\ UNCHANGED <<sessionVars, mConnections, mIscsi>> /\ alive' = FALSE
    BY <1>4 DEF BGThrow
  <2> QED BY <2>1, EndsElsewhere
<1> QED BY <1>1, <1>2, <1>3, <1>4 DEF BackgroundStep

\* The program ends, or destroys a wrapper; the clock and the targets go on.
LEMMA ProgramStepMaps == ASSUME Inv5, ProgramStep PROVE [S!Next]_S!vars
<1> USE DEF S!Next, Apart
<1>1. CASE Apart(Stopping)
  <2>1. UNCHANGED <<sessionVars, mConnections, mIscsi, alive>>
    BY <1>1 DEF Stopping, StopCheck, Exit, StopSignal, StopJoin, envVars
  <2> QED BY <2>1, SessionStill DEF Registered
<1>2. ASSUME NEW w \in Wrappers \ {Self}, Apart(Destroy(w)) PROVE UNCHANGED S!vars
  <2>1. mIscsi'[Self] = mIscsi[Self]
    BY <1>2, SelfAssumption DEF Destroy, Inv5, Inv1, TypeOK
  <2> QED BY <1>2, <2>1, SessionStill DEF Destroy, Registered
<1> QED BY <1>1, <1>2 DEF ProgramStep

LEMMA TargetStepMaps == ASSUME TargetStep PROVE UNCHANGED S!vars
<1>1. UNCHANGED <<sessionVars, mConnections, mIscsi, alive>>
  BY DEF TargetStep, Apart, Tick, TargetNop, TargetClose, envVars
<1> QED BY <1>1, SessionStill DEF Registered

LEMMA SessionStep == Inv5 /\ [SystemNext]_systemVars => [S!Next]_S!vars
<1>1. UNCHANGED systemVars \/ Apart(Over) => UNCHANGED S!vars
  <2> SUFFICES ASSUME UNCHANGED systemVars \/ Apart(Over) PROVE UNCHANGED S!vars
    OBVIOUS
  <2>1. UNCHANGED <<sessionVars, mConnections, mIscsi, alive>>
    BY DEF systemVars, Apart, Over, vars, envVars
  <2> QED BY <2>1, SessionStill DEF Registered
<1> QED
  BY <1>1, SelfMaps, AnothersOperation, AnothersConnect, BackgroundStepMaps, ProgramStepMaps, TargetStepMaps
  DEF SystemNext

\* Whatever the other wrappers, their targets and the background task do, the wrapper
\* goes through the steps of module Session and no others.
THEOREM SessionRefined == SystemSpec => ImplementsSession
<1>1. SystemInit => S!Init
  BY DEF SystemInit
<1> QED BY <1>1, SystemInv, SessionStep, PTL DEF SystemSpec, ImplementsSession, S!Spec

-----------------------------------------------------------------------------
(* What only the two together say.                                         *)

\* System's instance of Session is that of its proofs.
LEMMA SameInit == S!Init <=> SP!Init
BY DEF S!Init, SP!Init, S!None, SP!None, S!NoRequest, SP!NoRequest

LEMMA SameVars == UNCHANGED S!vars <=> UNCHANGED SP!vars
BY DEF S!vars, SP!vars, S!clientVars, SP!clientVars, S!callVars, SP!callVars, S!netVars,
       SP!netVars

LEMMA SameNext == S!Next <=> SP!Next
BY DEF
    S!Next, SP!Next, S!Call, SP!Call, S!Loop, SP!Loop, S!NotListed, SP!NotListed,
    S!Remove, SP!Remove, S!ConnectRefused, SP!ConnectRefused, S!ConnectFails,
    SP!ConnectFails, S!ConnectNullContext, SP!ConnectNullContext, S!ConnectBegins, SP!ConnectBegins, S!Refuse, SP!Refuse, S!Send,
    SP!Send, S!SendFails, SP!SendFails, S!Disconnect, SP!Disconnect,
    S!DisconnectFails, SP!DisconnectFails, S!PollFails, SP!PollFails,
    S!AnsweredWell, SP!AnsweredWell, S!AnsweredBadly, SP!AnsweredBadly,
    S!ServiceFails, SP!ServiceFails, S!LoopThrows, SP!LoopThrows, S!Finish,
    SP!Finish, S!BackGroundThrows, SP!BackGroundThrows, S!AnotherFails,
    SP!AnotherFails, S!Destroy, SP!Destroy, S!Over, SP!Over, S!Calls, SP!Calls,
    S!Begins, SP!Begins, S!Throws, SP!Throws, S!Returns, SP!Returns, S!RequestsOf,
    SP!RequestsOf, S!MayRun, SP!MayRun, S!Prepares, SP!Prepares, S!ClearPairs,
    SP!ClearPairs, S!Waiting, SP!Waiting, S!GoodCallback, SP!GoodCallback,
    S!BadCallback, SP!BadCallback, S!SetExecuted, SP!SetExecuted, S!Ops, SP!Ops,
    S!Checked, SP!Checked, S!Unchecked, SP!Unchecked, S!NormalLogins,
    SP!NormalLogins, S!Logins, SP!Logins, S!None, SP!None, S!NoRequest,
    SP!NoRequest, S!vars, SP!vars, S!clientVars, SP!clientVars, S!callVars,
    SP!callVars, S!netVars, SP!netVars


LEMMA ListedWorks == SystemSpec => []S!QuietWhenListed
<1>1. SP!QuietWhenListed => S!QuietWhenListed
  BY DEF SP!QuietWhenListed, S!QuietWhenListed, S!None, SP!None
<1>2. [S!Next]_S!vars => [SP!Next]_SP!vars
  BY SameNext, SameVars
<1>3. SP!Spec => []SP!QuietWhenListed
  BY SP!ListedIsQuiet, SessionAssumption DEF S!NoRequest, SP!NoRequest
<1> QED
  BY <1>1, <1>2, <1>3, SameInit, SessionRefined, PTL DEF ImplementsSession, S!Spec, SP!Spec

\* When the background thread takes its turn there is a connection at the head of its
\* list and, if that is Self, the connection works, waits for no answer and its caller is in
\* none of its operations: no callback of an operation runs in the background thread,
\* and no old error makes ServiceISCSIEvents throw there.
THEOREM InPeace == SystemSpec => []ServicedInPeace
<1>1. Inv5 => (bgPC = "service" => mConnections # <<>>)
  BY DEF Inv5, Inv1, MutexInv
<1>2. Inv5 /\ S!QuietWhenListed => ServicedInPeace
  <2> SUFFICES ASSUME Inv5, S!QuietWhenListed, bgPC = "service",
                      Head(mConnections) = Self
               PROVE  phase = "idle" /\ pending = S!None /\ HasContext /\ connected /\ ~error
    BY <1>1 DEF ServicedInPeace
  <2>1. mConnections \in Seq(Wrappers) /\ mConnections # <<>>
    BY <1>1 DEF Inv5, Inv1, TypeOK
  <2>2. Head(mConnections) = mConnections[1] /\ 1 \in DOMAIN mConnections
    BY <2>1, EmptySeq
  <2>3. Listed
    BY <2>2 DEF Listed, Registered, ToSet
  <2> QED BY <2>3 DEF S!QuietWhenListed
<1> QED BY <1>2, SystemInv, ListedWorks, PTL


-----------------------------------------------------------------------------
(* The joint steps never get ahead of each other: where BackGround has the *)
(* thread is where Session has the call.                                   *)

\* The steps of no operation of Self.
LEMMA InStepSame ==
  ASSUME InStep,
         UNCHANGED <<phase, op, todo, finished, error>>,
         UNCHANGED <<fgPC, fgConn>>
  PROVE  InStep'
BY DEF InStep, Using, LoopOver, Listable, S!Ops, S!Checked, S!Unchecked

\* Each step of an operation of Self moves the two together.
LEMMA SelfInStep == ASSUME Inv1, InStep, SelfOperation PROVE InStep'
<1>1. /\ Main \in Threads /\ Self \in Wrappers /\ NoWrapper \notin Wrappers
      /\ fgPC \in [Threads -> InMethod \cup {"idle", "stop", "join"}]
      /\ fgConn \in [Threads -> Wrappers \cup {NoWrapper}]
      /\ fgConn[Main] = Self => fgPC[Main] \in InMethod
  BY OneForeground, SelfAssumption, ThreadsAssumption DEF Inv1, TypeOK
<1>2. "idle" \notin InMethod
  BY DEF InMethod
<1> USE <1>1, <1>2 DEF InStep, Using, S!callVars, S!clientVars
<1>3. CASE SelfConnect
  <2>1. CASE Connect(Main, Self) /\ S!ConnectBegins
    <3>1. fgPC'[Main] = "connect" /\ fgConn'[Main] = Self
      BY <2>1 DEF Connect, Calls, Goes
    <3>2. phase' = "begin" /\ op' = "connect"
      BY <2>1 DEF S!ConnectBegins, S!Begins
    <3> QED BY <3>1, <3>2
  <2>2. CASE /\ fgPC[Main] = "idle"
             /\ Within(S!ConnectRefused) \/ Within(S!ConnectFails)
    <3>1. UNCHANGED <<fgPC, fgConn>> /\ fgConn[Main] # Self
      BY <2>2 DEF Within, vars, fgVars
    <3>2. phase' = "idle" /\ todo' = <<>>
      BY <2>2 DEF Within, S!ConnectRefused, S!ConnectFails, S!Throws
    <3> QED BY <3>1, <3>2
  <2>3. CASE ConnectNullContext(Self) /\ S!ConnectNullContext
    <3>1. UNCHANGED <<fgPC, fgConn>> /\ UNCHANGED <<phase, op, todo, finished, error>>
      BY <2>3 DEF ConnectNullContext, fgVars, S!ConnectNullContext
    <3> QED BY <3>1, InStepSame
  <2> QED BY <1>3, <2>1, <2>2, <2>3 DEF SelfConnect
<1>4. CASE SelfRemove
  <2>1. CASE Apart(RemoveReadSize(Main, Self))
    <3>1. fgPC[Main] = "idle" /\ fgPC'[Main] = "remove" /\ fgConn'[Main] = Self
      BY <2>1 DEF Apart, RemoveReadSize, Calls, Goes
    <3>2. UNCHANGED <<phase, op, todo>>
      BY <2>1 DEF Apart, sessionVars
    <3> QED BY <3>1, <3>2
  <2>2. ASSUME fgConn[Main] = Self, RemoveErase(Main),
               NEW o \in Listable, NEW r, S!Remove(o, r)
        PROVE  InStep'
    <3>1. fgPC'[Main] = "using" /\ fgConn'[Main] = Self
      BY <2>2 DEF RemoveErase, Goes
    <3>2. phase' = "begin" /\ op' = o
      BY <2>2 DEF S!Remove, S!Begins
    <3>3. op' \in Listable'
      BY <2>2, <3>2 DEF Listable, S!Ops, S!Checked, S!Unchecked
    <3> QED BY <3>1, <3>2, <3>3
  <2>3. ASSUME fgConn[Main] = Self, RemoveThrow(Main), NEW o, S!NotListed(o)
        PROVE  InStep'
    <3>1. fgPC'[Main] = "idle" /\ fgConn'[Main] = NoWrapper
      BY <2>3 DEF RemoveThrow, Leaves, Goes
    <3>2. phase' = "idle" /\ todo' = <<>>
      BY <2>3 DEF S!NotListed, S!Throws
    <3> QED BY <3>1, <3>2
  <2> QED BY <1>4, <2>1, <2>2, <2>3 DEF SelfRemove
<1>5. CASE SelfGoesOn
  <2>1. UNCHANGED <<fgPC, fgConn, todo, op>> /\ fgConn[Main] = Self
    BY <1>5
    DEF SelfGoesOn, Within, vars, fgVars, S!Send, S!AnsweredWell, S!AnsweredBadly
  <2>2. phase # "idle" /\ phase' # "idle" /\ ~LoopOver
    BY <1>5
    DEF SelfGoesOn, Within, S!Send, S!Prepares, S!AnsweredWell, S!AnsweredBadly, S!Waiting,
        LoopOver
  <2>3. fgPC[Main] \in {"connect", "using"}
    BY <2>1, <2>2
  <2>4. Listable' = Listable
    BY DEF Listable, S!Ops, S!Checked, S!Unchecked
  <2> QED BY <2>1, <2>2, <2>3, <2>4
<1>6. CASE SelfThrows
  <2>1. fgPC'[Main] = "idle" /\ fgConn'[Main] = NoWrapper
    BY <1>6 DEF SelfThrows, OpThrow, Leaves, Goes
  <2>2. phase' = "idle" /\ todo' = <<>>
    BY <1>6
    DEF SelfThrows, S!Refuse, S!SendFails, S!DisconnectFails, S!PollFails, S!ServiceFails,
        S!LoopThrows, S!Throws
  <2> QED BY <2>1, <2>2
<1>7. CASE SelfDisconnects
  <2>1. fgPC'[Main] = "idle" /\ fgConn'[Main] = NoWrapper
    BY <1>7 DEF SelfDisconnects, OpDisconnect, Leaves, Goes
  <2>2. phase' = "idle"
    BY <1>7 DEF SelfDisconnects, S!Disconnect, S!Returns
  <2> QED BY <2>1, <2>2
<1>8. CASE SelfReturns
  <2>1. CASE LoopOver /\ Apart(OpReturn(Main))
    <3>1. fgPC'[Main] = "add" /\ fgConn' = fgConn /\ fgConn[Main] = Self
      BY <1>8, <2>1 DEF SelfReturns, Apart, OpReturn, Goes
    <3>2. UNCHANGED <<phase, todo, finished, error>> /\ phase = "service"
      BY <2>1 DEF Apart, sessionVars, LoopOver
    <3> QED BY <2>1, <3>1, <3>2 DEF LoopOver
  <2>2. CASE Apart(AddEnter(Main))
    <3>1. /\ fgPC[Main] = "add" /\ fgPC'[Main] = "push" /\ fgConn' = fgConn
          /\ fgConn[Main] = Self
      BY <1>8, <2>2 DEF SelfReturns, Apart, AddEnter, Goes
    <3>2. UNCHANGED <<phase, todo, finished, error>>
      BY <2>2 DEF Apart, sessionVars
    <3> QED BY <3>1, <3>2 DEF LoopOver
  <2>3. CASE AddPush(Main) /\ S!Finish
    <3>1. fgPC'[Main] = "idle" /\ fgConn'[Main] = NoWrapper
      BY <2>3 DEF AddPush, Leaves, Goes
    <3>2. phase' = "idle"
      BY <2>3 DEF S!Finish, S!Returns
    <3> QED BY <3>1, <3>2
  <2> QED BY <1>8, <2>1, <2>2, <2>3 DEF SelfReturns
<1> QED BY <1>3, <1>4, <1>5, <1>6, <1>7, <1>8 DEF SelfOperation

LEMMA InStepStep == Inv1 /\ InStep /\ [SystemNext]_systemVars => InStep'
<1> SUFFICES ASSUME Inv1, InStep, [SystemNext]_systemVars PROVE InStep'
  OBVIOUS
<1>1. CASE OtherOperation
  <2>1. /\ fgConn[Main] # Self /\ fgConn'[Main] # Self /\ todo = <<>>
        /\ UNCHANGED <<phase, op, todo, finished, error>>
    BY <1>1 DEF OtherOperation, Elsewhere, sessionVars, ConnectNullContext, fgVars
  <2> QED BY <2>1 DEF InStep, Using
<1>2. CASE BackgroundStep
  <2>1. UNCHANGED <<fgPC, fgConn>>
    BY <1>2
    DEF BackgroundStep, Apart, BGCheck, BGWait, BGTimeout, BGSpurious, BGLoop, BGServe,
        BGService, BGThrow, fgVars
  <2>2. UNCHANGED <<phase, op, todo, finished, error>>
    BY <1>2 DEF BackgroundStep, Apart, sessionVars, S!BackGroundThrows, S!callVars,
                S!clientVars
  <2> QED BY <2>1, <2>2, InStepSame
<1>3. CASE ProgramStep
  <2>1. CASE Apart(Stopping)
    <3>1. /\ UNCHANGED <<phase, op, todo, finished, error>> /\ fgConn' = fgConn
          /\ fgPC[Main] \in {"idle", "stop", "join"}
      BY <2>1, OneForeground
      DEF Apart, sessionVars, Stopping, StopCheck, Exit, StopSignal, StopJoin
    <3>2. fgConn[Main] # Self
      BY <3>1, OneForeground, SelfAssumption DEF Inv1, TypeOK, InMethod
    <3> QED BY <3>1, <3>2 DEF InStep, Using
  <2>2. CASE \/ \E w \in Wrappers \ {Self} : Apart(Destroy(w))
             \/ Destroy(Self) /\ S!Destroy
    <3>1. UNCHANGED <<fgPC, fgConn>>
      BY <2>2 DEF Apart, Destroy, fgVars
    <3>2. UNCHANGED <<phase, op, todo, finished, error>>
      BY <2>2 DEF Apart, sessionVars, S!Destroy, S!callVars, S!clientVars
    <3> QED BY <3>1, <3>2, InStepSame
  <2> QED BY <1>3, <2>1, <2>2 DEF ProgramStep
<1>4. CASE TargetStep
  <2>1. UNCHANGED <<fgPC, fgConn>> /\ UNCHANGED <<phase, op, todo, finished, error>>
    BY <1>4 DEF TargetStep, Apart, sessionVars, Tick, TargetNop, TargetClose, fgVars
  <2> QED BY <2>1, InStepSame
<1>5. CASE Apart(Over) \/ UNCHANGED systemVars
  <2>1. UNCHANGED <<fgPC, fgConn>> /\ UNCHANGED <<phase, op, todo, finished, error>>
    BY <1>5 DEF Apart, Over, systemVars, sessionVars, vars, fgVars
  <2> QED BY <2>1, InStepSame
<1> QED BY <1>1, <1>2, <1>3, <1>4, <1>5, SelfInStep DEF SystemNext

\* The joint steps of System relate two accounts of the same call that always agree:
\* neither model is held back in a place where the other has gone on.
THEOREM AccountsAgree == SystemSpec => []InStep
<1>1. SystemInit => InStep
  <2> SUFFICES ASSUME SystemInit PROVE InStep
    OBVIOUS
  <2>1. phase = "idle" /\ todo = <<>>
    BY DEF SystemInit, S!Init
  <2>2. fgConn[Main] # Self /\ fgPC[Main] = "idle"
    BY SelfAssumption, ThreadsAssumption DEF SystemInit, Init
  <2> QED BY <2>1, <2>2 DEF InStep, Using
<1>2. Inv5 => Inv1
  BY DEF Inv5
<1> QED BY <1>1, <1>2, SystemInv, InStepStep, PTL DEF SystemSpec

=============================================================================
