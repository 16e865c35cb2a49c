----------------------------- MODULE BackGround -----------------------------
(***************************************************************************)
(* The background task of src/src/iSCSI/iSCSILibWrapper.cpp: the singleton *)
(* iSCSIBackGround, its vector of connections, its mutex and condition     *)
(* variable, and the thread that answers NOP_INs on connections that no    *)
(* caller is using.                                                        *)
(*                                                                         *)
(* The foreground threads run the operations of iSCSILibWrapper.  What an  *)
(* operation does between RemoveConnection and AddConnection is the        *)
(* subject of module Session; here it is one of its outcomes: it returns,  *)
(* it throws, it disconnects, or it gives libiscsi a null context and the  *)
(* process does not survive that.                                          *)
(*                                                                         *)
(* Time is relative: due[w] is what is left of the mBGTimeout of a listed  *)
(* w, timeOut what is left of the deadline the thread sleeps until.  Both  *)
(* stay at 0 once passed, so the clock needs no bound.  They are 0, and    *)
(* fgConn and fgIndex have no value, where the program does not read them. *)
(***************************************************************************)
EXTENDS Naturals, Sequences, SequencesExt

CONSTANTS
  Threads,       \* the foreground threads
  Main,          \* the one that runs main() and the static destructors
  Wrappers,      \* the iSCSILibWrapper objects
  NoWrapper,     \* and what is none of them
  Owner,         \* Owner[w]: the only thread that calls w's methods
  Period,        \* the 15 seconds of SetTimeoutTime
  IdlePeriod,    \* the 30 seconds the thread sleeps when it has no connection
  PollForever,   \* mTimeout is -1 (the default) and not a number of mSec
  MayClose,      \* targets may drop a connection
  Careful        \* the program takes a wrapper off the list before it lets
                 \* the wrapper, or the singleton, be destroyed

ASSUME ThreadsAssumption ==
  Main \in Threads /\ NoWrapper \notin Wrappers /\ Owner \in [Wrappers -> Threads]
ASSUME PeriodAssumption == Period \in Nat \ {0} /\ IdlePeriod \in Nat \ {0}
ASSUME FlagsAssumption == {PollForever, MayClose, Careful} \subseteq BOOLEAN

VARIABLES
  mConnections,  \* the vector of connections, in order
  mStop,
  mWorkMutex,    \* who holds it: a thread, BG or Free
  bgPC,          \* where the background thread is; "none" if not joinable
  timeOut,       \* its local deadline
  due,           \* mBGTimeout of each wrapper
  fgPC,          \* where each foreground thread is
  fgConn,        \* the wrapper whose method it runs
  fgIndex,       \* its local "index" in RemoveConnection
  mIscsi,        \* the libiscsi context of each wrapper
  inbound,       \* what the target has sent on an idle connection
  alive,         \* the process has not been terminated
  exit           \* progress of the static destructor ~iSCSIBackGround

bgVars == <<bgPC, timeOut>>
fgVars == <<fgPC, fgConn, fgIndex>>
envVars == <<inbound, alive, exit>>
vars == <<mConnections, mStop, mWorkMutex, bgVars, due, fgVars, mIscsi, envVars>>

BG == "background"
Free == "free"

ASSUME HolderAssumption == BG \notin Threads /\ Free \notin Threads

Registered == ToSet(mConnections)

joinable == bgPC # "none"      \* mThread.joinable()

\* Where a thread that runs a wrapper's method may be.
InMethod == {"connect", "remove", "using", "add", "push"}

TypeOK ==
  /\ mConnections \in Seq(Wrappers)
  /\ mStop \in BOOLEAN
  /\ mWorkMutex \in Threads \cup {BG, Free}
  /\ bgPC \in {"none", "check", "enter", "wait", "signalled", "timedout", "service",
              "done"}
  /\ timeOut \in Nat
  /\ due \in [Wrappers -> Nat]
  /\ fgPC \in [Threads -> InMethod \cup {"idle", "stop", "join"}]
  /\ fgConn \in [Threads -> Wrappers \cup {NoWrapper}]
  /\ \A t \in Threads : fgConn[t] \in Wrappers <=> fgPC[t] \in InMethod
  /\ fgIndex \in [Threads -> Nat]
  /\ mIscsi \in [Wrappers -> {"null", "open", "gone"}]
  /\ inbound \in [Wrappers -> {"quiet", "nop", "closed"}]
  /\ alive \in BOOLEAN
  /\ exit \in {"no", "stopping", "done"}

(* The singleton's constructor leaves mStop uninitialised; nothing reads it *)
(* before StartBackGroundTask writes it, so FALSE stands for either value.  *)
Init ==
  /\ mConnections = <<>>
  /\ mStop = FALSE
  /\ mWorkMutex = Free
  /\ bgPC = "none"
  /\ timeOut = 0
  /\ due = [w \in Wrappers |-> 0]
  /\ fgPC = [t \in Threads |-> "idle"]
  /\ fgConn = [t \in Threads |-> NoWrapper]
  /\ fgIndex = [t \in Threads |-> 0]
  /\ mIscsi = [w \in Wrappers |-> "null"]
  /\ inbound = [w \in Wrappers |-> "quiet"]
  /\ alive = TRUE
  /\ exit = "no"

-----------------------------------------------------------------------------
(* Helpers.                                                                *)

\* Mutant: nobody is notified.
NotifyNobody == UNCHANGED <<bgPC, timeOut>>

\* mWorkCond.notify_one(): only the background thread ever waits, so the
\* notification is lost unless it is in timed_wait.
NotifyOne ==
  IF bgPC = "wait" THEN bgPC' = "signalled" /\ timeOut' = 0
                   ELSE UNCHANGED <<bgPC, timeOut>>

\* SetTimeoutTime()
SetTimeoutTime(w) == due' = [due EXCEPT ![w] = Period]

\* What t's unlocked mConnections.size() may return: the size, or more when
\* it races with a push_back or a rotation done under the mutex.
SizeSeen == {Len(mConnections)}
              \cup (IF mWorkMutex = Free THEN {} ELSE {Len(mConnections) + 1})

\* Mutant: a connection that is not found is the last one.
EraseAtLast(t) ==
  {i \in DOMAIN mConnections :
     IF fgConn[t] \in Registered THEN mConnections[i] = fgConn[t] ELSE i = fgIndex[t]}

\* The position t erases: its connection's, else what it took for the size.
EraseAt(t) ==
  {i \in DOMAIN mConnections :
     IF fgConn[t] \in Registered
       THEN mConnections[i] = fgConn[t] /\ \A j \in 1..(i-1) : mConnections[j] # fgConn[t]
       ELSE i = fgIndex[t] + 1}

Goes(t, to) == fgPC' = [fgPC EXCEPT ![t] = to]

\* Thread t calls a method of its wrapper w.
Calls(t, w, to) ==
  /\ fgPC[t] = "idle" /\ exit = "no"
  /\ Owner[w] = t
  /\ Goes(t, to)
  /\ fgConn' = [fgConn EXCEPT ![t] = w]

\* Its method returns or throws.
Leaves(t) ==
  /\ Goes(t, "idle")
  /\ fgConn' = [fgConn EXCEPT ![t] = NoWrapper]

\* t is inside a method of w and has w to itself.
Using(t, w) == fgConn[t] = w /\ fgPC[t] \in {"connect", "using", "add", "push"}

InUse(w) == Using(Owner[w], w)

-----------------------------------------------------------------------------
(* BackGroundThread.                                                       *)

\* while (!mStop), read without the mutex.
BGCheck ==
  /\ alive
  /\ bgPC = "check"
  /\ bgPC' = IF mStop THEN "done" ELSE "enter"
  /\ UNCHANGED <<mConnections, mStop, mWorkMutex, timeOut, due, fgVars, mIscsi, envVars>>

\* Mutant: one unit early.
DeadlineEarly == IF mConnections = <<>> THEN IdlePeriod ELSE due[Head(mConnections)] - 1

Deadline == IF mConnections = <<>> THEN IdlePeriod ELSE due[Head(mConnections)]

\* Takes the mutex, works out the deadline, and lets go of it in timed_wait.
BGWait ==
  /\ alive
  /\ bgPC = "enter" /\ mWorkMutex = Free
  /\ timeOut' = Deadline
  /\ bgPC' = "wait"
  /\ UNCHANGED <<mConnections, mStop, mWorkMutex, due, fgVars, mIscsi, envVars>>

BGTimeout ==
  /\ alive
  /\ bgPC = "wait" /\ timeOut = 0
  /\ bgPC' = "timedout"
  /\ UNCHANGED <<mConnections, mStop, mWorkMutex, timeOut, due, fgVars, mIscsi, envVars>>

\* timed_wait may also end as if it had been notified.
BGSpurious ==
  /\ alive
  /\ bgPC = "wait"
  /\ bgPC' = "signalled" /\ timeOut' = 0
  /\ UNCHANGED <<mConnections, mStop, mWorkMutex, due, fgVars, mIscsi, envVars>>

\* The test of mStop at the bottom of the loop, then back to the one at its top.
LoopAgain == bgPC' = IF mStop THEN "done" ELSE "check"

\* timed_wait returns once the mutex is its again; nothing is left to do.
BGLoop ==
  /\ alive
  /\ bgPC = "signalled" \/ (bgPC = "timedout" /\ mConnections = <<>>)
  /\ mWorkMutex = Free
  /\ LoopAgain
  /\ UNCHANGED <<mConnections, mStop, mWorkMutex, timeOut, due, fgVars, mIscsi, envVars>>

\* Mutant: the mutex is let go of while poll waits.
BGServeUnlocked ==
  /\ alive
  /\ bgPC = "timedout" /\ mConnections # <<>>
  /\ mWorkMutex = Free
  /\ bgPC' = "service"
  /\ UNCHANGED <<mConnections, mStop, mWorkMutex, timeOut, due, fgVars, mIscsi, envVars>>

\* The same after a timeout, with connections on the list.
BGServe ==
  /\ alive
  /\ bgPC = "timedout" /\ mConnections # <<>>
  /\ mWorkMutex = Free
  /\ bgPC' = "service" /\ mWorkMutex' = BG
  /\ UNCHANGED <<mConnections, mStop, timeOut, due, fgVars, mIscsi, envVars>>

\* Mutants: the head is not moved, is not erased, is not pushed back.
NotMoved == mConnections
NotErased == Append(mConnections, Head(mConnections))
NotPushedBack == Tail(mConnections)

\* The head goes last.
Rotated == Append(Tail(mConnections), Head(mConnections))

\* Mutant: the event loop goes on, with the mutex held.
NotOneShot == mWorkMutex' = BG /\ bgPC' = "service"

EndOfTurn == mWorkMutex' = Free /\ LoopAgain

\* ServiceISCSIEvents(true) reads the head's NOP_IN.
BGService ==
  /\ alive
  /\ bgPC = "service" /\ mIscsi[Head(mConnections)] # "gone"
  /\ inbound[Head(mConnections)] = "nop"
  /\ inbound' = [inbound EXCEPT ![Head(mConnections)] = "quiet"]
  /\ SetTimeoutTime(Head(mConnections))
  /\ mConnections' = Rotated
  /\ EndOfTurn
  /\ UNCHANGED <<mStop, timeOut, fgVars, mIscsi, alive, exit>>

\* poll or iscsi_service fails: the exception leaves BackGroundThread, and
\* that ends the process.  With PollForever and a quiet target neither this
\* nor BGService is possible: poll blocks, and the mutex stays held.
BGThrow ==
  /\ alive
  /\ bgPC = "service"
  /\ \/ inbound[Head(mConnections)] = "closed"
     \/ (inbound[Head(mConnections)] = "quiet" /\ ~PollForever)
     \/ mIscsi[Head(mConnections)] = "gone"     \* a destroyed object is used
  /\ alive' = FALSE
  /\ UNCHANGED <<mConnections, mStop, mWorkMutex, bgVars, due, fgVars, mIscsi,
                 inbound, exit>>

-----------------------------------------------------------------------------
(* The methods of iSCSILibWrapper, as the list and the mutex see them.     *)

\* iSCSIConnect up to its event loop.  It throws at once, and changes nothing here, if
\* there is a context already or none to be had.
Connect(t, w) ==
  /\ alive
  /\ Calls(t, w, "connect")
  /\ mIscsi[w] = "null"
  /\ mIscsi' = [mIscsi EXCEPT ![w] = "open"]
  /\ UNCHANGED <<mConnections, mStop, mWorkMutex, bgVars, due, fgIndex, envVars>>

\* There was none to be had, and the process does not survive the NULL that is then
\* given to iscsi_get_error.
ConnectNullContext(w) ==
  /\ alive
  /\ fgPC[Owner[w]] = "idle" /\ exit = "no"
  /\ mIscsi[w] = "null"
  /\ alive' = FALSE
  /\ UNCHANGED <<mConnections, mStop, mWorkMutex, bgVars, due, fgVars, mIscsi, inbound,
                 exit>>

\* Every other operation starts with RemoveConnection, and that with an
\* unlocked read of the size.
RemoveReadSize(t, w) ==
  /\ alive
  /\ Calls(t, w, "remove")
  /\ mIscsi[w] # "gone"
  /\ \E n \in SizeSeen : fgIndex' = [fgIndex EXCEPT ![t] = n]
  /\ UNCHANGED <<mConnections, mStop, mWorkMutex, bgVars, due, mIscsi, envVars>>

RemoveErase(t) ==
  /\ alive
  /\ fgPC[t] = "remove" /\ mWorkMutex = Free
  /\ \E i \in EraseAt(t) :
       /\ mConnections' = RemoveAt(mConnections, i)
       /\ due' = [due EXCEPT ![mConnections[i]] = 0]
  /\ NotifyOne
  /\ Goes(t, "using")
  /\ fgIndex' = [fgIndex EXCEPT ![t] = 0]
  /\ UNCHANGED <<mStop, mWorkMutex, fgConn, mIscsi, envVars>>

RemoveThrow(t) ==
  /\ alive
  /\ fgPC[t] = "remove" /\ mWorkMutex = Free
  /\ EraseAt(t) = {}
  /\ Leaves(t)
  /\ fgIndex' = [fgIndex EXCEPT ![t] = 0]
  /\ UNCHANGED <<mConnections, mStop, mWorkMutex, bgVars, due, mIscsi, envVars>>

\* The operation's event loop ends well, having read what the target sent.
OpReturn(t) ==
  /\ alive
  /\ fgPC[t] \in {"connect", "using"}
  /\ mIscsi[fgConn[t]] = "open"
  /\ inbound' = [inbound EXCEPT ![fgConn[t]] = IF @ = "closed" THEN @ ELSE "quiet"]
  /\ Goes(t, "add")
  /\ UNCHANGED <<mConnections, mStop, mWorkMutex, bgVars, due, fgConn, fgIndex, mIscsi,
                 alive, exit>>

\* It throws: the wrapper keeps its context but is on nobody's list.
OpThrow(t) ==
  /\ alive
  /\ fgPC[t] \in {"connect", "using"}
  /\ Leaves(t)
  /\ UNCHANGED <<mConnections, mStop, mWorkMutex, bgVars, due, fgIndex, mIscsi, envVars>>

\* It was iSCSIDisconnect.
OpDisconnect(t) ==
  /\ alive
  /\ fgPC[t] = "using" /\ mIscsi[fgConn[t]] = "open"
  /\ mIscsi' = [mIscsi EXCEPT ![fgConn[t]] = "null"]
  /\ inbound' = [inbound EXCEPT ![fgConn[t]] = "quiet"]
  /\ Leaves(t)
  /\ UNCHANGED <<mConnections, mStop, mWorkMutex, bgVars, due, fgIndex, alive, exit>>

\* It was iSCSIPerformDiscovery or iSCSIDiscoveryLogout, which do not look at
\* mClient.connected, after RemoveConnection erased another's connection.
OpNullContext(t) ==
  /\ alive
  /\ fgPC[t] = "using" /\ mIscsi[fgConn[t]] = "null"
  /\ alive' = FALSE
  /\ UNCHANGED <<mConnections, mStop, mWorkMutex, bgVars, due, fgVars, mIscsi, inbound,
                 exit>>

\* Mutant: mStop is still what ended the last thread.
StartStopped == UNCHANGED mStop /\ bgPC' = "check"

StartBackGroundTask == mStop' = FALSE /\ bgPC' = "check"

\* AddConnection: takes the mutex, starts the thread if there is none.
AddEnter(t) ==
  /\ alive
  /\ fgPC[t] = "add" /\ mWorkMutex = Free
  /\ mWorkMutex' = t
  /\ IF joinable THEN UNCHANGED <<mStop, bgPC>> ELSE StartBackGroundTask
  /\ Goes(t, "push")
  /\ UNCHANGED <<mConnections, timeOut, due, fgConn, fgIndex, mIscsi, envVars>>

AddPush(t) ==
  /\ alive
  /\ fgPC[t] = "push"
  /\ SetTimeoutTime(fgConn[t])
  /\ mConnections' = Append(mConnections, fgConn[t])
  /\ NotifyOne
  /\ mWorkMutex' = Free
  /\ Leaves(t)
  /\ UNCHANGED <<mStop, fgIndex, mIscsi, envVars>>

\* ~iSCSILibWrapper tells neither the list nor the background thread.
Destroy(w) ==
  /\ alive
  /\ fgPC[Owner[w]] = "idle" /\ exit = "no"
  /\ mIscsi[w] # "gone"
  /\ Careful => w \notin Registered
  /\ mIscsi' = [mIscsi EXCEPT ![w] = "gone"]
  /\ inbound' = [inbound EXCEPT ![w] = "quiet"]
  /\ UNCHANGED <<mConnections, mStop, mWorkMutex, bgVars, due, fgVars, alive, exit>>

-----------------------------------------------------------------------------
(* StopBackGroundTask, called by main() or by ~iSCSIBackGround.            *)

\* The unlocked test of the first line.
MayStop == joinable /\ mConnections = <<>>

StopCheck ==
  /\ alive
  /\ fgPC[Main] = "idle" /\ exit = "no"
  /\ MayStop
  /\ Goes(Main, "stop")
  /\ UNCHANGED <<mConnections, mStop, mWorkMutex, bgVars, due, fgConn, fgIndex, mIscsi,
                 envVars>>

\* The program ends and the singleton is destroyed.
Exit ==
  /\ alive
  /\ \A t \in Threads : fgPC[t] = "idle"
  /\ exit = "no"
  /\ Careful => mConnections = <<>>
  /\ IF MayStop THEN exit' = "stopping" /\ Goes(Main, "stop")
                ELSE exit' = "done" /\ UNCHANGED fgPC
  /\ UNCHANGED <<mConnections, mStop, mWorkMutex, bgVars, due, fgConn, fgIndex, mIscsi,
                 inbound, alive>>

\* Mutant: the thread is notified and mStop is left alone.
StopSignalOnly ==
  /\ alive
  /\ fgPC[Main] = "stop" /\ mWorkMutex = Free
  /\ NotifyOne
  /\ Goes(Main, "join")
  /\ UNCHANGED <<mConnections, mStop, mWorkMutex, due, fgConn, fgIndex, mIscsi, envVars>>

StopSignal ==
  /\ alive
  /\ fgPC[Main] = "stop" /\ mWorkMutex = Free
  /\ mStop' = TRUE
  /\ NotifyOne
  /\ Goes(Main, "join")
  /\ UNCHANGED <<mConnections, mWorkMutex, due, fgConn, fgIndex, mIscsi, envVars>>

StopJoin ==
  /\ alive
  /\ fgPC[Main] = "join" /\ bgPC = "done"
  /\ bgPC' = "none"
  /\ Goes(Main, "idle")
  /\ exit' = IF exit = "stopping" THEN "done" ELSE exit
  /\ UNCHANGED <<mConnections, mStop, mWorkMutex, timeOut, due, fgConn, fgIndex,
                 mIscsi, inbound, alive>>

-----------------------------------------------------------------------------
(* The clock and the targets.                                              *)

Less(n) == IF n = 0 THEN 0 ELSE n - 1

Tick ==
  /\ alive
  /\ timeOut > 0 \/ \E w \in Wrappers : due[w] > 0
  /\ timeOut' = Less(timeOut)
  /\ due' = [w \in Wrappers |-> Less(due[w])]
  /\ UNCHANGED <<mConnections, mStop, mWorkMutex, bgPC, fgVars, mIscsi, envVars>>

\* The target of an open connection sends a NOP_IN, or closes it.
TargetNop(w) ==
  /\ alive
  /\ mIscsi[w] = "open" /\ inbound[w] = "quiet"
  /\ inbound' = [inbound EXCEPT ![w] = "nop"]
  /\ UNCHANGED <<mConnections, mStop, mWorkMutex, bgVars, due, fgVars, mIscsi, alive,
                 exit>>

TargetClose(w) ==
  /\ alive
  /\ MayClose
  /\ mIscsi[w] = "open" /\ inbound[w] # "closed"
  /\ inbound' = [inbound EXCEPT ![w] = "closed"]
  /\ UNCHANGED <<mConnections, mStop, mWorkMutex, bgVars, due, fgVars, mIscsi, alive,
                 exit>>

-----------------------------------------------------------------------------
Background ==
  \/ BGCheck \/ BGWait \/ BGTimeout \/ BGSpurious \/ BGLoop \/ BGServe
  \/ BGService \/ BGThrow

Operation(t) ==
  \/ \E w \in Wrappers : Connect(t, w) \/ RemoveReadSize(t, w)
  \/ RemoveErase(t) \/ RemoveThrow(t)
  \/ OpReturn(t) \/ OpThrow(t) \/ OpDisconnect(t) \/ OpNullContext(t)
  \/ AddEnter(t) \/ AddPush(t)

Stopping == StopCheck \/ Exit \/ StopSignal \/ StopJoin

Environment == Tick \/ \E w \in Wrappers : Destroy(w) \/ TargetNop(w) \/ TargetClose(w)

\* A process that is over does nothing more.
Over == (~alive \/ exit = "done") /\ UNCHANGED vars

Next ==
  \/ Background
  \/ \E t \in Threads : Operation(t)
  \/ \E w \in Wrappers : ConnectNullContext(w)
  \/ Stopping
  \/ Environment
  \/ Over

Spec == Init /\ [][Next]_vars
-----------------------------------------------------------------------------
(* Fairness: every thread that can run does, and the mutex starves nobody. *)

BGFairness ==
  /\ WF_vars(BGCheck) /\ WF_vars(BGService)
  /\ SF_vars(BGWait) /\ SF_vars(BGLoop) /\ SF_vars(BGServe)
  /\ SF_vars(BGTimeout)

FGFairness ==
  /\ \A t \in Threads :
       /\ SF_vars(RemoveErase(t)) /\ SF_vars(RemoveThrow(t))
       /\ SF_vars(AddEnter(t)) /\ WF_vars(AddPush(t))
  /\ SF_vars(StopSignal) /\ WF_vars(StopJoin)

FairSpec == Spec /\ BGFairness /\ FGFairness /\ WF_vars(Tick)

\* What the code cannot make sure of: that every target keeps sending NOP_INs.
Traffic == \A w \in Wrappers : WF_vars(TargetNop(w))

FairTrafficSpec == FairSpec /\ Traffic

-----------------------------------------------------------------------------
(* Safety.                                                                 *)

\* While the background task services a connection, no caller is using it
\* ("We will never get in the way of a real request response", line 143).
NeverInTheWay ==
  bgPC = "service" => mConnections # <<>> /\ ~InUse(Head(mConnections))

\* A connection is on the list once at most, and never while in use: every
\* operation takes it off first and puts it back last.
OffTheListInUse ==
  /\ \A i, j \in DOMAIN mConnections : mConnections[i] = mConnections[j] => i = j
  /\ \A w \in Wrappers : InUse(w) => w \notin Registered

\* The list is sorted by deadline, so that its head's is the first: AddConnection
\* and the rotation put a connection last just after SetTimeoutTime.
SortedByDeadline ==
  \A i, j \in DOMAIN mConnections :
    i < j => due[mConnections[i]] <= due[mConnections[j]]

\* The background task never sleeps past the deadline of a listed connection:
\* each change of the list that could make its deadline late wakes it.
NeverOversleeps ==
  bgPC = "wait" => \A w \in Registered : timeOut <= due[w]

\* A listed connection has a background thread that is not on its way out.
ListIsServed ==
  mConnections # <<>> => joinable /\ ~mStop /\ bgPC \notin {"none", "done"}

\* RemoveConnection erases no connection but the caller's own.
ErasesOnlyItsOwn ==
  [][\A t \in Threads : RemoveErase(t) => Registered \ Registered' \subseteq {fgConn[t]}]_vars

\* A deadline that passes with nothing to read does no harm ("check to see if
\* there are any incoming data on the connection and if so, process it", 140).
QuietIsHarmless ==
  [][alive /\ ~alive' => bgPC # "service" \/ inbound[Head(mConnections)] # "quiet"]_vars

\* The process of a program with one thread ends by itself in these ways only: iSCSIConnect
\* cannot create a context (line 336); the background thread (line 180) is thrown an
\* exception for a connection that its target has closed or, with a finite mTimeout, that
\* has nothing to read; or it follows a pointer to a listed wrapper that the program
\* destroyed, if it is a program that does so.  No operation that RemoveConnection has let
\* go on finds its wrapper without a context, though two of them do not look (lines 474 and
\* 531), and BackGroundThread finds the wrappers of a careful program alive.
EndsAreKnown ==
  [][alive /\ ~alive' =>
       \/ \E w \in Wrappers : ConnectNullContext(w)
       \/ /\ BGThrow
          /\ \/ inbound[Head(mConnections)] = "closed"
             \/ inbound[Head(mConnections)] = "quiet" /\ ~PollForever
             \/ mIscsi[Head(mConnections)] = "gone" /\ ~Careful]_vars

-----------------------------------------------------------------------------
(* Liveness.                                                               *)

\* A listed connection's turn comes: it is serviced, or taken off the list.
EveryoneServiced ==
  \A w \in Wrappers :
    w \in Registered ~>
      \/ w \notin Registered \/ ~alive
      \/ bgPC = "service" /\ Head(mConnections) = w

\* A caller gets its connection back from the background task.
CallerProceeds ==
  \A t \in Threads : fgPC[t] = "remove" ~> fgPC[t] # "remove" \/ ~alive

\* StopBackGroundTask returns, even when its notification is lost because the
\* thread has just found mStop false: timed_wait always ends.
StopReturns == fgPC[Main] \in {"stop", "join"} ~> fgPC[Main] = "idle" \/ ~alive

-----------------------------------------------------------------------------
(* The handoff this implements, where each wrapper is used by one thread.  *)

\* A wrapper that is neither in use nor listed may be connected again only if
\* it has no context.
HolderOf(w) ==
  IF InUse(w) THEN "caller"
  ELSE IF w \notin Registered THEN IF mIscsi[w] = "null" THEN "none" ELSE "lost"
  ELSE IF bgPC = "service" /\ Head(mConnections) = w THEN "thread" ELSE "list"

holder == [w \in Wrappers |-> HolderOf(w)]

Abstract == INSTANCE Handoff WITH Wrappers <- Wrappers, holder <- holder

\* Connections change hands as the comments promise, and a lost one stays lost.
ImplementsHandoff == Abstract!HandoffSpec

\* The background task lets go of each connection that it has taken, as long as the
\* process is there.
LetsGoOfHandoff == []alive => Abstract!LetsGo
=============================================================================
