------------------------------- MODULE System -------------------------------
(***************************************************************************)
(* The library as a whole, with one foreground thread: the background task *)
(* and its list (module BackGround) together with one wrapper, Self, whose *)
(* operations are those of module Session, step for step.  What BackGround *)
(* leaves open for Self, how its operations end, is decided here by        *)
(* Session, and what Session takes for granted, whether its wrapper is     *)
(* listed and what the background thread finds, is here the list itself.   *)
(*                                                                         *)
(* The other wrappers remain as abstract as in BackGround.  With a single  *)
(* thread RemoveConnection takes off Self when it is listed and throws     *)
(* when it is not (theorem OwnErase of BackGroundProofs), so that Self has *)
(* no step OpNullContext.                                                  *)
(***************************************************************************)
EXTENDS BackGround

CONSTANTS
  Self,          \* the wrapper that is modelled in full
  Requests, Targets, Replies

ASSUME SelfAssumption == Threads = {Main} /\ Self \in Wrappers

VARIABLES
  finished, error, connected, logged_in, error_message,
  mError, mRedirected, mDiscoveryPairs, executed,
  phase, op, request, todo, outcome,
  pending, moved, reply

sessionVars ==
  <<finished, error, connected, logged_in, error_message, mError, mRedirected,
    mDiscoveryPairs, executed, phase, op, request, todo, outcome, pending, moved, reply>>

HasContext == mIscsi[Self] = "open"
Listed == Self \in Registered
Exists == alive /\ mIscsi[Self] # "gone"

S == INSTANCE Session WITH mIscsi <- HasContext, registered <- Listed, alive <- Exists

\* What module Session assumes of its constants.
ASSUME SessionAssumption == Replies \subseteq Seq(Targets) /\ S!NoRequest \notin Requests

SystemInit == Init /\ S!Init
-----------------------------------------------------------------------------
(* Steps of one of the two alone.                                          *)

\* What leaves the session alone.
Apart(A) == A /\ UNCHANGED sessionVars

\* What the session does between the steps that BackGround sees.
Within(A) == UNCHANGED vars /\ A

\* The thread is not in a method of Self, nor between two of the operations of
\* iSCSINormalLoginWithRedirect.
Elsewhere == fgConn[Main] # Self /\ todo = <<>>
-----------------------------------------------------------------------------
(* The operations of Self.                                                 *)

SelfConnect ==
  \/ Connect(Main, Self) /\ S!ConnectBegins
  \/ ConnectNullContext(Self) /\ S!ConnectNullContext
  \/ /\ fgPC[Main] = "idle" /\ exit = "no"
     /\ Within(S!ConnectRefused) \/ Within(S!ConnectFails)

Listable == S!Ops \ {"connect"}

SelfRemove ==
  \/ /\ todo # <<>> => Head(todo) \in Listable
     /\ Apart(RemoveReadSize(Main, Self))
  \/ /\ fgConn[Main] = Self
     /\ \/ RemoveErase(Main) /\ \E o \in Listable : \E r \in S!RequestsOf(o) : S!Remove(o, r)
        \/ RemoveThrow(Main) /\ \E o \in Listable : S!NotListed(o)

\* libiscsi is asked to send the request, and answers it.
SelfGoesOn ==
  /\ fgConn[Main] = Self
  /\ Within(S!Send) \/ Within(S!AnsweredWell) \/ Within(S!AnsweredBadly)

SelfThrows ==
  /\ fgConn[Main] = Self
  /\ OpThrow(Main)
  /\ \/ S!Refuse \/ S!SendFails \/ S!DisconnectFails
     \/ S!PollFails \/ S!ServiceFails \/ S!LoopThrows

SelfDisconnects == fgConn[Main] = Self /\ OpDisconnect(Main) /\ S!Disconnect

\* The event loop is over, and there is no error.
LoopOver == phase = "service" /\ finished /\ ~error

\* Mutant: AddConnection does not wait for the end of the event loop.
ReturnsAnyTime ==
  /\ fgConn[Main] = Self
  /\ \/ Apart(OpReturn(Main))
     \/ Apart(AddEnter(Main))
     \/ AddPush(Main) /\ S!Finish

\* AddConnection, at the end of which the operation returns.
SelfReturns ==
  /\ fgConn[Main] = Self
  /\ \/ LoopOver /\ Apart(OpReturn(Main))
     \/ Apart(AddEnter(Main))
     \/ AddPush(Main) /\ S!Finish

SelfOperation ==
  \/ SelfConnect \/ SelfRemove \/ SelfGoesOn \/ SelfThrows
  \/ SelfDisconnects \/ SelfReturns
-----------------------------------------------------------------------------
(* The others.                                                             *)

OtherOperation ==
  /\ Elsewhere
  /\ \/ Operation(Main) /\ fgConn'[Main] # Self
     \/ \E w \in Wrappers \ {Self} : ConnectNullContext(w)
  /\ UNCHANGED sessionVars

BackgroundStep ==
  \/ Apart(BGCheck \/ BGWait \/ BGTimeout \/ BGSpurious \/ BGLoop \/ BGServe \/ BGService)
  \/ /\ BGThrow
     /\ IF Head(mConnections) = Self THEN S!BackGroundThrows ELSE UNCHANGED sessionVars

ProgramStep ==
  /\ todo = <<>>
  /\ \/ Apart(Stopping)
     \/ \E w \in Wrappers \ {Self} : Apart(Destroy(w))
     \/ Destroy(Self) /\ S!Destroy

TargetStep == Apart(Tick \/ \E w \in Wrappers : TargetNop(w) \/ TargetClose(w))

SystemNext ==
  \/ SelfOperation \/ OtherOperation \/ BackgroundStep \/ ProgramStep \/ TargetStep
  \/ Apart(Over)

systemVars == <<vars, sessionVars>>

SystemSpec == SystemInit /\ [][SystemNext]_systemVars
-----------------------------------------------------------------------------
(* Properties.                                                             *)

\* When the background thread services Self, it finds a working connection that
\* waits for no answer, with its caller in none of its operations: no callback
\* of an operation runs in the background thread, and no error of an earlier one
\* makes ServiceISCSIEvents throw there (lines 143 and 276-283).
ServicedInPeace ==
  bgPC = "service" =>
    /\ mConnections # <<>>
    /\ Head(mConnections) = Self =>
         phase = "idle" /\ pending = S!None /\ HasContext /\ connected /\ ~error

\* The thread is in an operation of Self exactly while Session is in one, in the same
\* one, and it enters AddConnection only when the event loop is over without an error
\* (line 844).  Between the operations of iSCSINormalLoginWithRedirect it goes nowhere
\* else (lines 629-649).
InStep ==
  /\ phase # "idle" <=> Using(Main, Self)
  /\ fgConn[Main] = Self /\ fgPC[Main] = "connect" => op = "connect"
  /\ fgConn[Main] = Self /\ fgPC[Main] = "using" => op \in Listable
  /\ fgConn[Main] = Self /\ fgPC[Main] \in {"add", "push"} => LoopOver
  /\ todo # <<>> => fgConn[Main] \in {Self, NoWrapper}

\* Seen from the wrapper, the list, its mutex and its thread are what module
\* Session takes them for.
ImplementsSession == S!Spec
=============================================================================
