--------------------------- MODULE SessionProofs ---------------------------
(***************************************************************************)
(* Proofs about module Session, for every set of requests, targets and     *)
(* discovery replies.                                                      *)
(***************************************************************************)
EXTENDS Session, SequenceTheorems, TLAPS

\* An operation that has taken its wrapper off the list finds it connected and
\* without errors, and stays connected; iSCSIConnect's callback connects it or
\* leaves an error.  An error, or a request that is not answered, needs a context.
CallInv ==
  /\ phase = "begin" => ~error /\ (connected \/ op = "connect")
  /\ phase = "service" => connected \/ error \/ (op = "connect" /\ ~finished)
  /\ error \/ pending # None => mIscsi \/ ~alive
  /\ phase # "idle" => op \in Ops

\* The properties are inductive together with it.
Inv ==
  /\ TypeOK /\ CallInv
  /\ QuietWhenListed /\ ContextInUse /\ OnlyItsOwnAnswer /\ MessageOfTheError

\* What is left of iSCSINormalLoginWithRedirect is shorter by one call.
LEMMA TailOfTodo == todo \in Seq(Ops) /\ todo # <<>> => Tail(todo) \in Seq(Ops)
BY HeadTailProperties

LEMMA RedirectTodo == <<"disconnect", "connect", "login">> \in Seq(Ops)
BY DEF Ops, Checked

LEMMA InvInit == Init => Inv
<1> SUFFICES ASSUME Init PROVE Inv
  OBVIOUS
<1>1. \A S : <<>> \in Seq(S)
  BY EmptySeq
<1>2. TypeOK
  BY <1>1 DEF Init, TypeOK, None, NoRequest
<1> QED
  BY <1>2 DEF Init, Inv, CallInv, QuietWhenListed, ContextInUse, OnlyItsOwnAnswer,
              MessageOfTheError

\* The operations before their event loops.
LEMMA CallStep == Inv /\ Call => Inv'
<1> SUFFICES ASSUME Inv, Call PROVE Inv'
  OBVIOUS
<1> USE DEF Inv, TypeOK, CallInv, QuietWhenListed, ContextInUse, OnlyItsOwnAnswer,
            MessageOfTheError, clientVars, callVars, netVars
<1>e. <<>> \in Seq(Ops)
  BY EmptySeq
<1>1. ASSUME NEW o \in Ops \ {"connect"}, NEW r \in RequestsOf(o), Remove(o, r)
      PROVE  Inv'
  <2>1. todo' \in Seq(Ops)
    BY <1>1, <1>e, TailOfTodo DEF Remove, Begins
  <2>2. r \in Requests \cup {NoRequest}
    BY <1>1 DEF RequestsOf
  <2> QED BY <1>1, <2>1, <2>2 DEF Remove, Begins, Calls
<1>2. ASSUME NEW o \in Ops \ {"connect"}, NotListed(o) PROVE Inv'
  BY <1>2, <1>e DEF NotListed, Calls, Throws
<1>3. CASE ConnectRefused
  BY <1>3, <1>e DEF ConnectRefused, Calls, Throws
<1>4. CASE ConnectFails
  BY <1>4, <1>e DEF ConnectFails, Calls, Throws
<1>11. CASE ConnectNullContext
  BY <1>11 DEF ConnectNullContext, Calls
<1>5. CASE ConnectBegins
  <2>1. todo' \in Seq(Ops)
    BY <1>5, <1>e, TailOfTodo DEF ConnectBegins, Begins
  <2> QED BY <1>5, <2>1 DEF ConnectBegins, Begins, Calls, Ops
<1>6. CASE Refuse
  BY <1>6, <1>e DEF Refuse, Throws
<1>7. CASE Send
  <2>1. mDiscoveryPairs' \in Seq(Targets)
    BY <1>7, EmptySeq DEF Send, Prepares, ClearPairs
  <2> QED BY <1>7, <2>1 DEF Send, Prepares
<1>8. CASE SendFails
  <2>1. mDiscoveryPairs' \in Seq(Targets)
    BY <1>8, EmptySeq DEF SendFails, Prepares, ClearPairs
  <2> QED BY <1>8, <1>e, <2>1 DEF SendFails, Prepares, Throws
<1>9. CASE Disconnect
  BY <1>9 DEF Disconnect, Returns
<1>10. CASE DisconnectFails
  BY <1>10, <1>e DEF DisconnectFails, Throws
<1> QED
  BY <1>1, <1>2, <1>3, <1>4, <1>5, <1>6, <1>7, <1>8, <1>9, <1>10, <1>11 DEF Call

\* The event loop, its callbacks and what comes after it.
LEMMA LoopStep == RepliesAssumption /\ Inv /\ Loop => Inv'
<1> SUFFICES ASSUME Inv, Loop PROVE Inv'
  BY RepliesAssumption
<1> USE DEF Inv, TypeOK, CallInv, QuietWhenListed, ContextInUse, OnlyItsOwnAnswer,
            MessageOfTheError, clientVars, callVars, netVars
<1>e. <<>> \in Seq(Ops)
  BY EmptySeq
<1>n. None \notin Ops
  BY DEF None, Ops, Checked, Unchecked
<1>1. CASE PollFails
  BY <1>1, <1>e DEF PollFails, Waiting, Throws
<1>2. CASE AnsweredWell
  <2>1. mDiscoveryPairs' \in Seq(Targets) /\ reply' \in Seq(Targets)
    BY <1>2, RepliesAssumption, ConcatProperties DEF AnsweredWell
  <2> QED BY <1>2, <1>n, <2>1 DEF AnsweredWell, Waiting, GoodCallback
<1>3. CASE AnsweredBadly
  BY <1>3, <1>n DEF AnsweredBadly, Waiting, BadCallback
<1>4. CASE ServiceFails
  <2>1. /\ mIscsi /\ ~registered /\ ~error /\ ~error_message
    BY <1>4 DEF ServiceFails, Waiting
  <2>2. /\ phase' = "idle" /\ op' = None /\ request' = NoRequest /\ todo' = <<>>
        /\ outcome' = "iscsi_service" /\ mError'
        /\ UNCHANGED <<mIscsi, mRedirected, mDiscoveryPairs, executed, registered, moved,
                       reply, alive>>
    BY <1>4 DEF ServiceFails, Throws
  <2>3. CASE UNCHANGED <<clientVars, pending>>
    BY <1>e, <2>1, <2>2, <2>3
  <2>4. CASE pending # None /\ pending' = None /\ BadCallback(pending)
    <3>1. /\ {finished', error', error_message'} \subseteq BOOLEAN
          /\ UNCHANGED <<connected, logged_in>>
          /\ error_message' => error'
      BY <2>1, <2>4 DEF BadCallback
    <3> QED BY <1>e, <2>1, <2>2, <2>4, <3>1
  <2> QED BY <1>4, <2>3, <2>4 DEF ServiceFails
<1>5. CASE LoopThrows
  BY <1>5, <1>e DEF LoopThrows, Throws
<1>6. CASE Finish
  <2>1. todo' \in Seq(Ops)
    <3>1. todo' \in {<<"disconnect", "connect", "login">>, todo}
      BY <1>6 DEF Finish
    <3> QED BY <3>1, RedirectTodo
  <2>2. executed' \subseteq Requests
    <3>1. executed \subseteq Requests /\ request \in Requests \cup {NoRequest}
      OBVIOUS
    <3>2. executed' = executed \cup ({request} \ {NoRequest})
      BY <1>6 DEF Finish, SetExecuted
    <3> QED BY <3>1, <3>2
  <2>3. mRedirected' \in BOOLEAN
    BY <1>6 DEF Finish
  <2>4. /\ registered' /\ phase' = "idle" /\ op' = None /\ request' = NoRequest
        /\ outcome' = "returned"
        /\ UNCHANGED <<mIscsi, finished, error, connected, logged_in, error_message, mError,
                       mDiscoveryPairs, pending, moved, reply, alive>>
    BY <1>6 DEF Finish, Returns
  <2>5. TypeOK'
    BY <2>1, <2>2, <2>3, <2>4
  <2>6. mIscsi /\ finished /\ ~error /\ connected /\ pending = None
    BY <1>6 DEF Finish
  <2> QED BY <2>4, <2>5, <2>6
<1> QED BY <1>1, <1>2, <1>3, <1>4, <1>5, <1>6 DEF Loop

LEMMA InvStep == Inv /\ [Next]_vars => Inv'
<1> SUFFICES ASSUME Inv, [Next]_vars PROVE Inv'
  OBVIOUS
<1>1. CASE BackGroundThrows
  BY <1>1
  DEF BackGroundThrows, Inv, TypeOK, CallInv, QuietWhenListed, ContextInUse,
      OnlyItsOwnAnswer, MessageOfTheError, clientVars, callVars, netVars
<1>2. CASE AnotherFails
  BY <1>2
  DEF AnotherFails, Inv, TypeOK, CallInv, QuietWhenListed, ContextInUse,
      OnlyItsOwnAnswer, MessageOfTheError, clientVars, callVars, netVars
<1>3. CASE Destroy
  <2>1. /\ mIscsi' = FALSE /\ pending' = None /\ alive' = FALSE
        /\ phase = "idle" /\ ~registered
        /\ UNCHANGED <<finished, error, connected, logged_in, error_message, mError,
                       mRedirected, mDiscoveryPairs, executed, registered, phase, op,
                       request, todo, outcome, moved, reply>>
    BY <1>3 DEF Destroy, clientVars, callVars
  <2>2. TypeOK'
    BY <2>1 DEF Inv, TypeOK
  <2>3. QuietWhenListed' /\ ContextInUse' /\ OnlyItsOwnAnswer' /\ MessageOfTheError'
    BY <2>1
    DEF Inv, QuietWhenListed, ContextInUse, OnlyItsOwnAnswer, MessageOfTheError
  <2>4. CallInv'
    BY <2>1 DEF Inv, CallInv
  <2> QED BY <2>2, <2>3, <2>4 DEF Inv
<1>4. CASE UNCHANGED vars
  <2> USE <1>4 DEF vars, clientVars, callVars, netVars
  <2>1. TypeOK'
    BY DEF Inv, TypeOK
  <2>2. QuietWhenListed' /\ ContextInUse' /\ OnlyItsOwnAnswer' /\ MessageOfTheError'
    BY DEF Inv, QuietWhenListed, ContextInUse, OnlyItsOwnAnswer, MessageOfTheError
  <2>3. CallInv'
    BY DEF Inv, CallInv
  <2> QED BY <2>1, <2>2, <2>3 DEF Inv
<1> QED BY <1>1, <1>2, <1>3, <1>4, CallStep, LoopStep, RepliesAssumption DEF Next, Over

\* While a discovery waits, the pairs are those of no reply; once its callback has
\* run without an error they are those of the last one.
FreshInv ==
  phase = "service" /\ op = "discovery" /\ ~error =>
    mDiscoveryPairs = IF finished THEN reply ELSE <<>>

\* Only the request of the operation itself can be answered while it waits: that is
\* why the strengthening needs OnlyItsOwnAnswer.
LEMMA FreshStep == Inv /\ FreshInv /\ [Next]_vars => FreshInv'
<1> SUFFICES ASSUME Inv, FreshInv, [Next]_vars,
                    phase' = "service", op' = "discovery", ~error'
             PROVE  mDiscoveryPairs' = IF finished' THEN reply' ELSE <<>>
  BY DEF FreshInv
<1>1. CASE Call
  <2>1. CASE Send
    BY <2>1 DEF Send, Prepares, ClearPairs
  <2>2. ASSUME NEW o, NEW r PROVE ~NotListed(o) /\ ~Remove(o, r)
    BY DEF NotListed, Remove, Throws, Begins
  <2>3. ~ConnectRefused /\ ~ConnectFails /\ ~ConnectBegins
    BY DEF ConnectRefused, ConnectFails, ConnectBegins, Throws, Begins
  <2>4. ~Refuse /\ ~SendFails /\ ~Disconnect /\ ~DisconnectFails
    BY DEF Refuse, SendFails, Disconnect, DisconnectFails, Throws, Returns
  <2>5. ~ConnectNullContext
    BY DEF ConnectNullContext, Calls, callVars
  <2> QED BY <1>1, <2>1, <2>2, <2>3, <2>4, <2>5 DEF Call
<1>2. CASE Loop
  <2>1. CASE AnsweredWell
    <3>1. /\ phase = "service" /\ op = "discovery" /\ ~finished /\ ~error
      BY <2>1 DEF AnsweredWell, Waiting, GoodCallback, callVars
    <3>2. mDiscoveryPairs = <<>> /\ pending = "discovery"
      BY <3>1 DEF Inv, OnlyItsOwnAnswer, FreshInv
    <3>3. PICK l \in Replies : reply' = l /\ mDiscoveryPairs' = mDiscoveryPairs \o l
      BY <2>1, <3>2 DEF AnsweredWell
    <3>4. <<>> \o l = l
      BY RepliesAssumption, ConcatEmptySeq
    <3>5. finished'
      BY <2>1 DEF AnsweredWell, GoodCallback
    <3> QED BY <3>2, <3>3, <3>4, <3>5
  <2>2. CASE AnsweredBadly
    <3>1. phase = "service" /\ op = "discovery" /\ ~finished
      BY <2>2 DEF AnsweredBadly, Waiting, callVars
    <3>2. pending = "discovery"
      BY <3>1 DEF Inv, OnlyItsOwnAnswer
    <3> QED BY <2>2, <3>2 DEF AnsweredBadly, BadCallback
  <2>3. ~PollFails /\ ~ServiceFails /\ ~LoopThrows /\ ~Finish
    BY DEF PollFails, ServiceFails, LoopThrows, Finish, Throws, Returns
  <2> QED BY <1>2, <2>1, <2>2, <2>3 DEF Loop
<1>3. CASE BackGroundThrows \/ AnotherFails \/ Destroy
  <2>1. UNCHANGED <<phase, op, error, finished, mDiscoveryPairs, reply>>
    BY <1>3
    DEF BackGroundThrows, AnotherFails, Destroy, clientVars, callVars, netVars
  <2> QED BY <2>1 DEF FreshInv
<1>4. CASE UNCHANGED vars
  <2>1. UNCHANGED <<phase, op, error, finished, mDiscoveryPairs, reply>>
    BY <1>4 DEF vars, clientVars, callVars, netVars
  <2> QED BY <2>1 DEF FreshInv
<1> QED BY <1>1, <1>2, <1>3, <1>4 DEF Next, Over

-----------------------------------------------------------------------------
(* The theorems.                                                           *)

\* The variables keep their types.
THEOREM SessionTypes == Spec => []TypeOK
<1>1. Inv => TypeOK
  BY DEF Inv
<1> QED BY <1>1, InvInit, InvStep, PTL DEF Spec

\* Whatever failed before, a wrapper that the background task can find on its
\* list is connected, waits for no answer and has no error.
THEOREM ListedIsQuiet == Spec => []QuietWhenListed
<1>1. Inv => QuietWhenListed
  BY DEF Inv
<1> QED BY <1>1, InvInit, InvStep, PTL DEF Spec

\* An operation that has begun has a context, although not every one checks it: the
\* only null context that libiscsi is ever given is the one that iSCSIConnect could not
\* have (line 336, ConnectNullContext).
THEOREM HasContext == Spec => []ContextInUse
<1>1. Inv => ContextInUse
  BY DEF Inv
<1> QED BY <1>1, InvInit, InvStep, PTL DEF Spec

\* An operation waits for the answer to its own request, whatever an earlier one
\* that failed has left unanswered.
THEOREM OwnAnswer == Spec => []OnlyItsOwnAnswer
<1>1. Inv => OnlyItsOwnAnswer
  BY DEF Inv
<1> QED BY <1>1, InvInit, InvStep, PTL DEF Spec

\* An error message belongs to an error that is still set, and no callback is to
\* come that could replace it.
THEOREM OwnMessage == Spec => []MessageOfTheError
<1>1. Inv => MessageOfTheError
  BY DEF Inv
<1> QED BY <1>1, InvInit, InvStep, PTL DEF Spec

\* Once an operation has thrown and left a context behind, no sequence of calls
\* brings the wrapper back.
THEOREM FailedForGood == Spec => FailureIsFinal
<1>1. Inv /\ [Next]_vars => [Dead => Dead' \/ ~alive']_vars
  <2> SUFFICES ASSUME Inv, Next, Dead PROVE Dead' \/ ~alive'
    OBVIOUS
  <2>1. CASE Call
    <3>1. mIscsi /\ ~registered /\ phase = "idle"
      BY DEF Dead
    <3>2. ASSUME NEW o, NotListed(o) PROVE Dead'
      BY <3>1, <3>2 DEF NotListed, Throws, Dead
    <3>3. ASSUME NEW o, NEW r PROVE ~Remove(o, r)
      BY <3>1 DEF Remove
    <3>4. CASE ConnectRefused
      BY <3>1, <3>4 DEF ConnectRefused, Throws, Dead
    <3>5. ~ConnectFails /\ ~ConnectNullContext /\ ~ConnectBegins
      BY <3>1 DEF ConnectFails, ConnectNullContext, ConnectBegins
    <3>6. ~Refuse /\ ~Send /\ ~SendFails /\ ~Disconnect /\ ~DisconnectFails
      BY <3>1 DEF Refuse, Send, SendFails, Prepares, Disconnect, DisconnectFails
    <3> QED BY <2>1, <3>2, <3>3, <3>4, <3>5, <3>6 DEF Call
  <2>2. CASE Loop
    BY <2>2
    DEF Dead, Loop, PollFails, AnsweredWell, AnsweredBadly, ServiceFails, LoopThrows,
        Finish, Waiting
  <2>3. CASE BackGroundThrows
    BY <2>3 DEF Dead, BackGroundThrows
  <2>4. CASE Over
    BY <2>4 DEF Dead, Over, vars, callVars
  <2>5. CASE AnotherFails \/ Destroy
    BY <2>5 DEF AnotherFails, Destroy
  <2> QED BY <2>1, <2>2, <2>3, <2>4, <2>5 DEF Next
<1> QED BY <1>1, InvInit, InvStep, PTL DEF Spec, FailureIsFinal

\* A discovery that returns leaves the targets of its own reply, and none of an
\* earlier discovery's.
THEOREM FreshDiscovery == Spec => DiscoveryIsFresh
<1>1. Init => FreshInv
  BY DEF Init, FreshInv
<1>2. Inv /\ FreshInv /\ [Next]_vars
        => [Finish /\ op = "discovery" => mDiscoveryPairs = reply]_vars
  BY DEF FreshInv, Finish
<1> QED
  BY <1>1, <1>2, InvInit, InvStep, FreshStep, PTL DEF Spec, DiscoveryIsFresh
=============================================================================
