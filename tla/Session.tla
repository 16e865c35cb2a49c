------------------------------ MODULE Session ------------------------------
(***************************************************************************)
(* One iSCSILibWrapper (src/src/iSCSI/iSCSILibWrapper.cpp): its operations *)
(* with all their failures, the callbacks that libiscsi runs inside the    *)
(* event loop ServiceISCSIEvents, and the state they share through         *)
(* mClient.  The background task is here what the wrapper sees of it:      *)
(* whether the wrapper is on its list (module BackGround is about the list *)
(* itself), and that it may fail while servicing it or another wrapper.    *)
(*                                                                         *)
(* An operation goes through "begin" (it has taken the wrapper off the     *)
(* list, or has created its context), "service" (its event loop) and back  *)
(* to "idle".  libiscsi may fail any request, answer it well or badly, or  *)
(* never answer; and the process does not survive every use of a null      *)
(* context (ConnectNullContext).                                           *)
(***************************************************************************)
EXTENDS Naturals, Sequences

CONSTANTS
  Requests,      \* the SCSIRequest objects; each has its task from its constructor
  Targets,       \* the targets that a discovery may report
  Replies        \* the lists of them that it may be answered with

ASSUME RepliesAssumption == Replies \subseteq Seq(Targets)

VARIABLES
  mIscsi,            \* the context exists
  finished, error, connected, logged_in,     \* fields of mClient
  error_message,     \* mClient.error_message is not NULL
  mError,
  mRedirected,
  mDiscoveryPairs,
  executed,          \* the requests whose mExecuted is set
  registered,        \* the wrapper is on the background task's list
  phase,             \* where the caller is
  op, request,       \* the operation, and its request if it is iSCSIExecSCSISync
  todo,              \* what is left of iSCSINormalLoginWithRedirect
  outcome,           \* how the last operation ended
  pending,           \* the operation whose request libiscsi has not answered
  moved,             \* a normal login failed with "Target moved temporarily(257)"
  reply,             \* the last discovery reply of the target
  alive              \* the wrapper exists, in a process that has not been terminated

clientVars == <<finished, error, connected, logged_in, error_message>>
callVars == <<phase, op, request, todo, outcome>>
netVars == <<pending, moved, reply>>
vars == <<mIscsi, clientVars, mError, mRedirected, mDiscoveryPairs, executed,
          registered, callVars, netVars, alive>>

\* Operations that throw unless connected and free of errors, and the others.
Checked == {"discoveryLogin", "login", "loginRedirect", "logout", "exec", "lunReset"}
Unchecked == {"discovery", "discoveryLogout"}
NormalLogins == {"login", "loginRedirect"}
Logins == NormalLogins \cup {"discoveryLogin"}
Ops == Checked \cup Unchecked \cup {"connect", "disconnect"}

None == "none"
NoRequest == "no request"

ASSUME NoRequestAssumption == NoRequest \notin Requests

TypeOK ==
  /\ {mIscsi, finished, error, connected, logged_in, error_message} \subseteq BOOLEAN
  /\ {mError, mRedirected, registered, moved, alive} \subseteq BOOLEAN
  /\ mDiscoveryPairs \in Seq(Targets) /\ reply \in Seq(Targets)
  /\ executed \subseteq Requests
  /\ phase \in {"idle", "begin", "service"}
  /\ op \in Ops \cup {None}
  /\ request \in Requests \cup {NoRequest}
  /\ todo \in Seq(Ops)
  /\ outcome \in {None, "returned", "not listed", "already connected", "previous error",
                  "already executed", "not sent", "poll", "iscsi_service", "bad status"}
  /\ pending \in Ops \cup {None}

Init ==
  /\ mIscsi = FALSE
  /\ finished = FALSE /\ error = FALSE /\ connected = FALSE /\ logged_in = FALSE
  /\ error_message = FALSE
  /\ mError = FALSE /\ mRedirected = FALSE
  /\ mDiscoveryPairs = <<>>
  /\ executed = {}
  /\ registered = FALSE
  /\ phase = "idle" /\ op = None /\ request = NoRequest /\ todo = <<>> /\ outcome = None
  /\ pending = None /\ moved = FALSE /\ reply = <<>>
  /\ alive = TRUE

-----------------------------------------------------------------------------
(* How an operation is called and how it ends.                             *)

\* The caller calls o, or iSCSINormalLoginWithRedirect goes on to it.
Calls(o) ==
  /\ alive /\ phase = "idle"
  /\ todo # <<>> => o = Head(todo)

Begins(o, r, where) ==
  /\ phase' = where /\ op' = o /\ request' = r
  /\ todo' = IF todo = <<>> THEN <<>> ELSE Tail(todo)
  /\ UNCHANGED outcome

\* The operation throws, and so does the one that called it.
Throws(why) ==
  /\ phase' = "idle" /\ op' = None /\ request' = NoRequest
  /\ todo' = <<>>
  /\ outcome' = why

Returns ==
  /\ phase' = "idle" /\ op' = None /\ request' = NoRequest
  /\ outcome' = "returned"

\* RemoveConnection finds the wrapper, or throws.
Remove(o, r) ==
  /\ Calls(o)
  /\ registered /\ registered' = FALSE
  /\ Begins(o, r, "begin")
  /\ UNCHANGED <<mIscsi, clientVars, mError, mRedirected, mDiscoveryPairs, executed,
                 netVars, alive>>

\* Mutant: RemoveConnection does not throw.
NotListedGoesOn(o) ==
  /\ Calls(o)
  /\ ~registered
  /\ \E r \in IF o = "exec" THEN Requests ELSE {NoRequest} : Begins(o, r, "begin")
  /\ UNCHANGED <<mIscsi, clientVars, mError, mRedirected, mDiscoveryPairs, executed,
                 registered, netVars, alive>>

NotListed(o) ==
  /\ Calls(o)
  /\ ~registered
  /\ Throws("not listed")
  /\ UNCHANGED <<mIscsi, clientVars, mError, mRedirected, mDiscoveryPairs, executed,
                 registered, netVars, alive>>

-----------------------------------------------------------------------------
(* iSCSIConnect up to its event loop.                                      *)

ConnectRefused ==
  /\ Calls("connect") /\ mIscsi
  /\ mError' = TRUE
  /\ Throws("already connected")
  /\ UNCHANGED <<mIscsi, clientVars, mRedirected, mDiscoveryPairs, executed, registered,
                 netVars, alive>>

\* There is no context to be had.  The message about it is put together with
\* iscsi_get_error(mIscsi), and mIscsi is NULL: either that comes to something and
\* the message is thrown ...
ConnectFails ==
  /\ Calls("connect") /\ ~mIscsi
  /\ mError' = TRUE
  /\ Throws("not sent")
  /\ UNCHANGED <<mIscsi, clientVars, mRedirected, mDiscoveryPairs, executed, registered,
                 netVars, alive>>

\* ... or the process ends there.
ConnectNullContext ==
  /\ Calls("connect") /\ ~mIscsi
  /\ mError' = TRUE
  /\ alive' = FALSE
  /\ UNCHANGED <<mIscsi, clientVars, mRedirected, mDiscoveryPairs, executed, registered,
                 callVars, netVars>>

\* The context is kept even if what comes next fails.
ConnectBegins ==
  /\ Calls("connect") /\ ~mIscsi
  /\ mIscsi' = TRUE
  /\ Begins("connect", NoRequest, "begin")
  /\ UNCHANGED <<clientVars, mError, mRedirected, mDiscoveryPairs, executed, registered,
                 netVars, alive>>
-----------------------------------------------------------------------------
(* Every operation up to its event loop.                                   *)

MayRun ==
  /\ op \in Checked => connected /\ ~error
  /\ request \notin executed

Refuse ==
  /\ alive /\ phase = "begin"
  /\ ~MayRun
  /\ mError' = TRUE
  /\ Throws(IF connected /\ ~error THEN "already executed" ELSE "previous error")
  /\ UNCHANGED <<mIscsi, clientVars, mRedirected, mDiscoveryPairs, executed, registered,
                 netVars, alive>>

\* Mutant: the pairs of an earlier discovery are kept.
KeepPairs == UNCHANGED mDiscoveryPairs

ClearPairs == mDiscoveryPairs' = IF op = "discovery" THEN <<>> ELSE mDiscoveryPairs

\* What is done just before libiscsi is asked to send the request.
Prepares ==
  /\ alive /\ phase = "begin" /\ op # "disconnect"
  /\ MayRun
  /\ ClearPairs

Send ==
  /\ Prepares
  /\ finished' = FALSE
  /\ pending' = op
  /\ phase' = "service"
  /\ UNCHANGED <<mIscsi, error, connected, logged_in, error_message, mError, mRedirected,
                 executed, registered, op, request, todo, outcome, moved, reply, alive>>

\* iSCSIConnect may fail to set its alias, before it resets mClient.finished.
SendFails ==
  /\ Prepares
  /\ finished' \in IF op = "connect" THEN {finished, FALSE} ELSE {FALSE}
  /\ mError' = TRUE
  /\ Throws("not sent")
  /\ UNCHANGED <<mIscsi, error, connected, logged_in, error_message, mRedirected,
                 executed, registered, netVars, alive>>

\* Mutant: the pairs go with the context.
DisconnectForgets ==
  /\ alive /\ phase = "begin" /\ op = "disconnect"
  /\ mIscsi /\ mIscsi' = FALSE
  /\ finished' = FALSE /\ connected' = FALSE /\ error' = FALSE
  /\ pending' = None /\ mDiscoveryPairs' = <<>>
  /\ Returns
  /\ UNCHANGED <<logged_in, error_message, mError, mRedirected, executed, registered,
                 todo, moved, reply, alive>>

\* iSCSIDisconnect sends nothing.  It does not add the wrapper to the list.
Disconnect ==
  /\ alive /\ phase = "begin" /\ op = "disconnect"
  /\ mIscsi /\ mIscsi' = FALSE
  /\ finished' = FALSE /\ connected' = FALSE /\ error' = FALSE
  /\ pending' = None
  /\ Returns
  /\ UNCHANGED <<logged_in, error_message, mError, mRedirected, mDiscoveryPairs,
                 executed, registered, todo, moved, reply, alive>>

DisconnectFails ==
  /\ alive /\ phase = "begin" /\ op = "disconnect"
  /\ connected \/ ~mIscsi
  /\ mError' = TRUE
  /\ Throws("not sent")
  /\ UNCHANGED <<mIscsi, clientVars, mRedirected, mDiscoveryPairs, executed, registered,
                 netVars, alive>>

-----------------------------------------------------------------------------
(* ServiceISCSIEvents and the callbacks libiscsi runs from it.             *)

\* The loop goes on while this holds.
Waiting == alive /\ phase = "service" /\ ~finished /\ ~error

PollFails ==
  /\ Waiting
  /\ mError' = TRUE
  /\ Throws("poll")
  /\ UNCHANGED <<mIscsi, clientVars, mRedirected, mDiscoveryPairs, executed, registered,
                 netVars, alive>>

\* Mutant: discovery_cb ends before it sets finished.
GoodCallbackUnfinished(o) ==
  /\ finished' = (finished \/ o # "discovery")
  /\ connected' = (connected \/ o = "connect")
  /\ logged_in' = (logged_in \/ o \in Logins)
  /\ UNCHANGED <<error, error_message>>

\* The callback of request o with a good status ...
GoodCallback(o) ==
  /\ finished' = TRUE
  /\ connected' = (connected \/ o = "connect")
  /\ logged_in' = (logged_in \/ o \in Logins)
  /\ UNCHANGED <<error, error_message>>

\* Mutant: discovery_cb formats its message and forgets error.
BadCallbackNoError(o) ==
  /\ finished' = TRUE
  /\ error' = (error \/ o \notin {"exec", "discovery"})
  /\ error_message' = (error_message \/ o \notin Logins \cup {"exec", "lunReset"})
  /\ UNCHANGED <<connected, logged_in>>

\* ... and with a bad one: exec_cb leaves it in the task, discoverylogin_cb and
\* lun_reset_cb report no message.
BadCallback(o) ==
  /\ finished' = TRUE
  /\ error' = (error \/ o # "exec")
  /\ error_message' = (error_message \/ o \notin Logins \cup {"exec", "lunReset"})
  /\ UNCHANGED <<connected, logged_in>>

AnsweredWell ==
  /\ Waiting /\ pending # None
  /\ pending' = None
  /\ GoodCallback(pending)
  /\ IF pending = "discovery"
       THEN \E l \in Replies : reply' = l /\ mDiscoveryPairs' = mDiscoveryPairs \o l
       ELSE UNCHANGED <<reply, mDiscoveryPairs>>
  /\ UNCHANGED <<mIscsi, mError, mRedirected, executed, registered, callVars, moved,
                 alive>>

AnsweredBadly ==
  /\ Waiting /\ pending # None
  /\ pending' = None
  /\ BadCallback(pending)
  /\ moved' \in IF pending \in NormalLogins THEN BOOLEAN ELSE {moved}
  /\ UNCHANGED <<mIscsi, mError, mRedirected, mDiscoveryPairs, executed, registered,
                 callVars, reply, alive>>

\* iscsi_service fails, having told the callback of it or not.
ServiceFails ==
  /\ Waiting
  /\ \/ UNCHANGED <<clientVars, pending>>
     \/ pending # None /\ pending' = None /\ BadCallback(pending)
  /\ mError' = TRUE
  /\ Throws("iscsi_service")
  /\ UNCHANGED <<mIscsi, mRedirected, mDiscoveryPairs, executed, registered, moved,
                 reply, alive>>

\* Mutant: AddConnection comes before the test of mClient.error.
LoopThrowsListed ==
  /\ alive /\ phase = "service" /\ error
  /\ Throws("bad status")
  /\ registered' = TRUE
  /\ UNCHANGED <<mIscsi, clientVars, mError, mRedirected, mDiscoveryPairs, executed,
                 netVars, alive>>

\* The loop is over and there is an error.
LoopThrows ==
  /\ alive /\ phase = "service" /\ error
  /\ Throws("bad status")
  /\ UNCHANGED <<mIscsi, clientVars, mError, mRedirected, mDiscoveryPairs, executed,
                 registered, netVars, alive>>

\* Mutant: every operation does it.
SetExecutedAlways == executed' = executed \cup {request}

SetExecuted == executed' = executed \cup ({request} \ {NoRequest})

\* The loop is over and there is none: AddConnection, and what follows it.
Finish ==
  /\ alive /\ phase = "service" /\ finished /\ ~error
  /\ registered' = TRUE
  /\ SetExecuted
  /\ mRedirected' = (mRedirected \/ (op \in NormalLogins /\ error /\ moved))
  /\ todo' = IF op = "loginRedirect" /\ mRedirected'
               THEN <<"disconnect", "connect", "login">> ELSE todo
  /\ Returns
  /\ UNCHANGED <<mIscsi, clientVars, mError, mDiscoveryPairs, netVars, alive>>

\* The background task's ServiceISCSIEvents(true) throws.  When it does not,
\* it changes nothing here: no request is waiting for its callback.
BackGroundThrows ==
  /\ alive /\ registered
  /\ mError' \in {mError, TRUE}
  /\ alive' = FALSE
  /\ UNCHANGED <<mIscsi, clientVars, mRedirected, mDiscoveryPairs, executed, registered,
                 callVars, netVars>>

\* It throws while it services another wrapper; or another wrapper's iSCSIConnect
\* ends the process.
AnotherFails ==
  /\ alive /\ alive' = FALSE
  /\ UNCHANGED <<mIscsi, clientVars, mError, mRedirected, mDiscoveryPairs, executed,
                 registered, callVars, netVars>>

\* ~iSCSILibWrapper, of a wrapper that its program has taken off the list: the
\* context is destroyed with the requests it holds.
Destroy ==
  /\ alive /\ alive' = FALSE
  /\ phase = "idle" /\ todo = <<>> /\ ~registered
  /\ mIscsi' = FALSE /\ pending' = None
  /\ UNCHANGED <<clientVars, mError, mRedirected, mDiscoveryPairs, executed, registered,
                 callVars, moved, reply>>

-----------------------------------------------------------------------------
\* iSCSIExecSCSISync has a request, and the others have none.
RequestsOf(o) == IF o = "exec" THEN Requests ELSE {NoRequest}

Call ==
  \/ \E o \in Ops \ {"connect"} :
       NotListed(o) \/ \E r \in RequestsOf(o) : Remove(o, r)
  \/ ConnectRefused \/ ConnectFails \/ ConnectNullContext \/ ConnectBegins
  \/ Refuse \/ Send \/ SendFails \/ Disconnect \/ DisconnectFails

Loop ==
  \/ PollFails \/ AnsweredWell \/ AnsweredBadly \/ ServiceFails
  \/ LoopThrows \/ Finish

Over == ~alive /\ UNCHANGED vars

Next == Call \/ Loop \/ BackGroundThrows \/ AnotherFails \/ Destroy \/ Over

Spec == Init /\ [][Next]_vars
-----------------------------------------------------------------------------
(* Fairness: a call that can go on does, and the target answers in the end *)
(* (with a finite mTimeout poll would give up on it instead).              *)

BeginGoesOn == Refuse \/ Send \/ SendFails \/ Disconnect \/ DisconnectFails
TargetAnswers == AnsweredWell \/ AnsweredBadly

FairSpec ==
  /\ Spec
  /\ WF_vars(BeginGoesOn) /\ WF_vars(TargetAnswers)
  /\ WF_vars(LoopThrows) /\ WF_vars(Finish)

-----------------------------------------------------------------------------
(* Properties.                                                             *)

\* What the background task finds on its list is a working connection that
\* waits for nothing: no callback can run in its thread, and no old error
\* makes ServiceISCSIEvents throw there (which would end the process).
QuietWhenListed ==
  registered => /\ phase = "idle" /\ pending = None
                /\ mIscsi /\ connected /\ finished /\ ~error

\* What an operation does once it has begun (its checks, its request, its event loop)
\* it does with a context, though iSCSIPerformDiscovery and iSCSIDiscoveryLogout do not
\* check that there is one: RemoveConnection throws before them.  This leaves a single
\* place where libiscsi is given a null context, line 336 (ConnectNullContext).
ContextInUse == phase # "idle" => mIscsi

\* The callback an operation waits for is that of its own request: what a
\* failed operation left unanswered is never serviced again.
OnlyItsOwnAnswer ==
  /\ phase = "begin" => pending = None
  /\ phase = "service" => pending = IF finished THEN None ELSE op

\* error_message belongs to an error that is still there, and no callback that
\* could overwrite it (and leak it) is to come.
MessageOfTheError == error_message => error /\ pending = None

\* A wrapper whose operation has thrown with a context in place, so that it is
\* neither listed nor in use.
Dead == mIscsi /\ ~registered /\ phase = "idle"

\* Such a wrapper stays so whatever is called: every operation throws, even
\* iSCSIDisconnect; only its destructor is left.
FailureIsFinal == [][Dead => Dead' \/ ~alive']_vars

\* A discovery that returns leaves the pairs of its own reply, and none of an
\* earlier one (line 481).
DiscoveryIsFresh == [][Finish /\ op = "discovery" => mDiscoveryPairs = reply]_vars

\* Every operation returns or throws.
CallsEnd == phase # "idle" ~> phase = "idle" \/ ~alive

\* "It still allows you to check for whether it was redirected"
\* (iSCSILibWrapper.h, line 167).
RedirectIsReported == moved /\ phase = "idle" => mRedirected
=============================================================================
