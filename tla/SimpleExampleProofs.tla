------------------------ MODULE SimpleExampleProofs ------------------------
(***************************************************************************)
(* The program keeps to the protocol of its wrapper, whatever the targets  *)
(* answer, for every set of requests, targets and discovery replies and    *)
(* every number of LUNs.  The invariant says, of each stage of the program,*)
(* what the wrapper's state is before the stage's call and what it is when *)
(* the call has returned; that of module SessionProofs holds in between.   *)
(***************************************************************************)
EXTENDS SimpleExample, SessionProofs

\* The stages by what their calls do.
Opening == {"connect", "connectTarget"}
Closing == {"disconnect", "disconnectTarget"}
Execs ==
  {"reportLuns", "reportLunsAgain", "tur", "tur2", "inq", "supported", "usn", "capacity10"}
Logs == {"discoveryLogin", "discovery", "discoveryLogout", "login", "logout"}
Calling == Opening \cup Closing \cup Execs \cup Logs

\* The discovery has been done, and the program goes by its list.
Listing == {"discoveryLogout", "disconnect", "connectTarget"}

ProgTypes ==
  /\ stage \in Calling \cup {"next lun", "caught", "end", "done"}
  /\ called \in BOOLEAN
  /\ luns \in 0..MaxLuns
  /\ status \in {"good", "bus reset", "other"}

\* What a call that has returned leaves, and the next one finds.
Left(s) ==
  IF s \in Closing THEN ~mIscsi /\ ~registered /\ ~connected ELSE registered

Position ==
  /\ called => stage \in Calling
  /\ phase # "idle" => called /\ op = Script[stage] /\ (op # "exec" => request = NoRequest)
  /\ phase = "service" => stage \notin Closing
  /\ called /\ phase = "idle" /\ outcome = "returned" => Left(stage)
  /\ ~called /\ stage \in Opening => ~mIscsi /\ ~registered
  /\ ~called /\ stage \in (Calling \ Opening) \cup {"next lun"} => registered
  /\ stage \in Execs /\ (~called \/ phase # "idle") => executed = {}

\* Where the discovery's pairs are those of its reply.
PairsInv ==
  /\ stage = "discovery" /\ phase = "service" =>
       mDiscoveryPairs = IF pending # None THEN <<>>
                         ELSE IF ~error THEN reply ELSE mDiscoveryPairs
  /\ stage = "discovery" /\ called /\ phase = "idle" /\ outcome = "returned" =>
       mDiscoveryPairs = reply
  /\ stage \in Listing => mDiscoveryPairs = reply

PInv ==
  /\ TypeOK /\ ProgTypes /\ todo = <<>>
  /\ stage # "done" => Inv
  /\ LegalCalls /\ EndsClean
  /\ alive => Position /\ PairsInv
-----------------------------------------------------------------------------
\* Which operation each stage calls.
LEMMA ScriptFacts ==
  /\ DOMAIN Script = Calling
  /\ \A s \in Opening : Script[s] = "connect"
  /\ \A s \in Closing : Script[s] = "disconnect"
  /\ \A s \in Execs : Script[s] = "exec"
  /\ Script["discovery"] = "discovery"
  /\ Script["discoveryLogin"] = "discoveryLogin"
  /\ Script["discoveryLogout"] = "discoveryLogout"
  /\ Script["login"] = "login" /\ Script["logout"] = "logout"
BY DEF Script, Calling, Opening, Closing, Execs, Logs

LEMMA StraightFacts ==
  /\ DOMAIN Straight = {"connect", "discoveryLogin", "discoveryLogout", "connectTarget",
                        "login", "logout", "disconnectTarget"}
  /\ Straight["connect"] = "discoveryLogin" /\ Straight["discoveryLogin"] = "discovery"
  /\ Straight["discoveryLogout"] = "disconnect" /\ Straight["connectTarget"] = "login"
  /\ Straight["login"] = "reportLuns" /\ Straight["logout"] = "disconnectTarget"
  /\ Straight["disconnectTarget"] = "end"
BY DEF Straight

\* The operation of a stage is the only one of its kind.
LEMMA ScriptKinds ==
  ASSUME NEW s \in Calling
  PROVE  /\ Script[s] \in Ops /\ Script[s] # "loginRedirect"
         /\ Script[s] = "connect" <=> s \in Opening
         /\ Script[s] = "disconnect" <=> s \in Closing
         /\ Script[s] = "exec" <=> s \in Execs
         /\ Script[s] = "discovery" <=> s = "discovery"
BY ScriptFacts DEF Calling, Opening, Closing, Execs, Logs, Ops, Checked, Unchecked

LEMMA PInvInit == ProgramInit => PInv
<1> SUFFICES ASSUME ProgramInit PROVE PInv
  OBVIOUS
<1>1. Init /\ Inv
  BY InvInit DEF ProgramInit
<1>2. stage = "connect" /\ ~called /\ luns = 0 /\ status = "good" /\ called \in BOOLEAN
  BY DEF ProgramInit
<1>3. ProgTypes
  BY <1>2, MaxLunsAssumption DEF ProgTypes, Calling, Opening
<1>4. /\ todo = <<>> /\ outcome = None /\ phase = "idle" /\ ~mIscsi /\ ~registered
      /\ mDiscoveryPairs = reply /\ executed = {} /\ TypeOK
  BY <1>1 DEF Init, Inv
<1>5. LegalCalls /\ EndsClean
  BY <1>2, <1>4 DEF LegalCalls, EndsClean, None
<1>6. Position
  BY <1>2, <1>4 DEF Position, Opening, Execs, Calling
<1>7. PairsInv
  BY <1>2, <1>4 DEF PairsInv
<1> QED BY <1>1, <1>3, <1>4, <1>5, <1>6, <1>7 DEF PInv

\* What there is when the wrapper is in use or about to be.
LEMMA Facts ==
  ASSUME PInv, alive, phase # "idle" \/ stage \in Calling
  PROVE  /\ stage # "done" /\ Inv /\ TypeOK /\ todo = <<>>
         /\ Position /\ PairsInv /\ ProgTypes /\ LegalCalls
         /\ phase # "idle" => /\ called /\ stage \in Calling /\ op = Script[stage]
                              /\ stage # "end"
<1>1. Position /\ PairsInv /\ ProgTypes /\ LegalCalls /\ TypeOK /\ todo = <<>>
  BY DEF PInv
<1>2. stage \in Calling
  BY <1>1 DEF Position
<1>3. stage # "done" /\ stage # "end"
  BY <1>2 DEF Calling, Opening, Closing, Execs, Logs
<1> QED BY <1>1, <1>2, <1>3 DEF PInv, Position

\* The program calls its wrapper.
LEMMA CallHolds == ASSUME PInv, CallOp PROVE PInv'
<1>1. /\ stage \in Calling /\ ~called /\ called' /\ UNCHANGED <<stage, luns, status>>
      /\ EntersOp(Script[stage])
  BY ScriptFacts DEF CallOp
<1>2. called' \in BOOLEAN
  BY DEF CallOp
<1>3. alive /\ phase = "idle"
  BY <1>1
  DEF EntersOp, ConnectRefused, ConnectFails, ConnectNullContext, ConnectBegins, NotListed,
      Remove, Calls
<1>4. /\ Inv /\ TypeOK /\ todo = <<>> /\ Position /\ PairsInv /\ ProgTypes /\ LegalCalls
      /\ stage # "done"
  BY <1>1, <1>3, Facts
<1>5. stage # "end" /\ ProgTypes'
  BY <1>1, <1>2, <1>4 DEF ProgTypes, Calling, Opening, Closing, Execs, Logs
<1>6. CASE stage \in Opening
  <2>1. Script[stage] = "connect" /\ stage \notin Execs /\ stage # "discovery"
    BY <1>6, ScriptFacts DEF Opening, Execs
  <2>2. ~mIscsi /\ ~registered
    BY <1>1, <1>4, <1>6 DEF Position
  <2>3. ConnectFails \/ ConnectNullContext \/ ConnectBegins
    BY <1>1, <2>1, <2>2 DEF EntersOp, ConnectRefused
  <2>4. Inv'
    BY <1>4, <2>3, CallStep DEF Call
  <2>5. CASE ConnectFails
    <3>1. /\ phase' = "idle" /\ outcome' = "not sent" /\ todo' = <<>>
          /\ UNCHANGED <<mIscsi, registered, mDiscoveryPairs, reply, alive, executed>>
      BY <2>5 DEF ConnectFails, Throws, netVars
    <3>2. Position' /\ PairsInv'
      BY <1>1, <1>4, <2>1, <3>1 DEF Position, PairsInv
    <3>3. LegalCalls' /\ EndsClean'
      BY <1>1, <1>5, <3>1 DEF LegalCalls, EndsClean
    <3> QED BY <1>5, <2>4, <3>1, <3>2, <3>3 DEF PInv, Inv
  <2>6. CASE ConnectBegins
    <3>1. /\ phase' = "begin" /\ op' = "connect" /\ outcome' = outcome /\ todo' = <<>>
          /\ request' = NoRequest
          /\ UNCHANGED <<registered, mDiscoveryPairs, reply, alive, executed>>
      BY <1>4, <2>6 DEF ConnectBegins, Begins, netVars
    <3>2. Position' /\ PairsInv'
      BY <1>1, <1>4, <2>1, <3>1 DEF Position, PairsInv
    <3>3. LegalCalls' /\ EndsClean'
      BY <1>1, <1>4, <1>5, <3>1 DEF LegalCalls, EndsClean
    <3> QED BY <1>5, <2>4, <3>1, <3>2, <3>3 DEF PInv, Inv
  <2>7. CASE ConnectNullContext
    <3>1. alive' = FALSE /\ UNCHANGED <<todo, outcome>>
      BY <2>7 DEF ConnectNullContext, callVars
    <3>2. LegalCalls' /\ EndsClean'
      BY <1>1, <1>4, <1>5, <3>1 DEF LegalCalls, EndsClean
    <3> QED BY <1>4, <1>5, <2>4, <3>1, <3>2 DEF PInv, Inv
  <2> QED BY <2>3, <2>5, <2>6, <2>7
<1>7. CASE stage \notin Opening
  <2>1. Script[stage] \in Ops \ {"connect"}
    BY <1>1, <1>7, ScriptKinds
  <2>2. registered
    BY <1>1, <1>4, <1>7 DEF Position
  <2>3. PICK r \in RequestsOf(Script[stage]) : Remove(Script[stage], r)
    BY <1>1, <2>1, <2>2 DEF EntersOp, NotListed
  <2>4. Inv'
    BY <1>4, <2>1, <2>3, CallStep DEF Call
  <2>5. /\ phase' = "begin" /\ op' = Script[stage] /\ outcome' = outcome /\ todo' = <<>>
        /\ UNCHANGED <<mDiscoveryPairs, reply, alive, executed>>
    BY <1>4, <2>3 DEF Remove, Begins, netVars
  <2>6. Script[stage] # "exec" => request' = NoRequest
    BY <2>3 DEF Remove, Begins, RequestsOf
  <2>7. Position' /\ PairsInv'
    BY <1>1, <1>4, <1>7, <2>5, <2>6 DEF Position, PairsInv
  <2>8. LegalCalls' /\ EndsClean'
    BY <1>1, <1>4, <1>5, <2>5 DEF LegalCalls, EndsClean
  <2> QED BY <1>5, <2>4, <2>5, <2>7, <2>8 DEF PInv, Inv
<1> QED BY <1>6, <1>7

\* An operation that throws, for a reason that the program is not to blame for.
LEMMA ThrowHolds ==
  ASSUME PInv, alive, phase # "idle", Inv', todo' = <<>>, phase' = "idle",
         outcome' \in {"not sent", "poll", "iscsi_service", "bad status"},
         UNCHANGED <<stage, called, luns, status, reply, alive>>,
         stage \in Listing => UNCHANGED mDiscoveryPairs
  PROVE  PInv'
<1>1. /\ stage # "done" /\ Position /\ PairsInv /\ ProgTypes
      /\ called /\ stage \in Calling /\ stage # "end"
  BY Facts
<1>2. ProgTypes' /\ LegalCalls' /\ EndsClean'
  BY <1>1 DEF ProgTypes, LegalCalls, EndsClean
<1>3. Position'
  BY <1>1 DEF Position
<1>4. PairsInv'
  BY <1>1 DEF PairsInv
<1> QED BY <1>2, <1>3, <1>4 DEF PInv, Inv

\* No request of the program's is refused for having been executed, and its
\* connection is there: an operation that has begun may run.
LEMMA Runs == ASSUME PInv, alive, phase = "begin" PROVE MayRun
<1>1. /\ Inv /\ Position /\ op = Script[stage] /\ stage \in Calling
  BY Facts
<1>2. ~error /\ (connected \/ op = "connect") /\ executed \subseteq Requests
  BY <1>1 DEF Inv, CallInv, TypeOK
<1>3. op = "connect" => op \notin Checked
  BY DEF Checked
<1>4. CASE op = "exec"
  <2>1. executed = {}
    BY <1>1, <1>4, ScriptKinds DEF Position
  <2> QED BY <1>2, <1>3, <2>1 DEF MayRun
<1>5. CASE op # "exec"
  <2>1. request = NoRequest
    BY <1>1, <1>5 DEF Position
  <2> QED BY <1>2, <1>3, <2>1, NoRequestAssumption DEF MayRun
<1> QED BY <1>4, <1>5

\* Before its event loop.
LEMMA BeginHolds == ASSUME PInv, Within(BeginGoesOn) PROVE PInv'
<1>1. /\ alive /\ phase = "begin" /\ BeginGoesOn
      /\ UNCHANGED <<stage, called, luns, status>>
  BY DEF Within, BeginGoesOn, Refuse, Send, SendFails, Prepares, Disconnect,
         DisconnectFails, progVars
<1>2. /\ Inv /\ todo = <<>> /\ Position /\ PairsInv /\ ProgTypes /\ LegalCalls
      /\ called /\ stage \in Calling /\ op = Script[stage] /\ stage # "end" /\ stage # "done"
  BY <1>1, Facts
<1>3. Inv'
  BY <1>1, <1>2, CallStep DEF BeginGoesOn, Call
<1>4. MayRun
  BY <1>1, Runs
<1>5. stage \in Listing => op # "discovery"
  BY <1>2, ScriptKinds DEF Listing
<1>6. ProgTypes'
  BY <1>1, <1>2 DEF ProgTypes
<1>7. CASE Send
  <2>1. /\ phase' = "service" /\ op # "disconnect" /\ pending' = op
        /\ mDiscoveryPairs' = IF op = "discovery" THEN <<>> ELSE mDiscoveryPairs
        /\ UNCHANGED <<mIscsi, connected, registered, op, request, todo, outcome, executed,
                       reply, alive>>
    BY <1>7 DEF Send, Prepares, ClearPairs
  <2>2. stage \notin Closing /\ (stage = "discovery" <=> op = "discovery")
    BY <1>2, <2>1, ScriptKinds
  <2>3. Position'
    BY <1>1, <1>2, <2>1, <2>2 DEF Position
  <2>4. pending' # None
    BY <2>1, <1>2, <1>1 DEF Inv, CallInv, Ops, Checked, Unchecked, None
  <2>5. PairsInv'
    BY <1>1, <1>2, <1>5, <2>1, <2>2, <2>4 DEF PairsInv
  <2>6. LegalCalls' /\ EndsClean'
    BY <1>1, <1>2, <2>1 DEF LegalCalls, EndsClean
  <2> QED BY <1>2, <1>3, <1>6, <2>1, <2>3, <2>5, <2>6 DEF PInv, Inv
<1>8. CASE SendFails
  BY <1>1, <1>2, <1>3, <1>5, <1>8, ThrowHolds
  DEF SendFails, Prepares, ClearPairs, Throws, netVars
<1>9. CASE Disconnect
  <2>1. /\ op = "disconnect" /\ phase' = "idle" /\ outcome' = "returned"
        /\ mIscsi' = FALSE /\ connected' = FALSE
        /\ UNCHANGED <<mDiscoveryPairs, registered, todo, executed, reply, alive>>
    BY <1>9 DEF Disconnect, Returns
  <2>2. stage \in Closing /\ stage \notin Execs /\ stage # "discovery"
    BY <1>2, <2>1, ScriptKinds
  <2>3. ~registered
    BY <1>1, <1>2 DEF Inv, QuietWhenListed
  <2>4. Position'
    BY <1>1, <1>2, <2>1, <2>2, <2>3 DEF Position, Left
  <2>5. PairsInv'
    BY <1>1, <1>2, <2>1, <2>2 DEF PairsInv
  <2>6. LegalCalls' /\ EndsClean'
    BY <1>1, <1>2, <2>1 DEF LegalCalls, EndsClean
  <2> QED BY <1>2, <1>3, <1>6, <2>1, <2>4, <2>5, <2>6 DEF PInv, Inv
<1>10. CASE DisconnectFails
  BY <1>1, <1>2, <1>3, <1>10, ThrowHolds DEF DisconnectFails, Throws, netVars
<1> QED BY <1>1, <1>4, <1>7, <1>8, <1>9, <1>10 DEF BeginGoesOn, Refuse

\* The event loop and its callbacks.
LEMMA LoopFails ==
  ASSUME PInv, Within(PollFails) \/ Within(ServiceFails) \/ Within(LoopThrows)
  PROVE  PInv'
<1>1. /\ alive /\ phase = "service" /\ UNCHANGED <<stage, called, luns, status>>
      /\ todo' = <<>> /\ phase' = "idle"
      /\ outcome' \in {"poll", "iscsi_service", "bad status"}
      /\ UNCHANGED <<mDiscoveryPairs, reply, alive>>
  BY DEF Within, PollFails, ServiceFails, LoopThrows, Waiting, progVars, Throws, netVars
<1>2. Inv
  BY <1>1, Facts
<1>3. Inv'
  BY <1>2, LoopStep, RepliesAssumption DEF Loop, Within
<1> QED BY <1>1, <1>3, ThrowHolds

LEMMA AnswerHolds == ASSUME PInv, Answer PROVE PInv'
<1>1. /\ alive /\ phase = "service" /\ ~finished /\ ~error /\ pending # None
      /\ AnsweredWell \/ AnsweredBadly
      /\ UNCHANGED <<stage, called, luns>>
      /\ pending' = None
      /\ UNCHANGED <<mIscsi, registered, executed, phase, op, request, todo, outcome, alive>>
  BY DEF Answer, AnsweredWell, AnsweredBadly, Waiting, callVars
<1>2. /\ Inv /\ todo = <<>> /\ Position /\ PairsInv /\ ProgTypes /\ LegalCalls
      /\ called /\ stage \in Calling /\ op = Script[stage] /\ stage # "end" /\ stage # "done"
  BY <1>1, Facts
<1>3. Inv'
  BY <1>1, <1>2, LoopStep, RepliesAssumption DEF Loop
<1>4. pending = op /\ (stage = "discovery" <=> op = "discovery")
  BY <1>1, <1>2, ScriptKinds DEF Inv, OnlyItsOwnAnswer
<1>5. status' \in {"good", "bus reset", "other"}
  BY <1>2 DEF Answer, ProgTypes
<1>6. ProgTypes'
  BY <1>1, <1>2, <1>5 DEF ProgTypes
<1>7. Position'
  BY <1>1, <1>2 DEF Position
<1>8. LegalCalls' /\ EndsClean'
  BY <1>1, <1>2 DEF LegalCalls, EndsClean
<1>9. PairsInv'
  <2>1. CASE stage = "discovery" /\ AnsweredWell
    <3>1. PICK l \in Replies : reply' = l /\ mDiscoveryPairs' = mDiscoveryPairs \o l
      BY <1>4, <2>1 DEF AnsweredWell
    <3>2. mDiscoveryPairs = <<>>
      BY <1>1, <1>2, <2>1 DEF PairsInv
    <3>3. <<>> \o l = l
      BY RepliesAssumption, ConcatEmptySeq
    <3> QED BY <1>1, <1>2, <2>1, <3>1, <3>2, <3>3 DEF PairsInv, Listing
  <2>2. CASE stage # "discovery" /\ AnsweredWell
    <3>1. UNCHANGED <<reply, mDiscoveryPairs>>
      BY <1>4, <2>2 DEF AnsweredWell
    <3> QED BY <1>1, <1>2, <2>2, <3>1 DEF PairsInv
  <2>3. CASE AnsweredBadly
    <3>1. UNCHANGED <<reply, mDiscoveryPairs>> /\ (error' <=> pending # "exec")
      BY <1>1, <2>3 DEF AnsweredBadly, BadCallback
    <3>2. stage = "discovery" => error'
      BY <1>4, <3>1
    <3> QED BY <1>1, <1>2, <3>1, <3>2 DEF PairsInv
  <2> QED BY <1>1, <2>1, <2>2, <2>3
<1> QED BY <1>1, <1>2, <1>3, <1>6, <1>7, <1>8, <1>9 DEF PInv, Inv

LEMMA FinishHolds == ASSUME PInv, Within(Finish) PROVE PInv'
<1>1. /\ alive /\ phase = "service" /\ finished /\ ~error /\ Finish
      /\ UNCHANGED <<stage, called, luns, status>>
      /\ registered' /\ phase' = "idle" /\ outcome' = "returned"
      /\ UNCHANGED <<mIscsi, mDiscoveryPairs, reply, alive>>
  BY DEF Within, Finish, Returns, progVars, netVars
<1>2. /\ Inv /\ todo = <<>> /\ Position /\ PairsInv /\ ProgTypes /\ LegalCalls
      /\ called /\ stage \in Calling /\ op = Script[stage] /\ stage # "end" /\ stage # "done"
  BY <1>1, Facts
<1>3. Inv'
  BY <1>1, <1>2, LoopStep, RepliesAssumption DEF Loop
<1>4. todo' = <<>>
  <2>1. op # "loginRedirect"
    BY <1>2, ScriptKinds
  <2> QED BY <1>1, <1>2, <2>1 DEF Finish
<1>5. ProgTypes' /\ LegalCalls' /\ EndsClean'
  BY <1>1, <1>2 DEF ProgTypes, LegalCalls, EndsClean
<1>6. stage \notin Closing /\ pending = None
  BY <1>1, <1>2 DEF Position, Inv, OnlyItsOwnAnswer
<1>7. Position'
  BY <1>1, <1>2, <1>6 DEF Position, Left
<1>8. PairsInv'
  BY <1>1, <1>2, <1>6 DEF PairsInv
<1> QED BY <1>1, <1>2, <1>3, <1>4, <1>5, <1>7, <1>8 DEF PInv, Inv
-----------------------------------------------------------------------------
\* The program goes on to a stage that finds what it needs.
LEMMA GoesOn ==
  ASSUME PInv, alive, phase = "idle", stage # "done", NEW s, To(s),
         alive' \in BOOLEAN, luns' \in 0..MaxLuns,
         s \in Calling \cup {"next lun", "caught", "end"},
         s \in Opening \cup {"end"} => ~mIscsi /\ ~registered,
         s = "end" => ~connected,
         s \in (Calling \ Opening) \cup {"next lun"} => registered,
         s \in Listing => mDiscoveryPairs = reply
  PROVE  PInv'
<1>1. /\ stage' = s /\ called' = FALSE /\ status' = "good" /\ called' \in BOOLEAN
      /\ UNCHANGED <<mIscsi, finished, error, connected, logged_in, error_message, mError,
                     mRedirected, mDiscoveryPairs, registered, phase, op, request, todo,
                     outcome, pending, moved, reply>>
  BY DEF To, clientVars, callVars, netVars
<1>2. executed' \in {executed, {}} /\ (s \in Execs => executed' = {})
  BY ScriptFacts DEF To, Execs, Calling
<1>3. Inv /\ TypeOK /\ todo = <<>> /\ LegalCalls
  BY DEF PInv
<1>4. TypeOK'
  BY <1>1, <1>2, <1>3 DEF TypeOK
<1>5. Inv'
  BY <1>1, <1>3, <1>4
  DEF Inv, CallInv, QuietWhenListed, ContextInUse, OnlyItsOwnAnswer, MessageOfTheError
<1>6. ProgTypes'
  BY <1>1 DEF ProgTypes
<1>7. LegalCalls' /\ EndsClean'
  BY <1>1, <1>3 DEF LegalCalls, EndsClean
<1>8. Position'
  BY <1>1, <1>2 DEF Position
<1>9. PairsInv'
  BY <1>1 DEF PairsInv
<1> QED BY <1>1, <1>3, <1>4, <1>5, <1>6, <1>7, <1>8, <1>9 DEF PInv

\* A call that has ended, and how.
LEMMA EndedFacts ==
  ASSUME PInv, NEW how, Ended(how)
  PROVE  /\ alive /\ phase = "idle" /\ stage \in Calling /\ stage # "done"
         /\ luns \in 0..MaxLuns /\ TypeOK /\ PairsInv
         /\ how = "returns" => Left(stage)
         /\ how = "returns" /\ stage \in Listing \cup {"discovery"} => mDiscoveryPairs = reply
<1>1. alive /\ phase = "idle" /\ called
  BY DEF Ended
<1>2. Position /\ PairsInv /\ TypeOK /\ ProgTypes
  BY <1>1 DEF PInv
<1>3. stage \in Calling
  BY <1>1, <1>2 DEF Position
<1>4. stage # "done"
  BY <1>3 DEF Calling, Opening, Closing, Execs, Logs
<1>5. how = "returns" => outcome = "returned"
  BY DEF Ended
<1>6. how = "returns" => Left(stage)
  BY <1>1, <1>2, <1>5 DEF Position
<1>7. how = "returns" /\ stage \in Listing \cup {"discovery"} => mDiscoveryPairs = reply
  BY <1>1, <1>2, <1>5 DEF PairsInv
<1> QED BY <1>1, <1>2, <1>3, <1>4, <1>6, <1>7 DEF ProgTypes

\* Where the program goes on to, and what it must find there.
Ready(s) ==
  /\ s \in Calling \cup {"next lun", "caught", "end"}
  /\ s \in Opening \cup {"end"} => ~mIscsi /\ ~registered
  /\ s = "end" => ~connected
  /\ s \in (Calling \ Opening) \cup {"next lun"} => registered
  /\ s \in Listing => mDiscoveryPairs = reply

LEMMA ReadyGoesOn ==
  ASSUME PInv, alive, phase = "idle", stage # "done", NEW s, To(s), Ready(s),
         alive' \in BOOLEAN, luns' \in 0..MaxLuns
  PROVE  PInv'
BY GoesOn DEF Ready

\* What needs nothing, and what needs only that the wrapper is on the list.
LEMMA ReadyToEnd == Ready("caught")
BY DEF Ready, Calling, Opening, Closing, Execs, Logs, Listing

LEMMA ReadyToCall ==
  ASSUME registered, NEW s \in (Calling \ (Opening \cup Listing)) \cup {"next lun"}
  PROVE  Ready(s)
BY DEF Ready, Calling, Opening, Closing, Execs, Logs, Listing

\* Each transition of the program leads to a stage that finds what it needs.
LEMMA StraightHolds == ASSUME PInv, GoStraight PROVE PInv'
<1>1. /\ Ended("returns") /\ stage \in DOMAIN Straight /\ To(Straight[stage])
      /\ UNCHANGED <<luns, alive>>
  BY DEF GoStraight
<1>2. /\ alive /\ phase = "idle" /\ stage # "done" /\ luns \in 0..MaxLuns /\ TypeOK
      /\ Left(stage) /\ (stage \in Listing => mDiscoveryPairs = reply)
  BY <1>1, EndedFacts
<1>3. CASE stage = "disconnectTarget"
  <2>1. Straight[stage] = "end" /\ ~mIscsi /\ ~registered /\ ~connected
    BY <1>2, <1>3, StraightFacts DEF Left, Closing
  <2> QED BY <2>1, <1>1, <1>2, ReadyGoesOn
      DEF Ready, Calling, Opening, Closing, Execs, Logs, Listing, TypeOK
<1>4. CASE stage # "disconnectTarget"
  <2>1. stage \notin Closing
    BY <1>1, <1>4, StraightFacts DEF Closing
  <2>2. registered
    BY <1>2, <2>1 DEF Left
  <2>3. stage = "discoveryLogout" => mDiscoveryPairs = reply
    BY <1>2 DEF Listing
  <2>4. PICK s : s = Straight[stage]
    OBVIOUS
  <2>5. Ready(s)
    BY <1>1, <1>4, <2>2, <2>3, <2>4, StraightFacts
    DEF Ready, Calling, Opening, Closing, Execs, Logs, Listing
  <2>6. To(s) /\ alive' \in BOOLEAN /\ luns' \in 0..MaxLuns
    BY <1>1, <1>2, <2>4 DEF TypeOK
  <2> QED BY <1>2, <2>5, <2>6, ReadyGoesOn
<1> QED BY <1>3, <1>4

\* What the transitions that follow a SCSI request, or precede one, have in common.
LEMMA OnTheList ==
  ASSUME PInv, alive, phase = "idle", luns' \in 0..MaxLuns, UNCHANGED alive,
         stage \in Execs \cup {"next lun"},
         stage \in Execs => Left(stage),
         NEW s \in Execs \cup {"logout", "next lun", "caught"}, To(s)
  PROVE  PInv'
<1>1. /\ stage # "done" /\ stage \notin Closing
      /\ stage = "next lun" => stage \notin Calling
  BY DEF Calling, Opening, Closing, Execs, Logs
<1>2. registered
  BY <1>1 DEF PInv, Position, Left
<1>3. Ready(s)
  BY <1>2, ReadyToEnd, ReadyToCall DEF Calling, Opening, Closing, Execs, Logs, Listing
<1>4. alive' \in BOOLEAN
  BY DEF PInv, TypeOK
<1> QED BY <1>1, <1>3, <1>4, ReadyGoesOn

LEMMA ProgramHolds == ASSUME PInv, Program PROVE PInv'
<1>1. CASE GoStraight
  BY <1>1, StraightHolds
<1>2. CASE AnyTargets
  <2>1. /\ Ended("returns") /\ stage = "discovery" /\ UNCHANGED <<luns, alive>>
        /\ To("caught") \/ To("discoveryLogout")
    BY <1>2 DEF AnyTargets
  <2>2. /\ alive /\ phase = "idle" /\ stage # "done" /\ luns \in 0..MaxLuns /\ TypeOK
        /\ Left(stage) /\ mDiscoveryPairs = reply
    BY <2>1, EndedFacts
  <2>3. alive' \in BOOLEAN /\ luns' \in 0..MaxLuns
    BY <2>1, <2>2 DEF TypeOK
  <2>4. Ready("discoveryLogout")
    BY <2>1, <2>2 DEF Left, Ready, Calling, Opening, Closing, Execs, Logs, Listing
  <2> QED BY <2>1, <2>2, <2>3, <2>4, ReadyToEnd, ReadyGoesOn
<1>3. CASE TakeSecond
  <2>1. /\ Ended("returns") /\ stage = "disconnect" /\ To("connectTarget")
        /\ alive' \in BOOLEAN /\ UNCHANGED luns
    BY <1>3 DEF TakeSecond
  <2>2. /\ alive /\ phase = "idle" /\ stage # "done" /\ luns \in 0..MaxLuns
        /\ Left(stage) /\ mDiscoveryPairs = reply
    BY <2>1, EndedFacts DEF Listing
  <2>3. Ready("connectTarget")
    BY <2>1, <2>2 DEF Left, Ready, Calling, Opening, Closing, Execs, Logs, Listing
  <2> QED BY <2>1, <2>2, <2>3, ReadyGoesOn
<1>4. CASE LunsReported \/ UnitReady \/ Inquired \/ Serial
  <2>1. /\ Ended("returns") /\ stage \in Execs /\ UNCHANGED alive
        /\ UNCHANGED luns \/ luns' \in 0..MaxLuns
    BY <1>4 DEF LunsReported, UnitReady, Inquired, Serial, Execs
  <2>2. alive /\ phase = "idle" /\ luns \in 0..MaxLuns /\ Left(stage)
    BY <2>1, EndedFacts
  <2>3. \E s \in Execs \cup {"logout", "next lun", "caught"} : To(s)
    BY <1>4 DEF LunsReported, UnitReady, Inquired, Serial, Execs
  <2> QED BY <2>1, <2>2, <2>3, OnTheList
<1>5. CASE NextLun
  <2>1. alive /\ stage = "next lun" /\ UNCHANGED alive
    BY <1>5 DEF NextLun
  <2>2. luns \in 0..MaxLuns /\ phase = "idle"
    BY <2>1 DEF PInv, ProgTypes, Position, Calling, Opening, Closing, Execs, Logs
  <2>3. luns' \in 0..MaxLuns
    <3>1. luns' = luns \/ (luns > 0 /\ luns' = luns - 1)
      BY <1>5 DEF NextLun
    <3> QED BY <2>2, <3>1, MaxLunsAssumption
  <2>4. \E s \in Execs \cup {"logout", "next lun", "caught"} : To(s)
    BY <1>5 DEF NextLun, Execs
  <2> QED BY <2>1, <2>2, <2>3, <2>4, OnTheList DEF Execs
<1>6. CASE Caught
  <2>1. Ended("throws") /\ To("caught") /\ UNCHANGED <<luns, alive>>
    BY <1>6 DEF Caught
  <2>2. alive /\ phase = "idle" /\ stage # "done" /\ luns \in 0..MaxLuns /\ TypeOK
    BY <2>1, EndedFacts
  <2>3. alive' \in BOOLEAN /\ luns' \in 0..MaxLuns
    BY <2>1, <2>2 DEF TypeOK
  <2> QED BY <2>1, <2>2, <2>3, ReadyToEnd, ReadyGoesOn
<1>7. CASE MainReturns
  <2>1. /\ alive /\ stage \in {"caught", "end"} /\ stage' = "done"
        /\ called' = FALSE /\ status' = "good" /\ called' \in BOOLEAN
        /\ mIscsi' = FALSE /\ pending' = None
        /\ UNCHANGED <<finished, error, connected, logged_in, error_message, mError,
                       mRedirected, mDiscoveryPairs, executed, registered, phase, op,
                       request, todo, outcome, moved, reply, alive, luns>>
    BY <1>7 DEF MainReturns, clientVars, callVars
  <2>2. TypeOK /\ ProgTypes /\ todo = <<>> /\ LegalCalls /\ Position
    BY <2>1 DEF PInv
  <2>3. TypeOK'
    BY <2>1, <2>2 DEF TypeOK
  <2>4. ProgTypes' /\ LegalCalls' /\ EndsClean'
    BY <2>1, <2>2 DEF ProgTypes, LegalCalls, EndsClean
  <2>5. phase = "idle"
    BY <2>1, <2>2 DEF Position, Calling, Opening, Closing, Execs, Logs
  <2>6. Position' /\ PairsInv'
    BY <2>1, <2>5 DEF Position, PairsInv, Calling, Opening, Closing, Execs, Logs, Listing
  <2> QED BY <2>1, <2>2, <2>3, <2>4, <2>6 DEF PInv
<1> QED BY <1>1, <1>2, <1>3, <1>4, <1>5, <1>6, <1>7 DEF Program

\* The process is terminated while a background task throws.
LEMMA TerminatedHolds == ASSUME PInv, Within(BackGroundThrows) PROVE PInv'
<1>1. /\ alive /\ alive' = FALSE /\ BackGroundThrows /\ mError' \in {mError, TRUE}
      /\ UNCHANGED <<stage, called, luns, status>>
      /\ UNCHANGED <<mIscsi, finished, error, connected, logged_in, error_message,
                     mRedirected, mDiscoveryPairs, executed, registered, phase, op,
                     request, todo, outcome, pending, moved, reply>>
  BY DEF Within, BackGroundThrows, progVars, clientVars, callVars, netVars
<1>2. stage # "done" => Inv'
  BY <1>1, InvStep DEF PInv, Next
<1>3. TypeOK'
  BY <1>1 DEF PInv, TypeOK
<1>4. ProgTypes' /\ LegalCalls' /\ EndsClean'
  BY <1>1 DEF PInv, ProgTypes, LegalCalls, EndsClean
<1> QED BY <1>1, <1>2, <1>3, <1>4 DEF PInv

LEMMA PInvStep == PInv /\ [ProgramNext]_allVars => PInv'
<1> SUFFICES ASSUME PInv, [ProgramNext]_allVars PROVE PInv'
  OBVIOUS
<1>1. CASE OpRuns
  BY <1>1, BeginHolds, LoopFails, AnswerHolds, FinishHolds DEF OpRuns
<1>2. CASE UNCHANGED allVars
  <2> USE <1>2 DEF allVars, vars, progVars, clientVars, callVars, netVars
  <2>1. TypeOK'
    BY DEF PInv, TypeOK
  <2>2. ProgTypes' /\ LegalCalls' /\ EndsClean'
    BY DEF PInv, ProgTypes, LegalCalls, EndsClean
  <2>3. Inv => Inv'
    BY InvStep
  <2>4. Position => Position'
    BY DEF Position, Left
  <2>5. PairsInv => PairsInv'
    BY DEF PairsInv
  <2> QED BY <2>1, <2>2, <2>3, <2>4, <2>5 DEF PInv
<1> QED BY <1>1, <1>2, CallHolds, ProgramHolds, TerminatedHolds
    DEF ProgramNext, ProgramOver
-----------------------------------------------------------------------------
(* The theorems.                                                           *)

\* The program's variables, and its wrapper's, keep their types.
THEOREM ProgramTypes == ProgramSpec => []ProgramTypeOK
<1>1. PInv => ProgramTypeOK
  BY ScriptFacts DEF PInv, ProgTypes, ProgramTypeOK
<1> QED BY <1>1, PInvInit, PInvStep, PTL DEF ProgramSpec

\* No call of main() or of ReportOnLuns() is refused for what the program did
\* before, whatever failed and whatever the targets answered.
THEOREM CallsAreLegal == ProgramSpec => []LegalCalls
<1>1. PInv => LegalCalls
  BY DEF PInv
<1> QED BY <1>1, PInvInit, PInvStep, PTL DEF ProgramSpec

\* The list that the program reads after it has disconnected is the one that the
\* target reported, although it belongs to the wrapper.
THEOREM ListIsStillThere == ProgramSpec => []ListOutlivesSession
<1>1. PInv => ListOutlivesSession
  BY DEF PInv, PairsInv, Listing, ListOutlivesSession
<1> QED BY <1>1, PInvInit, PInvStep, PTL DEF ProgramSpec

\* A program that was thrown nothing leaves neither a context nor a wrapper on
\* the background task's list.
THEOREM LeavesNothing == ProgramSpec => []EndsClean
<1>1. PInv => EndsClean
  BY DEF PInv
<1> QED BY <1>1, PInvInit, PInvStep, PTL DEF ProgramSpec
=============================================================================
