--------------------------- MODULE SimpleExample ---------------------------
(***************************************************************************)
(* The program src/examples/simple_example.cpp: main() and ReportOnLuns()  *)
(* as a client of one wrapper (module Session).                            *)
(*                                                                         *)
(* stage is the call main() is about to make or is making; what a target   *)
(* answers to a SCSI request is its status, whether it overflowed, a       *)
(* number of LUNs, and whether the getters that read it find their bytes   *)
(* (they throw when they do not).                                          *)
(***************************************************************************)
EXTENDS Session, Integers

CONSTANT MaxLuns     \* bound: how many LUNs a target reports

ASSUME MaxLunsAssumption == MaxLuns \in Nat

VARIABLES
  stage,
  called,      \* the call of this stage has been made
  luns,        \* how many LUNs ReportOnLuns has still to look at
  status       \* of the last SCSI request: GOOD, BUS RESET or something else

progVars == <<stage, called, luns, status>>
allVars == <<vars, progVars>>

\* The operation each stage calls.
Script ==
  [connect |-> "connect", discoveryLogin |-> "discoveryLogin", discovery |-> "discovery",
   discoveryLogout |-> "discoveryLogout", disconnect |-> "disconnect",
   connectTarget |-> "connect", login |-> "login",
   reportLuns |-> "exec", reportLunsAgain |-> "exec",
   tur |-> "exec", tur2 |-> "exec", inq |-> "exec", supported |-> "exec",
   usn |-> "exec", capacity10 |-> "exec",
   logout |-> "logout", disconnectTarget |-> "disconnect"]

\* Mutant: no iSCSIDisconnect at the end.
StraightToEnd ==
  [connect |-> "discoveryLogin", discoveryLogin |-> "discovery",
   discoveryLogout |-> "disconnect", connectTarget |-> "login", login |-> "reportLuns",
   logout |-> "end", disconnectTarget |-> "end"]

\* The stages that have one way to go when their call returns.
Straight ==
  [connect |-> "discoveryLogin", discoveryLogin |-> "discovery",
   discoveryLogout |-> "disconnect", connectTarget |-> "login", login |-> "reportLuns",
   logout |-> "disconnectTarget", disconnectTarget |-> "end"]

ProgramTypeOK ==
  /\ TypeOK
  /\ stage \in DOMAIN Script \cup {"next lun", "caught", "end", "done"}
  /\ called \in BOOLEAN
  /\ luns \in 0..MaxLuns
  /\ status \in {"good", "bus reset", "other"}

ProgramInit ==
  /\ Init
  /\ stage = "connect" /\ called = FALSE /\ luns = 0 /\ status = "good"
-----------------------------------------------------------------------------
(* The wrapper's methods, called by the program.                           *)

EntersOp(o) ==
  \/ o = "connect" /\ (ConnectRefused \/ ConnectFails
                        \/ ConnectNullContext \/ ConnectBegins)
  \/ o # "connect" /\ (NotListed(o) \/ \E r \in RequestsOf(o) : Remove(o, r))

CallOp ==
  /\ stage \in DOMAIN Script /\ ~called
  /\ EntersOp(Script[stage])
  /\ called' = TRUE
  /\ UNCHANGED <<stage, luns, status>>

\* Steps of the operation that concern the program only by how they end ...
Within(A) == A /\ UNCHANGED progVars

\* ... and the answer of the target, which sets the status of a SCSI request.
Answer ==
  /\ \/ AnsweredWell /\ UNCHANGED status
     \/ /\ AnsweredBadly
        /\ status' \in IF pending = "exec" THEN {"bus reset", "other"} ELSE {status}
  /\ UNCHANGED <<stage, called, luns>>

OpRuns ==
  \/ Within(BeginGoesOn)
  \/ Within(PollFails) \/ Within(ServiceFails) \/ Answer
  \/ Within(LoopThrows) \/ Within(Finish)
-----------------------------------------------------------------------------
(* What the program does in between.                                       *)

Ended(how) == alive /\ called /\ phase = "idle" /\ (outcome = "returned" <=> how = "returns")

\* Mutant: one request object for all requests.
ToSameRequest(s) ==
  /\ stage' = s /\ called' = FALSE /\ status' = "good"
  /\ UNCHANGED <<mIscsi, clientVars, mError, mRedirected, mDiscoveryPairs, executed,
                 registered, callVars, netVars>>

\* The program goes on to stage s; a SCSI request is a new object each time.
To(s) ==
  /\ stage' = s /\ called' = FALSE /\ status' = "good"
  /\ executed' = IF s \in DOMAIN Script /\ Script[s] = "exec" THEN {} ELSE executed
  /\ UNCHANGED <<mIscsi, clientVars, mError, mRedirected, mDiscoveryPairs, registered,
                 callVars, netVars>>

GoStraight ==
  /\ Ended("returns") /\ stage \in DOMAIN Straight
  /\ To(Straight[stage])
  /\ UNCHANGED <<luns, alive>>

\* "No targets defined!" is thrown by the program itself.
AnyTargets ==
  /\ Ended("returns") /\ stage = "discovery"
  /\ To(IF mDiscoveryPairs = <<>> THEN "caught" ELSE "discoveryLogout")
  /\ UNCHANGED <<luns, alive>>

\* DiscoveryList[1], unchecked: if there is none the process may not survive it.
TakeSecond ==
  /\ Ended("returns") /\ stage = "disconnect"
  /\ To("connectTarget")
  /\ alive' \in IF Len(mDiscoveryPairs) > 1 THEN {TRUE} ELSE BOOLEAN
  /\ UNCHANGED luns

\* GetLunCount throws, the answer did not fit (tried once more), or it did.
LunsReported ==
  /\ Ended("returns") /\ stage \in {"reportLuns", "reportLunsAgain"}
  /\ \/ To("caught") /\ UNCHANGED luns
     \/ stage = "reportLuns" /\ To("reportLunsAgain") /\ UNCHANGED luns
     \/ To("next lun") /\ luns' \in 0..MaxLuns
  /\ UNCHANGED alive

\* Mutant: the loop counter is not advanced.
SameLun ==
  /\ alive /\ stage = "next lun"
  /\ \/ luns = 0 /\ To("logout")
     \/ luns > 0 /\ \E s \in {"tur", "caught"} : To(s)
  /\ UNCHANGED <<luns, alive>>

\* Mutant: "<=" for "<".
OneMoreLun ==
  /\ alive /\ stage = "next lun"
  /\ \/ luns = 0 /\ To("logout") /\ UNCHANGED luns
     \/ luns' = luns - 1 /\ \E s \in {"tur", "caught"} : To(s)
  /\ UNCHANGED alive

\* The loop of ReportOnLuns; GetLun may throw.
NextLun ==
  /\ alive /\ stage = "next lun"
  /\ \/ luns = 0 /\ To("logout") /\ UNCHANGED luns
     \/ luns > 0 /\ luns' = luns - 1 /\ \E s \in {"tur", "caught"} : To(s)
  /\ UNCHANGED alive

\* The first TEST UNIT READY of a LUN may report a BUS RESET.
UnitReady ==
  /\ Ended("returns") /\ stage \in {"tur", "tur2"}
  /\ To(IF stage = "tur" /\ status \in {"good", "bus reset"} THEN "tur2"
        ELSE IF stage = "tur2" /\ status = "good" THEN "inq" ELSE "caught")
  /\ UNCHANGED <<luns, alive>>

\* A bad status ends ReportOnLuns with FALSE; a getter may throw.
Inquired ==
  /\ Ended("returns") /\ stage \in {"inq", "supported", "capacity10"}
  /\ \/ To("caught")
     \/ status = "good" /\ stage = "inq" /\ To("supported")
     \/ status = "good" /\ stage = "supported" /\ \E s \in {"usn", "capacity10"} : To(s)
     \/ status = "good" /\ stage = "capacity10" /\ To("next lun")
  /\ UNCHANGED <<luns, alive>>

\* Only the serial number's bad status is let through.
Serial ==
  /\ Ended("returns") /\ stage = "usn"
  /\ To("capacity10") \/ (status = "good" /\ To("caught"))
  /\ UNCHANGED <<luns, alive>>

Caught ==
  /\ Ended("throws")
  /\ To("caught")
  /\ UNCHANGED <<luns, alive>>

\* main() returns, and iscsi is destroyed with its context.
MainReturns ==
  /\ alive /\ stage \in {"caught", "end"}
  /\ mIscsi' = FALSE /\ pending' = None
  /\ stage' = "done" /\ called' = FALSE /\ status' = "good"
  /\ UNCHANGED <<clientVars, mError, mRedirected, mDiscoveryPairs, executed, registered,
                 callVars, moved, reply, alive, luns>>

Program ==
  \/ GoStraight \/ AnyTargets \/ TakeSecond \/ LunsReported \/ NextLun
  \/ UnitReady \/ Inquired \/ Serial \/ Caught \/ MainReturns

ProgramOver == (~alive \/ stage = "done") /\ UNCHANGED allVars

ProgramNext ==
  CallOp \/ OpRuns \/ Program \/ Within(BackGroundThrows) \/ ProgramOver

ProgramSpec == ProgramInit /\ [][ProgramNext]_allVars

\* The program runs on, and targets answer.
FairProgramSpec ==
  /\ ProgramSpec
  /\ WF_allVars(CallOp) /\ WF_allVars(Program)
  /\ WF_allVars(Within(BeginGoesOn)) /\ WF_allVars(Answer)
  /\ WF_allVars(Within(LoopThrows)) /\ WF_allVars(Within(Finish))
-----------------------------------------------------------------------------
(* Properties.                                                             *)

\* The order in which the program calls the wrapper is one it supports: no call
\* is refused for what the program did before.
LegalCalls ==
  outcome \notin {"not listed", "already connected", "previous error", "already executed"}

\* DiscoveryList is a reference: what the program reads through it after it has
\* logged out and disconnected is still what the target reported.
ListOutlivesSession == stage = "connectTarget" /\ alive => mDiscoveryPairs = reply

\* A program that was thrown nothing leaves no context, and nothing on the list.
EndsClean == stage = "end" => ~mIscsi /\ ~connected /\ ~registered

\* main() returns.
MainEnds == <>(stage = "done" \/ ~alive)
=============================================================================
