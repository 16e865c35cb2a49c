------------------------------ MODULE Handoff ------------------------------
(***************************************************************************)
(* What the comments of iSCSILibWrapper.cpp (lines 81-88 and 143-145)      *)
(* promise of a connection that is shared by a caller and the background   *)
(* task: at any time it is in the hands of one of them at most, the caller *)
(* has to take it off the list to use it and puts it back when done, the   *)
(* background task lets go of whatever it has taken, and a connection that *)
(* failed is lost: nobody has it again.                                    *)
(***************************************************************************)
CONSTANT Wrappers

VARIABLE holder   \* who has each wrapper's connection

Holders == {"none", "caller", "list", "thread", "lost"}

HandoffTypeOK == holder \in [Wrappers -> Holders]

HandoffInit == holder = [w \in Wrappers |-> "none"]

Moves(w, from, to) == holder[w] = from /\ holder' = [holder EXCEPT ![w] = to]

Start(w) == Moves(w, "none", "caller")     \* a new connection is its caller's
Take(w)  == Moves(w, "list", "caller")     \* RemoveConnection
Hand(w)  == Moves(w, "caller", "list")     \* AddConnection
End(w)   == Moves(w, "caller", "none")     \* a disconnection
Fail(w)  == Moves(w, "caller", "lost")     \* an exception
Never(w) == Moves(w, "none", "lost")       \* the wrapper is destroyed

\* The background task serves one connection at a time.
Serve(w) ==
  /\ \A v \in Wrappers : holder[v] # "thread"
  /\ Moves(w, "list", "thread")

Release(w) == Moves(w, "thread", "list")

HandoffNext ==
  \E w \in Wrappers :
    \/ Start(w) \/ Take(w) \/ Hand(w) \/ End(w) \/ Fail(w) \/ Never(w)
    \/ Serve(w) \/ Release(w)

HandoffSpec == HandoffInit /\ [][HandoffNext]_holder

LetsGo == \A w \in Wrappers : WF_holder(Release(w))

FairHandoffSpec == HandoffSpec /\ LetsGo
=============================================================================
