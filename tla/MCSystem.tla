------------------------------ MODULE MCSystem ------------------------------
(* Small instances of System for TLC.                                      *)
EXTENDS System

CONSTANTS t1, w1, w2, r1

OneOwner == [w \in Wrappers |-> t1]

\* Discoveries are the subject of module Session; here they report nothing.
NoReplies == {<<>>}
=============================================================================
