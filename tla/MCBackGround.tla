---------------------------- MODULE MCBackGround ----------------------------
(* Small instances of BackGround for TLC.                                  *)
EXTENDS BackGround

CONSTANTS t1, t2, w1, w2, w3

\* One thread owns every wrapper: the program as simple_example.cpp is one.
OneOwner == [w \in Wrappers |-> t1]

\* The first wrapper is t1's, the others are t2's.
TwoOwners == [w \in Wrappers |-> IF w = w1 THEN t1 ELSE t2]
=============================================================================
