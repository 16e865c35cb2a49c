-------------------------- MODULE MCSimpleExample --------------------------
(* Small instances of SimpleExample for TLC.                               *)
EXTENDS SimpleExample

CONSTANTS r1, a, b

\* A discovery reports nothing, one target or two.
SomeReplies == {<<>>, <<a>>, <<a, b>>}
=============================================================================
