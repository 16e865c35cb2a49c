----------------------------- MODULE MCSession -----------------------------
(* Small instances of Session for TLC.                                     *)
EXTENDS Session

CONSTANTS r1, r2, a, b

\* A discovery may report nothing, one target or two.
SomeReplies == {<<>>, <<a>>, <<a, b>>}
=============================================================================
