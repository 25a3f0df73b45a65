----------------------------- MODULE MCTimeSync -----------------------------
(***************************************************************************)
(* An instance of TimeSync for TLC.                                        *)
(***************************************************************************)
EXTENDS TimeSync

\* A fast path, one that is slower on the way back, and a slow one.
SomePaths == {<<1, 1>>, <<1, 3>>, <<4, 3>>}
=============================================================================
