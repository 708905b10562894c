----------------------------- MODULE MCMoveTask -----------------------------
(***************************************************************************)
(* Instances of MoveTask for TLC.                                          *)
(***************************************************************************)
EXTENDS MoveTask

CONSTANTS o1, g1, s1, s2, s3, h1, h2
=============================================================================
