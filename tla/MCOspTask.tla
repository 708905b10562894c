----------------------------- MODULE MCOspTask ------------------------------
(***************************************************************************)
(* Instances of OspTask for TLC.                                           *)
(***************************************************************************)
EXTENDS OspTask, TLC

\* Processes of one kind are interchangeable (used by the safety runs only).
ProcSymmetry == Permutations(Session) \cup Permutations(Handler)
=============================================================================
