----------------------------- MODULE MCOtpTask ------------------------------
(***************************************************************************)
(* Instances of OtpTask for TLC.                                           *)
(***************************************************************************)
EXTENDS OtpTask, TLC

\* Processes of one kind are interchangeable (used by the safety runs only).
ProcSymmetry == Permutations(Session) \cup Permutations(Handler)
=============================================================================
