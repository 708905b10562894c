---------------------------- MODULE MCSlaveTask -----------------------------
(***************************************************************************)
(* Instances of SlaveTask for TLC.                                         *)
(***************************************************************************)
EXTENDS SlaveTask
=============================================================================
