----------------------------- MODULE MCNvtUpdate -----------------------------
(***************************************************************************)
(* Instances of NvtUpdate for TLC.                                         *)
(***************************************************************************)
EXTENDS NvtUpdate
=============================================================================
