------------------------ MODULE MCScannerConnection ------------------------
(***************************************************************************)
(* Instances of ScannerConnection for TLC.                                 *)
(***************************************************************************)
EXTENDS ScannerConnection
=============================================================================
