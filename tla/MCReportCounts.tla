--------------------------- MODULE MCReportCounts ---------------------------
(***************************************************************************)
(* Instances of ReportCounts for TLC.                                      *)
(***************************************************************************)
EXTENDS ReportCounts, TLC

CONSTANTS r1, r2, n1, other, m1, s1, client, scan

Ids == Permutations(Result)
=============================================================================
