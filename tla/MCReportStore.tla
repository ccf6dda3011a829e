--------------------------- MODULE MCReportStore ---------------------------
(* ReportStore on small instances. The subtasks of the batch are           *)
(* interchangeable.                                                        *)
EXTENDS ReportStore, TLC

Symmetric == Permutations(Batch)
=============================================================================
