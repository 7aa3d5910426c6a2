---------------------------- MODULE MCReportPath -----------------------------
(* Instances of ReportPath for TLC. *)
EXTENDS ReportPath, TLC

MCSlots == 1..2
==============================================================================
