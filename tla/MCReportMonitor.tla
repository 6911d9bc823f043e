-------------------------- MODULE MCReportMonitor --------------------------
(* Small instances of ReportMonitor for TLC. *)
EXTENDS ReportMonitor
=============================================================================
