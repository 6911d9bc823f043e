------------------------ MODULE MCReportObligations ------------------------
(* Small instances of ReportObligations for TLC. *)
EXTENDS ReportObligations
=============================================================================
