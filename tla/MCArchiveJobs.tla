--------------------------- MODULE MCArchiveJobs ---------------------------
(* Small instances of ArchiveJobs for TLC. *)
EXTENDS ArchiveJobs
=============================================================================
