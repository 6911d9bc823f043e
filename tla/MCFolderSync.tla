---------------------------- MODULE MCFolderSync ----------------------------
(* Small instances of FolderSync for TLC. *)
EXTENDS FolderSync
=============================================================================
