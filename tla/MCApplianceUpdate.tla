-------------------------- MODULE MCApplianceUpdate --------------------------
(* Small instances of ApplianceUpdate for TLC. *)
EXTENDS ApplianceUpdate

\* The second release keeps the schema and reads the next, the third migrates it twice.
MCTarget == <<1, 1, 3>>
MCMinSchema == <<1, 1, 2>>
MCMaxSchema == <<1, 2, 3>>
=============================================================================
