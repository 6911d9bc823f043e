----------------------------- MODULE MCLifecycle -----------------------------
(* Lifecycle on a small installation: two flows, two releases.  "next" ships one *)
(* migration that "legacy" does not support.                                      *)
EXTENDS Lifecycle

MCSupports == [r \in Releases |-> IF r = LegacyRelease THEN {16} ELSE {16, 17}]
MCInventory == [r \in Releases |-> IF r = LegacyRelease THEN 16 ELSE 17]

\* Request ids differ in nothing, and neither do operation ids: both are first used in the
\* order of their numbers.
Used == {o \in Ops : admission[o].state # "unused"}
InOrder ==
  /\ receipts' = 1 .. Cardinality(receipts')
  /\ Used' = 1 .. Cardinality(Used')

\* The first generation belongs to the first release.
Configured == \A p \in Procs : identity'[p].gen = 1 => identity'[p].rel = LegacyRelease

\* A run of the migrator that finds nothing to apply only refuses operators.
Applies == (migrator = 0 /\ migrator' > 0) => migrator' > schemaVersion

\* Histories in which a renewal straddles its expiry have three commands, flows of the
\* first generation only and no migration; the others have four commands and all the rest.
Straddles == straddled' # {} =>
  /\ Cardinality(receipts') <= 3 /\ migrator' = 0
  /\ \A p \in Procs : identity'[p].gen = 1

MCSpec == Init /\ [][Next /\ InOrder /\ Configured /\ Applies /\ Straddles]_vars /\ Fairness
==============================================================================
