---------------------------- MODULE WriterEpochs ----------------------------
(***************************************************************************)
(* What the admission barrier promises, without operations, leases,        *)
(* releases or migrations: writers come and go inside an epoch; the epoch  *)
(* advances only while the installation is sealed; nobody is inside while  *)
(* it is sealed.                                                           *)
(***************************************************************************)
EXTENDS Naturals

CONSTANT Writers

VARIABLES
  sealed,  \* is the installation in maintenance?
  epoch,   \* the writer generation
  member   \* [Writers -> Nat]: the epoch a writer is inside, 0 outside

vars == <<sealed, epoch, member>>

Init ==
  /\ sealed = FALSE
  /\ epoch = 1
  /\ member = [w \in Writers |-> 0]

Enter(w) ==
  /\ ~sealed
  /\ member[w] = 0
  /\ member' = [member EXCEPT ![w] = epoch]
  /\ UNCHANGED <<sealed, epoch>>

Leave(w) ==
  /\ member[w] # 0
  /\ member' = [member EXCEPT ![w] = 0]
  /\ UNCHANGED <<sealed, epoch>>

Seal ==
  /\ \A w \in Writers : member[w] = 0
  /\ sealed' = TRUE
  /\ UNCHANGED <<epoch, member>>

Advance ==
  /\ sealed
  /\ epoch' = epoch + 1
  /\ UNCHANGED <<sealed, member>>

Reopen ==
  /\ sealed' = FALSE
  /\ UNCHANGED <<epoch, member>>

Next ==
  \/ \E w \in Writers : Enter(w) \/ Leave(w)
  \/ Seal \/ Advance \/ Reopen

Spec == Init /\ [][Next]_vars
=============================================================================
