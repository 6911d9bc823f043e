--------------------------- MODULE LifecycleProofs ---------------------------
(***************************************************************************)
(* Theorems about the admission barrier, for any number of flows,          *)
(* operations, queue rows, releases, requests and generations.             *)
(***************************************************************************)
EXTENDS Lifecycle, FiniteSetTheorems, TLAPS

\* A transaction that does not hold the barrier has nothing to publish.
OnlyHoldersWrite == \A p \in Procs : tx[p].phase # "held" => tx[p].effect = NoEffect

\* Only a stored admission has time left.
OnlyStoredLast == \A o \in Ops : admission[o].state # "stored" => admission[o].left = 0

\* A renewal in flight has the row of an operation admitted since the last seal, and the row
\* stays: whoever deletes it waits for the renewal.
RenewalsStand == \A o \in renewing : admission[o].state = "stored" /\ admittedIn[o] = seals

\* The inductive invariant: the writer barrier, the quiet seal, the history of admissions
\* and the migrator's lock hold each other up.
IInv ==
  /\ TypeOK
  /\ WriterFenced
  /\ SealedIsQuiet
  /\ NoOperationOutlivesSeal
  /\ PendingMigrationSealed
  /\ OnlyHoldersWrite
  /\ OnlyStoredLast
  /\ RenewalsStand

USE ConstantsAssumption DEF Phases, Holding

\* An idle flow has a transaction record of the right type.
LEMMA NoTxType == NoTx \in [phase : Phases, effect : Effects]
  BY DEF NoTx, Effects

\* The passing of time keeps a lifetime in range.
LEMMA LessType == \A n \in 0 .. TTL : Less(n) \in 0 .. TTL
  BY DEF Less

\* Deleting a row keeps its type, and so does the passing of time.
LEMMA RowTypes ==
  ASSUME TypeOK, NEW o \in Ops
  PROVE  /\ admission[o] \in AdmissionRow
         /\ Gone \in AdmissionRow
         /\ [admission[o] EXCEPT !.left = Less(@)] \in AdmissionRow
<1>1. admission[o] \in AdmissionRow
  BY DEF TypeOK
<1>2. 0 \in 0 .. TTL /\ 1 \in Generations
  BY DEF Generations
<1>3. Gone \in AdmissionRow
  BY <1>2 DEF AdmissionRow, Gone, Unstored
<1> QED
  BY <1>1, <1>2, <1>3, LessType DEF AdmissionRow

\* The types hold initially.
LEMMA InitType == Init => TypeOK
<1> SUFFICES ASSUME Init PROVE TypeOK
  OBVIOUS
<1>1. 1 \in Generations /\ 0 \in 0 .. TTL
  BY DEF Generations
<1>2. admission \in [Ops -> AdmissionRow] /\ lease \in [Items -> 0 .. TTL]
  BY <1>1 DEF Init, AdmissionRow, Unstored
<1>3. identity \in [Procs -> [rel : Releases, gen : Generations]]
  BY <1>1 DEF Init
<1>4. tx \in [Procs -> [phase : Phases, effect : Effects]]
  BY NoTxType DEF Init
<1> QED
  BY <1>1, <1>2, <1>3, <1>4 DEF Init, TypeOK, Modes

\* Every step keeps the types.
LEMMA NextType == TypeOK /\ [Next]_vars => TypeOK'
<1> SUFFICES ASSUME TypeOK, [Next]_vars PROVE TypeOK'
  OBVIOUS
<1> USE DEF TypeOK
<1>1. ASSUME NEW p \in Procs, NEW o \in Ops, Admit(p, o) PROVE TypeOK'
  <2>1. \A left \in Lifetimes :
          [state |-> "stored", gen |-> generation, rel |-> activeRelease, left |-> left]
             \in AdmissionRow
    BY DEF AdmissionRow, Lifetimes
  <2>2. \A left \in Lifetimes : Admitted(o, left) \in [Ops -> AdmissionRow]
    BY <2>1, RowTypes DEF Admitted
  <2>3. admission' \in [Ops -> AdmissionRow]
    BY <1>1, <2>2 DEF Admit
  <2> QED BY <1>1, <2>3, NoTxType DEF Admit, control
<1>2. ASSUME NEW p \in Procs, Renew(p) \/ AwaitRenewal(p) PROVE TypeOK'
  BY <1>2 DEF Renew, AwaitRenewal, control, flight, history
<1>13. ASSUME NEW p \in Procs, Reclaim(p) PROVE TypeOK'
  <2>1. reclaimed' \in SUBSET Ops
    BY <1>13 DEF Reclaim, Reclaimable, Expired
  <2>2. tx[p] \in [phase : Phases, effect : Effects]
    OBVIOUS
  <2>3. [tx[p] EXCEPT !.phase = "reclaiming"] \in [phase : Phases, effect : Effects]
    BY <2>2
  <2>4. tx' \in [Procs -> [phase : Phases, effect : Effects]]
    BY <1>13, <2>3 DEF Reclaim
  <2> QED BY <1>13, <2>1, <2>4 DEF Reclaim, control, flight, history
<1>14. ASSUME NEW o \in Ops, RenewalEnds(o) PROVE TypeOK'
  <2>2. ASSUME NEW left \in Lifetimes
        PROVE  [admission EXCEPT ![o].left = left] \in [Ops -> AdmissionRow]
    <3>1. admission \in [Ops -> AdmissionRow] /\ left \in 0 .. TTL
      BY DEF Lifetimes
    <3> HIDE DEF TypeOK
    <3>2. [admission[o] EXCEPT !.left = left] \in AdmissionRow
      BY <3>1 DEF AdmissionRow
    <3>3. [admission EXCEPT ![o].left = left]
            = [admission EXCEPT ![o] = [admission[o] EXCEPT !.left = left]]
      BY <3>1
    <3> QED BY <3>1, <3>2, <3>3
  <2>1. admission' \in [Ops -> AdmissionRow]
    BY <1>14, <2>2 DEF RenewalEnds, Renewed, RenewalFails
  <2> QED BY <1>14, <2>1 DEF RenewalEnds, Renewed, RenewalFails, control, flight, history
<1>3. ASSUME NEW p \in Procs, Finish(p) PROVE TypeOK'
  <2>1. operation[p] \in Ops
    BY <1>3 DEF Finish
  <2>2. admission' \in [Ops -> AdmissionRow]
    BY <1>3, <2>1, RowTypes DEF Finish
  <2> QED BY <1>3, <2>2 DEF Finish, control, flight, history
<1>4. ASSUME NEW p \in Procs, BeginAdmitted(p) \/ BeginUnadmitted(p) PROVE TypeOK'
  <2>1. tx[p] \in [phase : Phases, effect : Effects]
    OBVIOUS
  <2>2. \A ph \in {"begun", "held"} :
          [tx[p] EXCEPT !.phase = ph] \in [phase : Phases, effect : Effects]
    BY <2>1
  <2>3. tx' \in [Procs -> [phase : Phases, effect : Effects]]
    BY <1>4, <2>2 DEF BeginAdmitted, BeginUnadmitted
  <2> QED BY <1>4, <2>3 DEF BeginAdmitted, BeginUnadmitted, control, flight, history
<1>5. ASSUME NEW p \in Procs, NEW e \in Effects, Write(p, e) PROVE TypeOK'
  BY <1>5 DEF Write, control, flight, history
<1>6. ASSUME NEW p \in Procs, Commit(p) PROVE TypeOK'
  <2>1. lease' \in [Items -> 0 .. TTL]
    BY <1>6 DEF Commit
  <2> QED BY <1>6, <2>1, NoTxType DEF Commit, control, flight, history
<1>7. ASSUME NEW p \in Procs, Rollback(p) PROVE TypeOK'
  BY <1>7, NoTxType DEF Rollback, control, flight, history
<1>8. ASSUME NEW request \in Requests, OperatorStep(request) PROVE TypeOK'
  <2>1. generation' \in Generations
    BY <1>8 DEF OperatorStep, Drain, Seal, Activate, Resume, RevokeSessions, Command,
                Operator, Generations, control
  <2>2. /\ mode' \in Modes /\ activeRelease' \in Releases /\ seals' \in Nat
        /\ receipts' \in SUBSET Requests /\ schemaVersion' \in Nat
    BY <1>8 DEF OperatorStep, Drain, Seal, Activate, Resume, RevokeSessions, Command,
                Operator, Modes, control
  <2>4. sessions' \in BOOLEAN
    BY <1>8 DEF OperatorStep, Drain, Seal, Activate, Resume, RevokeSessions, Command
  <2>3. UNCHANGED <<admission, lease, migrator, identity, operation, tx, flight,
                    admittedIn, straddled>>
    BY <1>8 DEF OperatorStep, Drain, Seal, Activate, Resume, RevokeSessions, Command,
                Operator
  <2> QED BY <2>1, <2>2, <2>3, <2>4 DEF flight
<1>9. CASE MigratorStep
  BY <1>9 DEF MigratorStep, BeginMigrations, ApplyMigration, EndMigrations, control,
              flight, history
<1>10. ASSUME NEW p \in Procs, NEW id \in [rel : Releases, gen : Generations],
              Restart(p, id)
       PROVE TypeOK'
  BY <1>10, NoTxType DEF Restart, control, flight, history
<1>11. CASE Tick
  <2>1. admission' \in [Ops -> AdmissionRow]
    BY <1>11, RowTypes DEF Tick
  <2>2. lease' \in [Items -> 0 .. TTL]
    BY <1>11, LessType DEF Tick
  <2> QED BY <1>11, <2>1, <2>2 DEF Tick, control, flight, history
<1>12. CASE UNCHANGED vars
  BY <1>12 DEF vars, control, flight, history
<1> QED
  BY <1>1, <1>2, <1>3, <1>4, <1>5, <1>6, <1>7, <1>8, <1>9, <1>10, <1>11, <1>12,
     <1>13, <1>14
     DEF Next, RuntimeStep

\* Every variable always has its type.
THEOREM TypeInvariant == Spec => []TypeOK
  BY InitType, NextType, PTL DEF Spec

-----------------------------------------------------------------------------
\* The parts of the invariant that are not types.
Parts == /\ WriterFenced /\ SealedIsQuiet /\ NoOperationOutlivesSeal
         /\ PendingMigrationSealed /\ OnlyHoldersWrite /\ OnlyStoredLast /\ RenewalsStand

\* The invariant holds initially.
LEMMA InitInv == Init => IInv
<1> SUFFICES ASSUME Init PROVE Parts
  BY InitType DEF IInv, Parts
<1>1. \A o \in Ops : ~Live(o)
  BY DEF Init, Live, Unstored
<1>2. \A p \in Procs : tx[p].phase \notin Holding
  BY DEF Init, NoTx
<1> QED
  BY <1>1, <1>2 DEF Init, Parts, WriterFenced, SealedIsQuiet, NoOperationOutlivesSeal,
                    PendingMigrationSealed, OnlyHoldersWrite, OnlyStoredLast, RenewalsStand,
                    NoTx, Unstored

\* A step of a runtime flow: what it may do is what the assertion allowed, and the control
\* row stays as it is.
LEMMA RuntimeInv ==
  ASSUME IInv, TypeOK', NEW p \in Procs, RuntimeStep(p)
  PROVE  Parts'
<1> USE DEF IInv, Parts
<1>1. UNCHANGED <<control, migrator, identity, seals>>
  BY DEF RuntimeStep, Reclaim, Admit, Renew, AwaitRenewal, Finish, BeginAdmitted,
         BeginUnadmitted, Write, Commit,
         Rollback, history
<1>2. PendingMigrationSealed'
  BY <1>1 DEF PendingMigrationSealed, control
<1>8. OnlyHoldersWrite'
  BY DEF RuntimeStep, Reclaim, Admit, Renew, AwaitRenewal, Finish, BeginAdmitted,
         BeginUnadmitted, Write, Commit,
         Rollback, history, OnlyHoldersWrite, NoTx, TypeOK
<1>9. OnlyStoredLast'
  <2> USE DEF OnlyStoredLast
  <2>1. Gone.left = 0
    BY DEF Gone, Unstored
  <2>2. ASSUME NEW o \in Ops, Admit(p, o) PROVE OnlyStoredLast'
    BY <2>1, <2>2 DEF Admit, Admitted
  <2>4. CASE Finish(p)
    BY <2>1, <2>4 DEF Finish, TypeOK
  <2> QED
    BY <2>2, <2>4
       DEF RuntimeStep, Reclaim, Renew, AwaitRenewal, BeginAdmitted, BeginUnadmitted,
           Write, Commit, Rollback
<1>10. RenewalsStand'
  <2> USE DEF RenewalsStand
  <2>1. ASSUME NEW o \in Ops, Admit(p, o) PROVE RenewalsStand'
    <3>1. o \notin renewing
      BY <2>1 DEF Admit
    <3>2. \A q \in renewing : admission'[q] = admission[q] /\ admittedIn'[q] = admittedIn[q]
      BY <2>1, <3>1 DEF Admit, Admitted, TypeOK
    <3> QED BY <1>1, <2>1, <3>2 DEF Admit
  <2>2. CASE Renew(p)
    BY <1>1, <2>2 DEF Renew, Live, NoOperationOutlivesSeal, TypeOK, history
  <2>3. CASE Finish(p)
    <3>1. \A q \in renewing : admission'[q] = admission[q]
      BY <2>3 DEF Finish, TypeOK
    <3> QED BY <1>1, <2>3, <3>1 DEF Finish, history
  <2>4. CASE UNCHANGED <<admission, renewing, admittedIn>>
    BY <1>1, <2>4
  <2> QED
    BY <2>1, <2>2, <2>3, <2>4
       DEF RuntimeStep, Reclaim, AwaitRenewal, BeginAdmitted, BeginUnadmitted, Write, Commit,
           Rollback, flight, history
<1>3. ASSUME NEW o \in Ops, Admit(p, o) PROVE Parts'
  <2>1. WriterFenced'
    BY <1>1, <1>3 DEF Admit, WriterFenced, IdentityValid, control, NoTx, TypeOK
  <2>2. SealedIsQuiet'
    BY <1>1, <1>3 DEF Admit, SealedIsQuiet, WriterFenced, control
  <2>3. \A q \in Ops : Live(q)' => q = o \/ (Live(q) /\ admittedIn'[q] = admittedIn[q])
    <3>1. \A q \in Ops \ {o} : admission'[q] = admission[q] \/ admission'[q] = Gone
      BY <1>3 DEF Admit, Admitted
    <3>2. Gone.state = "gone"
      BY DEF Gone, Unstored
    <3>3. \A q \in Ops \ {o} : admittedIn'[q] = admittedIn[q]
      BY <1>3 DEF Admit, TypeOK
    <3> QED BY <3>1, <3>2, <3>3 DEF Live
  <2>4. admittedIn'[o] = seals
    BY <1>3 DEF Admit, TypeOK
  <2>5. \A q \in Procs : tx'[q].phase = "held" =>
          q # p /\ tx'[q] = tx[q] /\ operation'[q] = operation[q]
    BY <1>3 DEF Admit, NoTx, TypeOK
  <2>6. \A q \in Ops \ {o} : admittedIn'[q] = admittedIn[q]
    BY <1>3 DEF Admit, TypeOK
  <2>7. \A q \in Procs : tx'[q].phase = "held" /\ operation'[q] # NoOp =>
          admittedIn'[operation'[q]] = seals
    BY <2>4, <2>5, <2>6 DEF NoOperationOutlivesSeal, TypeOK
  <2>8. NoOperationOutlivesSeal'
    BY <1>1, <1>3, <2>3, <2>4, <2>7 DEF NoOperationOutlivesSeal, Admit
  <2> QED BY <1>2, <1>8, <1>9, <1>10, <2>1, <2>2, <2>8
<1>4. CASE Renew(p) \/ AwaitRenewal(p)
  <2>1. UNCHANGED <<admission, tx, operation, admittedIn, lease>>
    BY <1>4 DEF Renew, AwaitRenewal, history
  <2>2. renewing' # renewing => mode # "maintenance"
    BY <1>4 DEF Renew, AwaitRenewal
  <2>3. WriterFenced' /\ SealedIsQuiet'
    BY <1>1, <2>1, <2>2
       DEF WriterFenced, SealedIsQuiet, IdentityValid, Idle, LiveOps, Live, BarrierFree,
           control
  <2> QED BY <1>1, <1>2, <1>8, <1>9, <1>10, <2>1, <2>3 DEF NoOperationOutlivesSeal, Live
<1>5. CASE Finish(p)
  <2>1. \A q \in Ops : Live(q)' => Live(q)
    BY <1>5 DEF Finish, Live, Gone, Unstored, TypeOK, AdmissionRow
  <2>2. UNCHANGED <<tx, renewing, admittedIn, lease>> /\ tx[p] = NoTx
    BY <1>5 DEF Finish, history
  <2>3. \A q \in Procs \ {p} : operation'[q] = operation[q]
    BY <1>5 DEF Finish, TypeOK
  <2>4. tx[p].phase \notin Holding
    BY <2>2 DEF NoTx
  <2>5. WriterFenced'
    BY <1>1, <2>2, <2>3, <2>4 DEF WriterFenced, IdentityValid, control
  <2>6. NoOperationOutlivesSeal'
    BY <1>1, <2>1, <2>2, <2>3, <2>4 DEF NoOperationOutlivesSeal
  <2>7. SealedIsQuiet'
    BY <1>1, <2>1, <2>2 DEF SealedIsQuiet, Idle, LiveOps, BarrierFree, control
  <2> QED BY <1>2, <1>8, <1>9, <1>10, <2>5, <2>6, <2>7
<1>6. CASE \/ Reclaim(p) \/ BeginAdmitted(p) \/ BeginUnadmitted(p)
           \/ \E e \in Effects : Write(p, e)
  <2>1. UNCHANGED <<admission, operation, renewing, admittedIn, lease>>
    BY <1>6 DEF Reclaim, BeginAdmitted, BeginUnadmitted, Write, flight, history
  <2>2. \A q \in Procs \ {p} : tx'[q] = tx[q]
    BY <1>6 DEF Reclaim, BeginAdmitted, BeginUnadmitted, Write, TypeOK
  <2>3. tx'[p].phase \in Holding => AssertOperation(p)
    BY <1>6 DEF Reclaim, AssertOperation, BeginAdmitted, BeginUnadmitted, Write, TypeOK, NoTx
  <2>4. WriterFenced'
    BY <1>1, <2>1, <2>2, <2>3 DEF WriterFenced, IdentityValid, AssertOperation, control
  <2>5. SealedIsQuiet'
    BY <1>1, <2>1, <2>2, <2>3
       DEF SealedIsQuiet, AssertOperation, Idle, LiveOps, Live, BarrierFree, control
  <2>6. \A q \in Ops : Live(q)' <=> Live(q)
    BY <2>1 DEF Live
  <2>7. operation[p] \in Ops \cup {NoOp}
    BY DEF TypeOK
  <2>8. NoOperationOutlivesSeal'
    BY <1>1, <2>1, <2>2, <2>3, <2>6, <2>7 DEF NoOperationOutlivesSeal, AssertOperation
  <2> QED BY <1>2, <1>8, <1>9, <1>10, <2>4, <2>5, <2>8
<1>7. CASE Commit(p) \/ Rollback(p)
  <2>1. UNCHANGED <<admission, operation, renewing, admittedIn>>
    BY <1>7 DEF Commit, Rollback, flight, history
  <2>2. \A q \in Procs : tx'[q].phase \in Holding => tx'[q] = tx[q]
    BY <1>7 DEF Commit, Rollback, TypeOK, NoTx
  <2>3. WriterFenced'
    BY <1>1, <2>1, <2>2 DEF WriterFenced, IdentityValid, control
  <2>4. ASSUME mode = "maintenance" PROVE lease' = lease
    <3>1. tx[p].effect = NoEffect
      BY <2>4 DEF SealedIsQuiet, BarrierFree, OnlyHoldersWrite
    <3>2. \A i \in Items : tx[p].effect.item # i
      BY <3>1 DEF NoEffect
    <3> QED BY <3>2, <1>7 DEF Commit, Rollback, TypeOK
  <2>5. SealedIsQuiet'
    BY <1>1, <2>1, <2>2, <2>4 DEF SealedIsQuiet, Idle, LiveOps, Live, BarrierFree, control
  <2>6. NoOperationOutlivesSeal'
    BY <1>1, <2>1, <2>2 DEF NoOperationOutlivesSeal, Live
  <2> QED BY <1>2, <1>8, <1>9, <1>10, <2>3, <2>5, <2>6
<1> QED
  BY <1>3, <1>4, <1>5, <1>6, <1>7 DEF RuntimeStep

\* An operator command runs alone: it holds the migration lock and the exclusive barrier.
LEMMA OperatorInv ==
  ASSUME IInv, TypeOK', NEW request \in Requests, OperatorStep(request)
  PROVE  Parts'
<1> USE DEF IInv, Parts
<1>1. /\ migrator = 0 /\ BarrierFree
      /\ UNCHANGED <<admission, lease, migrator, identity, operation, tx, renewing,
                     admittedIn>>
  BY DEF OperatorStep, Drain, Seal, Activate, Resume, RevokeSessions, Command, Operator,
         flight
<1>2. schemaVersion' = schemaVersion
  BY DEF OperatorStep, Drain, Seal, Activate, Resume, RevokeSessions, Command, control
<1>3. WriterFenced' /\ OnlyHoldersWrite' /\ OnlyStoredLast' /\ RenewalsStand'
  BY <1>1 DEF WriterFenced, BarrierFree, OnlyHoldersWrite, OnlyStoredLast, RenewalsStand
<1>4. PendingMigrationSealed'
  BY <1>1, <1>2 DEF PendingMigrationSealed, TypeOK
<1>5. mode' = "maintenance" => mode = "maintenance" \/ Idle
  BY DEF OperatorStep, Drain, Seal, Activate, Resume, RevokeSessions, control
<1>6. SealedIsQuiet'
  BY <1>1, <1>5 DEF SealedIsQuiet, Idle, LiveOps, Live, BarrierFree
<1>7. seals' # seals => Idle
  BY DEF OperatorStep, Drain, Seal, Activate, Resume, RevokeSessions
<1>8. NoOperationOutlivesSeal'
  <2>1. CASE seals' = seals
    BY <1>1, <2>1 DEF NoOperationOutlivesSeal, Live
  <2>2. CASE seals' # seals
    BY <1>1, <1>7, <2>2 DEF NoOperationOutlivesSeal, Live, Idle, LiveOps, BarrierFree
  <2> QED BY <2>1, <2>2
<1> QED
  BY <1>3, <1>4, <1>6, <1>8

\* The migrator, a renewal that ends, a dying process and the clock.
LEMMA EnvironmentInv ==
  ASSUME IInv, TypeOK',
         \/ MigratorStep
         \/ \E o \in Ops : RenewalEnds(o)
         \/ \E p \in Procs, id \in [rel : Releases, gen : Generations] : Restart(p, id)
         \/ Tick
  PROVE  Parts'
<1> USE DEF IInv, Parts
<1>1. CASE MigratorStep
  <2>1. UNCHANGED <<mode, generation, activeRelease, admission, lease, identity, operation,
                    tx, flight, history>>
    BY <1>1 DEF MigratorStep, BeginMigrations, ApplyMigration, EndMigrations, control
  <2>2. schemaVersion' # schemaVersion => BarrierFree
    BY <1>1 DEF MigratorStep, BeginMigrations, ApplyMigration, EndMigrations, control
  <2>3. WriterFenced'
    BY <2>1, <2>2 DEF WriterFenced, IdentityValid, BarrierFree
  <2>4. PendingMigrationSealed'
    BY <1>1 DEF PendingMigrationSealed, MigratorStep, BeginMigrations, ApplyMigration,
                EndMigrations, TypeOK, control
  <2> QED
    BY <2>1, <2>3, <2>4 DEF SealedIsQuiet, NoOperationOutlivesSeal, OnlyHoldersWrite,
                            OnlyStoredLast, RenewalsStand, Idle, LiveOps, Live, BarrierFree,
                            flight, history
<1>2. ASSUME NEW p \in Procs, NEW id \in [rel : Releases, gen : Generations], Restart(p, id)
      PROVE  Parts'
  <2>1. UNCHANGED <<control, admission, lease, migrator, renewing, history>>
    BY <1>2 DEF Restart
  <2>2. \A q \in Procs \ {p} :
          tx'[q] = tx[q] /\ operation'[q] = operation[q] /\ identity'[q] = identity[q]
    BY <1>2 DEF Restart, TypeOK
  <2>3. tx'[p] = NoTx
    BY <1>2 DEF Restart, TypeOK
  <2> QED
    BY <2>1, <2>2, <2>3
       DEF WriterFenced, SealedIsQuiet, NoOperationOutlivesSeal, PendingMigrationSealed,
           OnlyHoldersWrite, OnlyStoredLast, RenewalsStand, IdentityValid, Idle, LiveOps,
           Live,
           BarrierFree, NoTx, control, history
<1>3. CASE Tick
  <2>1. UNCHANGED <<control, migrator, identity, operation, tx, renewing, history>>
    BY <1>3 DEF Tick, flight
  <2>2. \A o \in Ops : Live(o)' => Live(o)
    BY <1>3 DEF Tick, Live, Less, TypeOK, AdmissionRow
  <2>3. (\A i \in Items : lease[i] = 0) => (\A i \in Items : lease'[i] = 0)
    BY <1>3 DEF Tick, Less
  <2>5. OnlyStoredLast'
    BY <1>3 DEF Tick, Less, OnlyStoredLast, TypeOK, AdmissionRow
  <2>6. RenewalsStand'
    BY <1>3, <2>1 DEF Tick, RenewalsStand, TypeOK, AdmissionRow, history
  <2>4. SealedIsQuiet'
    BY <2>1, <2>2, <2>3 DEF SealedIsQuiet, Idle, LiveOps, BarrierFree, control
  <2> QED
    BY <2>1, <2>2, <2>4, <2>5, <2>6 DEF WriterFenced, NoOperationOutlivesSeal,
       PendingMigrationSealed, OnlyHoldersWrite, IdentityValid, control, history
<1>4. ASSUME NEW o \in Ops, RenewalEnds(o) PROVE Parts'
  <2>1. UNCHANGED <<control, lease, migrator, identity, operation, tx, seals, admittedIn>>
    BY <1>4 DEF RenewalEnds, Renewed, RenewalFails, history
  <2>2. o \in renewing /\ renewing' \subseteq renewing
    BY <1>4 DEF RenewalEnds, Renewed, RenewalFails
  <2>3. mode # "maintenance" /\ mode' = mode
    BY <2>1, <2>2 DEF SealedIsQuiet, BarrierFree, control
  <2>4. \A q \in Ops : admission'[q].state = admission[q].state
                         /\ (q # o => admission'[q] = admission[q])
    BY <1>4 DEF RenewalEnds, Renewed, RenewalFails, TypeOK, AdmissionRow
  <2>5. \A q \in Ops : Live(q)' => q = o \/ Live(q)
    BY <2>4 DEF Live
  <2>6. NoOperationOutlivesSeal'
    BY <2>1, <2>2, <2>5 DEF NoOperationOutlivesSeal, RenewalsStand
  <2>7. RenewalsStand'
    BY <2>1, <2>2, <2>4 DEF RenewalsStand, TypeOK
  <2>8. OnlyStoredLast'
    BY <2>2, <2>4 DEF OnlyStoredLast, RenewalsStand
  <2> QED
    BY <2>1, <2>3, <2>6, <2>7, <2>8 DEF WriterFenced, SealedIsQuiet, PendingMigrationSealed,
       OnlyHoldersWrite, IdentityValid, control
<1> QED
  BY <1>1, <1>2, <1>3, <1>4

\* The invariant is inductive.
LEMMA NextInv == IInv /\ [Next]_vars => IInv'
<1> SUFFICES ASSUME IInv, [Next]_vars PROVE Parts'
  BY NextType DEF IInv, Parts
<1>1. TypeOK'
  BY NextType DEF IInv
<1>2. CASE UNCHANGED vars
  BY <1>2 DEF IInv, Parts, vars, control, flight, history, WriterFenced, SealedIsQuiet,
              NoOperationOutlivesSeal, PendingMigrationSealed, OnlyHoldersWrite,
              OnlyStoredLast, RenewalsStand, IdentityValid, Idle, LiveOps, Live, BarrierFree
<1> QED
  BY <1>1, <1>2, RuntimeInv, OperatorInv, EnvironmentInv DEF Next

\* The invariant always holds.
THEOREM Inductive == Spec => []IInv
  BY InitInv, NextInv, PTL DEF Spec

\* No transaction of a fenced release or generation, of an unsupported schema, or of a
\* sealed installation is ever open with the barrier held.
THEOREM Fencing == Spec => []WriterFenced
  BY Inductive, PTL DEF IInv

\* A sealed installation has no live admission, no live lease and nothing in flight.
THEOREM Quiescence == Spec => []SealedIsQuiet
  BY Inductive, PTL DEF IInv

\* No operation admitted before a seal works after it.
THEOREM NoResurrection == Spec => []NoOperationOutlivesSeal
  BY Inductive, PTL DEF IInv

\* While a migrator still has migrations to apply, the installation stays sealed.
THEOREM MigratorIsSealed == Spec => []PendingMigrationSealed
  BY Inductive, PTL DEF IInv

-----------------------------------------------------------------------------
\* Sets of operations are finite, and a smaller one has no more members.
LEMMA OpsFinite ==
  ASSUME NEW S \in SUBSET Ops, NEW T \in SUBSET S
  PROVE  /\ IsFiniteSet(S) /\ IsFiniteSet(T)
         /\ Cardinality(T) \in Nat /\ Cardinality(S) \in Nat
         /\ Cardinality(T) <= Cardinality(S)
  BY FS_Subset, FS_CardinalityType

\* Only operations whose renewal straddled its expiry pass the admission limit.
THEOREM Admissions == Spec => []CapacityRespected
<1> DEFINE Counted == LiveOps \ straddled
<1>1. Init => CapacityRespected
  <2> SUFFICES ASSUME Init PROVE CapacityRespected
    OBVIOUS
  <2>1. LiveOps \ straddled = {}
    BY DEF Init, LiveOps, Live, Unstored
  <2>2. Cardinality({}) = 0
    BY FS_EmptySet
  <2> QED BY <2>1, <2>2 DEF CapacityRespected
<1>2. TypeOK /\ CapacityRespected /\ [Next]_vars => CapacityRespected'
  <2> SUFFICES ASSUME TypeOK, CapacityRespected, [Next]_vars PROVE CapacityRespected'
    OBVIOUS
  <2>1. ASSUME NEW p \in Procs, NEW o \in Ops, Admit(p, o) PROVE CapacityRespected'
    <3> DEFINE Kept == LiveOps \ reclaimed
    <3>1. Counted' \subseteq Kept \cup {o}
      <4>1. \A q \in Ops \ {o} : admission'[q] = IF q \in reclaimed THEN Gone ELSE admission[q]
        BY <2>1 DEF Admit, Admitted
      <4>2. Gone.state = "gone"
        BY DEF Gone, Unstored
      <4> QED BY <4>1, <4>2 DEF LiveOps, Live
    <3>2. o \notin Kept /\ Cardinality(Kept) < Capacity
      BY <2>1 DEF Admit, LiveOps, Live
    <3>3. Kept \in SUBSET Ops /\ Kept \cup {o} \in SUBSET Ops
      BY DEF LiveOps
    <3>4. IsFiniteSet(Kept) /\ Cardinality(Kept) \in Nat
      BY <3>3, OpsFinite
    <3>5. Cardinality(Kept \cup {o}) = Cardinality(Kept) + 1
      BY <3>2, <3>4, FS_AddElement
    <3>6. Cardinality(Counted') \in Nat /\ Cardinality(Counted') <= Cardinality(Kept \cup {o})
      BY <3>1, <3>3, OpsFinite
    <3> QED BY <3>2, <3>4, <3>5, <3>6 DEF CapacityRespected
  <2>2. ASSUME Counted' \subseteq Counted PROVE CapacityRespected'
    <3>1. Counted \in SUBSET Ops
      BY DEF LiveOps
    <3>2. Cardinality(Counted') \in Nat /\ Cardinality(Counted) \in Nat
          /\ Cardinality(Counted') <= Cardinality(Counted)
      BY <2>2, <3>1, OpsFinite
    <3> QED BY <3>2 DEF CapacityRespected
  <2>3. ASSUME NEW p \in Procs, Finish(p) PROVE Counted' \subseteq Counted
    <3>1. operation[p] \in Ops
      BY <2>3 DEF Finish, TypeOK
    <3> QED BY <2>3, <3>1 DEF Finish, LiveOps, Live, Gone, Unstored, TypeOK, history
  <2>4. CASE Tick
    <3>1. \A q \in Ops : Live(q)' => Live(q)
      BY <2>4 DEF Tick, Live, Less, TypeOK, AdmissionRow
    <3> QED BY <2>2, <2>4, <3>1 DEF Tick, LiveOps, history
  <2>5. CASE UNCHANGED <<admission, straddled>>
    BY <2>2, <2>5 DEF LiveOps, Live
  <2>6. ASSUME NEW p \in Procs, RuntimeStep(p) PROVE CapacityRespected'
    BY <2>1, <2>2, <2>3, <2>5, <2>6
       DEF RuntimeStep, Reclaim, Renew, AwaitRenewal, BeginAdmitted, BeginUnadmitted, Write,
           Commit, Rollback, history
  <2>7. ASSUME NEW request \in Requests, OperatorStep(request) PROVE CapacityRespected'
    BY <2>5, <2>7 DEF OperatorStep, Drain, Seal, Activate, Resume, RevokeSessions, Command,
                      Operator
  <2>8. ASSUME NEW o \in Ops, RenewalEnds(o) PROVE Counted' \subseteq Counted
    <3>1. CASE RenewalFails(o)
      BY <3>1 DEF RenewalFails, LiveOps, Live, history
    <3>2. CASE Renewed(o)
      <4>1. \A q \in Ops \ {o} : admission'[q] = admission[q]
        BY <3>2 DEF Renewed, TypeOK
      <4>2. straddled \subseteq straddled' /\ (Live(o) \/ o \in straddled')
        BY <3>2 DEF Renewed
      <4> QED BY <4>1, <4>2 DEF LiveOps, Live
    <3> QED BY <2>8, <3>1, <3>2 DEF RenewalEnds
  <2> QED
    BY <2>2, <2>4, <2>5, <2>6, <2>7, <2>8
       DEF Next, MigratorStep, BeginMigrations, ApplyMigration, EndMigrations, Restart, vars,
           history
<1> QED
  BY <1>1, <1>2, TypeInvariant, PTL DEF Spec

-----------------------------------------------------------------------------
\* The schema version changes in sealed maintenance only.
THEOREM SchemaChangesSealed == Spec => MigrationsSealed
<1>1. IInv /\ [Next]_vars => (schemaVersion' # schemaVersion => mode = "maintenance")
  <2> SUFFICES ASSUME IInv, Next, schemaVersion' # schemaVersion PROVE mode = "maintenance"
    BY DEF vars, control
  <2>1. ASSUME NEW p \in Procs, RuntimeStep(p) PROVE FALSE
    BY <2>1 DEF RuntimeStep, Reclaim, Admit, Renew, AwaitRenewal, Finish, BeginAdmitted,
                BeginUnadmitted, Write,
                Commit, Rollback, control
  <2>2. ASSUME NEW request \in Requests, OperatorStep(request) PROVE FALSE
    BY <2>2 DEF OperatorStep, Drain, Seal, Activate, Resume, RevokeSessions, Command, control
  <2>3. CASE MigratorStep
    BY <2>3 DEF MigratorStep, BeginMigrations, ApplyMigration, EndMigrations, control, IInv,
                PendingMigrationSealed
  <2> QED
    BY <2>1, <2>2, <2>3 DEF Next, RenewalEnds, Renewed, RenewalFails, Restart, Tick, control
<1> QED
  BY <1>1, Inductive, PTL DEF Spec, MigrationsSealed

\* A command takes effect at most once: control and revocation come with a new receipt.
THEOREM EffectsOnce == Spec => ReplayNeverReapplies
<1>1. [Next]_vars =>
        ((<<mode, generation, activeRelease>>' # <<mode, generation, activeRelease>>
            \/ (sessions /\ ~sessions'))
         => \E r \in Requests \ receipts : receipts' = receipts \cup {r})
  <2> SUFFICES ASSUME Next,
                      \/ <<mode, generation, activeRelease>>'
                            # <<mode, generation, activeRelease>>
                      \/ sessions /\ ~sessions'
               PROVE  \E r \in Requests \ receipts : receipts' = receipts \cup {r}
    BY DEF vars, control
  <2>1. ASSUME NEW p \in Procs, RuntimeStep(p) PROVE FALSE
    BY <2>1 DEF RuntimeStep, Reclaim, Admit, Renew, AwaitRenewal, Finish, BeginAdmitted,
                BeginUnadmitted, Write,
                Commit, Rollback, control
  <2>2. ASSUME NEW request \in Requests, OperatorStep(request)
        PROVE  request \in Requests \ receipts /\ receipts' = receipts \cup {request}
    BY <2>2 DEF OperatorStep, Drain, Seal, Activate, Resume, RevokeSessions, Command, Operator
  <2>3. CASE MigratorStep \/ Tick \/ (\E o \in Ops : RenewalEnds(o))
             \/ \E p \in Procs, id \in [rel : Releases, gen : Generations] : Restart(p, id)
    BY <2>3 DEF MigratorStep, BeginMigrations, ApplyMigration, EndMigrations, Tick, Restart,
                RenewalEnds, Renewed, RenewalFails, control
  <2> QED
    BY <2>1, <2>2, <2>3 DEF Next
<1> QED
  BY <1>1, PTL DEF Spec, ReplayNeverReapplies

\* Sealed rows stay as they are, until an operator command with a receipt changes sessions.
THEOREM FrozenWhileSealed == Spec => SealedDataFrozen
<1> DEFINE Frozen == mode = "maintenance" =>
                       /\ admission' = admission /\ lease' = lease
                       /\ sessions' = sessions \/ receipts' # receipts
<1>1. IInv /\ [Next]_vars => Frozen
  <2> SUFFICES ASSUME IInv, Next, mode = "maintenance" PROVE Frozen
    BY DEF vars, control
  <2> USE DEF IInv
  <2>1. ASSUME NEW p \in Procs, RuntimeStep(p) PROVE Frozen
    <3>1. tx[p].effect = NoEffect
      BY DEF SealedIsQuiet, BarrierFree, OnlyHoldersWrite
    <3>2. CASE Commit(p)
      <4>1. \A i \in Items : tx[p].effect.item # i
        BY <3>1 DEF NoEffect
      <4>2. tx[p].effect # SignIn
        BY <3>1 DEF NoEffect, SignIn
      <4> QED BY <3>2, <4>1, <4>2 DEF Commit, TypeOK
    <3>3. CASE ~Commit(p)
      <4>1. tx[p].phase \notin Holding
        BY DEF SealedIsQuiet, BarrierFree
      <4> QED
        BY <2>1, <3>3, <4>1 DEF RuntimeStep, Reclaim, Admit, Renew, AwaitRenewal, Finish,
           BeginAdmitted, BeginUnadmitted, Write, Rollback
    <3> QED BY <3>2, <3>3
  <2>2. ASSUME NEW request \in Requests, OperatorStep(request) PROVE Frozen
    BY <2>2 DEF OperatorStep, Drain, Seal, Activate, Resume, RevokeSessions, Command, Operator
  <2>4. ASSUME NEW o \in Ops, RenewalEnds(o) PROVE FALSE
    BY <2>4 DEF RenewalEnds, Renewed, RenewalFails, SealedIsQuiet, BarrierFree
  <2>3. CASE Tick
    <3>1. \A o \in Ops : admission[o].left = 0
      BY DEF SealedIsQuiet, Idle, LiveOps, Live, OnlyStoredLast, TypeOK, AdmissionRow
    <3>2. \A o \in Ops : admission'[o] = admission[o]
      BY <3>1, <2>3 DEF Tick, Less, TypeOK, AdmissionRow
    <3>3. admission' = admission
      BY <3>2, <2>3 DEF Tick, TypeOK
    <3>4. \A i \in Items : lease'[i] = lease[i]
      BY <2>3 DEF Tick, Less, SealedIsQuiet, Idle
    <3>5. lease' = lease
      BY <3>4, <2>3 DEF Tick, TypeOK
    <3> QED BY <3>3, <3>5, <2>3 DEF Tick
  <2> QED
    BY <2>1, <2>2, <2>3, <2>4 DEF Next, MigratorStep, BeginMigrations, ApplyMigration,
                                  EndMigrations, Restart
<1> QED
  BY <1>1, Inductive, PTL DEF Spec, SealedDataFrozen

-----------------------------------------------------------------------------
\* A step that leaves mode, generation and every flow's membership alone is a stutter.
LEMMA EpochsStutter ==
  ASSUME mode' = mode, generation' = generation, \A q \in Procs : Inside[q]' = Inside[q]
  PROVE  UNCHANGED Epochs!vars
<1>1. Inside' = Inside
  BY DEF Inside
<1> QED
  BY <1>1 DEF Epochs!vars

\* A flow that alone changes its membership, to outside or into the active generation,
\* leaves or enters.
LEMMA EpochsMove ==
  ASSUME TypeOK, TypeOK', NEW p \in Procs,
         mode' = mode, generation' = generation,
         \A q \in Procs \ {p} : Inside[q]' = Inside[q],
         \/ Inside[p]' = 0
         \/ Inside[p]' = generation /\ Inside[p] = 0 /\ mode # "maintenance"
         \/ Inside[p]' = Inside[p]
  PROVE  [Epochs!Next]_(Epochs!vars)
<1>1. CASE Inside[p]' = Inside[p]
  BY <1>1, EpochsStutter
<1>2. CASE Inside[p]' = 0 /\ Inside[p] # 0
  <2>1. Inside' = [Inside EXCEPT ![p] = 0]
    BY <1>2 DEF Inside
  <2> QED BY <1>2, <2>1 DEF Epochs!Next, Epochs!Leave
<1>3. CASE Inside[p]' = generation /\ Inside[p] = 0 /\ mode # "maintenance"
  <2>1. Inside' = [Inside EXCEPT ![p] = generation]
    BY <1>3 DEF Inside
  <2> QED BY <1>3, <2>1 DEF Epochs!Next, Epochs!Enter
<1> QED
  BY <1>1, <1>2, <1>3

\* The admission barrier implements the abstract epochs.
THEOREM Refinement == Spec => ImplementsEpochs
<1>1. Init => Epochs!Init
  BY DEF Init, NoTx, Inside, Epochs!Init
<1>2. IInv /\ IInv' /\ [Next]_vars => [Epochs!Next]_(Epochs!vars)
  <2> SUFFICES ASSUME IInv, IInv', [Next]_vars PROVE [Epochs!Next]_(Epochs!vars)
    OBVIOUS
  <2> USE DEF IInv
  <2>1. ASSUME NEW p \in Procs, RuntimeStep(p) PROVE [Epochs!Next]_(Epochs!vars)
    <3>1. UNCHANGED <<control, identity>>
      BY <2>1 DEF RuntimeStep, Reclaim, Admit, Renew, AwaitRenewal, Finish, BeginAdmitted,
                  BeginUnadmitted, Write,
                  Commit, Rollback
    <3>2. \A q \in Procs \ {p} : tx'[q] = tx[q]
      BY <2>1 DEF RuntimeStep, Reclaim, Admit, Renew, AwaitRenewal, Finish, BeginAdmitted,
                  BeginUnadmitted, Write,
                  Commit, Rollback, TypeOK
    <3>3. \A q \in Procs \ {p} : Inside[q]' = Inside[q]
      BY <3>1, <3>2 DEF Inside
    <3>4. tx'[p].phase \in Holding => identity[p].gen = generation /\ mode # "maintenance"
      BY <3>1 DEF WriterFenced, IdentityValid, control
    <3>5. tx[p].phase \in Holding => identity[p].gen = generation
      BY DEF WriterFenced, IdentityValid
    <3>6. \/ Inside[p]' = 0
          \/ Inside[p]' = generation /\ Inside[p] = 0 /\ mode # "maintenance"
          \/ Inside[p]' = Inside[p]
      BY <3>1, <3>4, <3>5 DEF Inside
    <3> QED BY <3>1, <3>3, <3>6, EpochsMove DEF control
  <2>2. ASSUME NEW request \in Requests, OperatorStep(request)
        PROVE  [Epochs!Next]_(Epochs!vars)
    <3>1. BarrierFree /\ UNCHANGED <<tx, identity>>
      BY <2>2 DEF OperatorStep, Drain, Seal, Activate, Resume, RevokeSessions, Command,
                  Operator
    <3>2. Inside' = Inside /\ \A w \in Procs : Inside[w] = 0
      BY <3>1 DEF Inside, BarrierFree
    <3>3. \/ mode' = "maintenance" /\ mode # "maintenance" /\ generation' = generation
          \/ mode' = mode /\ generation' \in {generation, generation + 1}
             /\ (generation' # generation => mode = "maintenance")
          \/ mode' # "maintenance" /\ generation' = generation
      BY <2>2 DEF OperatorStep, Drain, Seal, Activate, Resume, RevokeSessions, Command,
                  control
    <3> QED
      BY <3>2, <3>3 DEF Epochs!Next, Epochs!Seal, Epochs!Advance, Epochs!Reopen, Epochs!vars
  <2>3. ASSUME NEW p \in Procs, NEW id \in [rel : Releases, gen : Generations],
               Restart(p, id)
        PROVE  [Epochs!Next]_(Epochs!vars)
    <3>1. mode' = mode /\ generation' = generation
      BY <2>3 DEF Restart, control
    <3>2. \A q \in Procs \ {p} : Inside[q]' = Inside[q]
      BY <2>3 DEF Restart, Inside, TypeOK
    <3>3. Inside[p]' = 0
      BY <2>3 DEF Restart, Inside, NoTx, TypeOK
    <3> QED BY <3>1, <3>2, <3>3, EpochsMove
  <2>4. CASE MigratorStep \/ Tick \/ (\E o \in Ops : RenewalEnds(o)) \/ UNCHANGED vars
    <3>1. UNCHANGED <<mode, generation, tx, identity>>
      BY <2>4 DEF MigratorStep, BeginMigrations, ApplyMigration, EndMigrations, Tick, vars,
                  RenewalEnds, Renewed, RenewalFails, control
    <3> QED BY <3>1, EpochsStutter DEF Inside
  <2> QED
    BY <2>1, <2>2, <2>3, <2>4 DEF Next
<1> QED
  BY <1>1, <1>2, Inductive, PTL DEF Spec, ImplementsEpochs, Epochs!Spec
=============================================================================
