------------------------------ MODULE Lifecycle ------------------------------
(***************************************************************************)
(* The installation-wide admission barrier (migration 016 and              *)
(* lib/server/lifecycle*.ts): one control row, a table of renewable        *)
(* operation admissions, the queue leases that sealing must wait for, the  *)
(* operator's commands with their replay receipts, and the migrator.       *)
(*                                                                         *)
(* A "process" is one concurrent flow of the runtime: a request handler or *)
(* one worker iteration.  Every runtime transaction that writes holds the  *)
(* writer barrier in shared mode from its first assertion to its commit;   *)
(* the operator and the migrator take it in exclusive mode for the whole   *)
(* of one transaction, which is therefore a single action here.  The       *)
(* database functions that admit and renew hold it in shared mode: each is *)
(* several actions too, since others see the table as it was before them   *)
(* until they commit.                                                      *)
(*                                                                         *)
(* Wall-clock expiry is a remaining lifetime, counted in clock ticks.      *)
(***************************************************************************)
EXTENDS Naturals, FiniteSets

CONSTANTS
  Procs,          \* concurrent flows of the runtime (requests, worker iterations)
  Ops,            \* operation ids; a random UUID, so never reused
  Items,          \* rows of the six leased queues
  Requests,       \* operator request ids
  Releases,       \* release identifiers
  LegacyRelease,  \* the release the control row starts with
  Supports,       \* [Releases -> SUBSET Nat]: schema versions a release may run on
  Inventory,      \* [Releases -> Nat]: newest migration shipped with a release
  InitialSchema,  \* schema version at installation
  MaxGeneration,  \* bound on the writer generation
  Capacity,       \* most live admissions (1000 in the code)
  CleanupLimit,   \* expired admissions reclaimed by one admission (100 in the code)
  TTL,            \* lifetime of an admission or a lease, in clock ticks
  NoOp,           \* a flow outside every admitted operation
  NoItem          \* an effect that touches no queue row

ASSUME ConstantsAssumption ==
  /\ LegacyRelease \in Releases
  /\ Supports \in [Releases -> SUBSET Nat]
  /\ Inventory \in [Releases -> Nat \ {0}]
  /\ InitialSchema \in Nat \ {0}
  /\ MaxGeneration \in Nat \ {0}
  /\ Capacity \in Nat /\ CleanupLimit \in Nat
  /\ TTL \in Nat \ {0}
  /\ NoOp \notin Ops /\ NoItem \notin Items
  /\ IsFiniteSet(Ops)

VARIABLES
  mode, generation, activeRelease, schemaVersion,   \* app_lifecycle_control
  admission,    \* app_lifecycle_operations
  lease,        \* remaining lease of each queue row, 0 when there is none
  receipts,     \* request ids recorded in app_lifecycle_events
  sessions,     \* are there any rows in auth_session?
  migrator,     \* target of the run that holds MIGRATION_LOCK, 0 when nobody does
  identity,     \* release and generation a flow's connections are pinned to
  operation,    \* the admitted operation a flow runs in
  tx,           \* the flow's open transaction
  renewing,     \* admissions whose row a renewal in flight has updated
  returned,     \* flows whose handler has returned and that await a renewal
  reclaimed,    \* admissions whose row the admission in flight deletes
  seals,        \* history: number of seals so far
  admittedIn,   \* history: number of seals when an operation was admitted
  straddled     \* history: operations renewed after others had seen them expire

control == <<mode, generation, activeRelease, schemaVersion>>
flight == <<renewing, returned, reclaimed>>
history == <<seals, admittedIn, straddled>>
vars == <<control, admission, lease, receipts, sessions, migrator, identity,
          operation, tx, flight, history>>

Modes == {"open", "draining", "maintenance"}
Generations == 1 .. MaxGeneration
\* What a transaction will publish when it commits: a session, or a change of one lease.
NoEffect == [kind |-> "none", item |-> NoItem]
SignIn == [kind |-> "signIn", item |-> NoItem]
LeaseEffects == [kind : {"claim", "extend", "release"}, item : Items]
Effects == {NoEffect, SignIn} \cup LeaseEffects
NoTx == [phase |-> "none", effect |-> NoEffect]
\* Phases in which a transaction holds the writer barrier: a runtime transaction after its
\* first assertion, and an admission from its DELETE to its end.
Holding == {"held", "reclaiming"}
Phases == {"none", "begun"} \cup Holding
\* What is left of a new lifetime (90 s) when the statement that set it commits: it is
\* cancelled after 30 s.
Lifetimes == 1 .. TTL

\* A row of app_lifecycle_operations: "unused" before it is inserted, "gone" once deleted.
AdmissionRow == [state : {"unused", "stored", "gone"}, gen : Generations,
                 rel : Releases, left : 0 .. TTL]

Unstored == [state |-> "unused", gen |-> 1, rel |-> LegacyRelease, left |-> 0]
Gone == [Unstored EXCEPT !.state = "gone"]

TypeOK ==
  /\ mode \in Modes
  /\ generation \in Generations
  /\ activeRelease \in Releases
  /\ schemaVersion \in Nat
  /\ admission \in [Ops -> AdmissionRow]
  /\ lease \in [Items -> 0 .. TTL]
  /\ receipts \in SUBSET Requests
  /\ sessions \in BOOLEAN
  /\ migrator \in Nat
  /\ identity \in [Procs -> [rel : Releases, gen : Generations]]
  /\ operation \in [Procs -> Ops \cup {NoOp}]
  /\ tx \in [Procs -> [phase : Phases, effect : Effects]]
  /\ renewing \in SUBSET Ops /\ returned \in SUBSET Procs /\ reclaimed \in SUBSET Ops
  /\ seals \in Nat
  /\ admittedIn \in [Ops -> Nat]
  /\ straddled \in SUBSET Ops

Init ==
  /\ mode = "open" /\ generation = 1 /\ activeRelease = LegacyRelease
  /\ schemaVersion = InitialSchema
  /\ admission = [o \in Ops |-> Unstored]
  /\ lease = [i \in Items |-> 0]
  /\ receipts = {} /\ sessions = FALSE /\ migrator = 0
  /\ identity = [p \in Procs |-> [rel |-> LegacyRelease, gen |-> 1]]
  /\ operation = [p \in Procs |-> NoOp]
  /\ tx = [p \in Procs |-> NoTx]
  /\ renewing = {} /\ returned = {} /\ reclaimed = {}
  /\ seals = 0 /\ admittedIn = [o \in Ops |-> 0] /\ straddled = {}

-----------------------------------------------------------------------------
(* Admissions and assertions: the database functions of migration 016.     *)

Live(o) == admission[o].state = "stored" /\ admission[o].left > 0
LiveOps == {o \in Ops : Live(o)}
Expired == {o \in Ops : admission[o].state = "stored" /\ admission[o].left = 0}

\* aster_runtime_identity_valid: the connection's pinned identity against the control row.
IdentityValid(p) ==
  /\ identity[p].rel = activeRelease
  /\ identity[p].gen = generation
  /\ schemaVersion \in Supports[identity[p].rel]

\* The admission belongs to the generation and release that are active now.
Current(o) == admission[o].gen = generation /\ admission[o].rel = activeRelease

\* Faulty variant: flows outside an operation may write while the installation drains.
AssertWhileDraining(p) ==
  /\ IdentityValid(p) /\ mode # "maintenance"
  /\ operation[p] # NoOp => Live(operation[p]) /\ Current(operation[p])

\* aster_assert_operation: run by withTenant and by every write trigger.
AssertOperation(p) ==
  /\ IdentityValid(p)
  /\ mode # "maintenance"
  /\ IF operation[p] = NoOp
       THEN mode = "open"
       ELSE Live(operation[p]) /\ Current(operation[p])

\* Rows one admission reclaims: every expired one, up to the limit.
Reclaimable(D) ==
  /\ D \subseteq Expired
  /\ D = Expired \/ Cardinality(D) = CleanupLimit

\* The table when an admission commits: its own row, and without the reclaimed ones.
Admitted(o, left) ==
  [q \in Ops |->
     IF q = o THEN [state |-> "stored", gen |-> generation, rel |-> activeRelease,
                    left |-> left]
     ELSE IF q \in reclaimed THEN Gone
     ELSE admission[q]]

\* aster_admit_operation: one admission at a time, under the shared barrier and the
\* admission lock.  Its DELETE picks the rows that are expired when it begins.
Reclaim(p) ==
  /\ operation[p] = NoOp /\ tx[p] = NoTx
  /\ \A q \in Procs : tx[q].phase # "reclaiming"
  /\ IdentityValid(p)
  /\ mode = "open"
  /\ tx' = [tx EXCEPT ![p].phase = "reclaiming"]
  /\ \E D \in SUBSET Expired : Reclaimable(D) /\ reclaimed' = D
  /\ UNCHANGED <<control, admission, lease, receipts, sessions, migrator, identity,
                 operation, renewing, returned, history>>

\* Faulty variant: the limit is compared with > and not with >=.
AdmitOneMore(p, o) ==
  /\ tx[p].phase = "reclaiming" /\ reclaimed \cap renewing = {}
  /\ Cardinality(LiveOps \ reclaimed) <= Capacity
  /\ admission[o].state = "unused"
  /\ \E left \in Lifetimes : admission' = Admitted(o, left)
  /\ operation' = [operation EXCEPT ![p] = o]
  /\ tx' = [tx EXCEPT ![p] = NoTx]
  /\ reclaimed' = {}
  /\ admittedIn' = [admittedIn EXCEPT ![o] = seals]
  /\ UNCHANGED <<control, lease, receipts, sessions, migrator, identity, renewing,
                 returned, seals, straddled>>

\* The DELETE has waited for the renewals that had its rows locked, and deletes them even
\* if they were renewed; the live rows that are left are below the limit; the new row is
\* inserted.  Nobody but another admission could tell the commit from these statements.
Admit(p, o) ==
  /\ tx[p].phase = "reclaiming"
  /\ reclaimed \cap renewing = {}
  /\ Cardinality(LiveOps \ reclaimed) < Capacity
  /\ admission[o].state = "unused"
  /\ \E left \in Lifetimes : admission' = Admitted(o, left)
  /\ operation' = [operation EXCEPT ![p] = o]
  /\ tx' = [tx EXCEPT ![p] = NoTx]
  /\ reclaimed' = {}
  /\ admittedIn' = [admittedIn EXCEPT ![o] = seals]
  /\ UNCHANGED <<control, lease, receipts, sessions, migrator, identity, renewing,
                 returned, seals, straddled>>

\* Faulty variant: an expired admission can still be renewed.
RenewExpired(p) ==
  LET o == operation[p] IN
  /\ o # NoOp /\ p \notin returned /\ o \notin renewing
  /\ mode # "maintenance" /\ IdentityValid(p)
  /\ Current(o) /\ admission[o].state = "stored" /\ o \notin reclaimed
  /\ renewing' = renewing \cup {o}
  /\ UNCHANGED <<control, admission, lease, receipts, sessions, migrator, identity,
                 operation, tx, returned, reclaimed, history>>

\* aster_renew_operation, from the timer of withLifecycleOperation, one at a time: the
\* UPDATE finds its row live and locks it.
Renew(p) ==
  LET o == operation[p] IN
  /\ o # NoOp /\ p \notin returned /\ o \notin renewing
  /\ mode # "maintenance" /\ IdentityValid(p)
  /\ Current(o) /\ Live(o) /\ o \notin reclaimed
  /\ renewing' = renewing \cup {o}
  /\ UNCHANGED <<control, admission, lease, receipts, sessions, migrator, identity,
                 operation, tx, returned, reclaimed, history>>

\* The renewal commits.  By then everyone else may have seen the row expire.
Renewed(o) ==
  /\ o \in renewing
  /\ \E left \in Lifetimes : admission' = [admission EXCEPT ![o].left = left]
  /\ renewing' = renewing \ {o}
  /\ straddled' = IF Live(o) THEN straddled ELSE straddled \cup {o}
  /\ UNCHANGED <<control, lease, receipts, sessions, migrator, identity, operation, tx,
                 returned, reclaimed, seals, admittedIn>>

\* The renewal is cancelled by its time limit or loses its connection.
RenewalFails(o) ==
  /\ o \in renewing
  /\ renewing' = renewing \ {o}
  /\ UNCHANGED <<control, admission, lease, receipts, sessions, migrator, identity,
                 operation, tx, returned, reclaimed, history>>

\* The handler has returned and its timer is cleared, but a renewal is still in flight.
AwaitRenewal(p) ==
  /\ operation[p] \in renewing /\ tx[p] = NoTx
  /\ p \notin returned
  /\ returned' = returned \cup {p}
  /\ UNCHANGED <<control, admission, lease, receipts, sessions, migrator, identity,
                 operation, tx, renewing, reclaimed, history>>

\* Faulty variant: finishing deletes the admission even in sealed maintenance.
FinishSealed(p) ==
  LET o == operation[p] IN
  /\ o # NoOp /\ tx[p] = NoTx /\ o \notin renewing \cup reclaimed
  /\ admission' = [admission EXCEPT ![o] = Gone]
  /\ operation' = [operation EXCEPT ![p] = NoOp]
  /\ returned' = returned \ {p}
  /\ UNCHANGED <<control, lease, receipts, sessions, migrator, identity, tx, renewing,
                 reclaimed, history>>

\* aster_finish_operation: a sealed or fenced finish leaves the row to expire.  The DELETE
\* waits for an admission that is deleting the same row.
Finish(p) ==
  LET o == operation[p] IN
  /\ o # NoOp /\ tx[p] = NoTx /\ o \notin renewing \cup reclaimed
  /\ admission' = IF mode # "maintenance" /\ IdentityValid(p)
                     THEN [admission EXCEPT ![o] = Gone]
                     ELSE admission
  /\ operation' = [operation EXCEPT ![p] = NoOp]
  /\ returned' = returned \ {p}
  /\ UNCHANGED <<control, lease, receipts, sessions, migrator, identity, tx, renewing,
                 reclaimed, history>>

-----------------------------------------------------------------------------
(* Runtime transactions.                                                   *)

\* withTenant asserts before anything else when the flow runs in an operation.
BeginAdmitted(p) ==
  /\ tx[p] = NoTx /\ operation[p] # NoOp /\ p \notin returned
  /\ AssertOperation(p)
  /\ tx' = [tx EXCEPT ![p].phase = "held"]
  /\ UNCHANGED <<control, admission, lease, receipts, sessions, migrator, identity,
                 operation, flight, history>>

\* Outside an operation the transaction starts without the barrier.
BeginUnadmitted(p) ==
  /\ tx[p] = NoTx /\ operation[p] = NoOp
  /\ tx' = [tx EXCEPT ![p].phase = "begun"]
  /\ UNCHANGED <<control, admission, lease, receipts, sessions, migrator, identity,
                 operation, flight, history>>

\* No other open transaction has the queue row locked.
Unlocked(i) == \A q \in Procs : tx[q].effect.item # i

\* Claims skip rows whose lease is live; extending or releasing needs a live one.
Allowed(e) ==
  \/ e = SignIn
  \/ /\ e \in LeaseEffects /\ Unlocked(e.item)
     /\ (e.kind = "claim") <=> (lease[e.item] = 0)

\* A write statement: the trigger asserts again and so takes the barrier if need be.
Write(p, e) ==
  /\ tx[p].phase \in {"begun", "held"} /\ tx[p].effect = NoEffect
  /\ AssertOperation(p)
  /\ Allowed(e)
  /\ tx' = [tx EXCEPT ![p] = [phase |-> "held", effect |-> e]]
  /\ UNCHANGED <<control, admission, lease, receipts, sessions, migrator, identity,
                 operation, flight, history>>

Commit(p) ==
  LET e == tx[p].effect IN
  /\ tx[p].phase \in {"begun", "held"}
  /\ sessions' = (sessions \/ e = SignIn)
  /\ lease' = [i \in Items |->
       IF e.item # i THEN lease[i] ELSE IF e.kind = "release" THEN 0 ELSE TTL]
  /\ tx' = [tx EXCEPT ![p] = NoTx]
  /\ UNCHANGED <<control, admission, receipts, migrator, identity, operation, flight, history>>

\* Also an admission that meets the limit (P1603): its deletions are undone.
Rollback(p) ==
  /\ tx[p].phase # "none"
  /\ tx' = [tx EXCEPT ![p] = NoTx]
  /\ reclaimed' = IF tx[p].phase = "reclaiming" THEN {} ELSE reclaimed
  /\ UNCHANGED <<control, admission, lease, receipts, sessions, migrator, identity,
                 operation, renewing, returned, history>>

-----------------------------------------------------------------------------
(* The operator: controlLifecycle and assertSealedMaintenance hold         *)
(* MIGRATION_LOCK and the exclusive barrier until they commit.  A command  *)
(* whose request id has a receipt changes nothing: it returns the receipt, *)
(* or fails when the arguments differ.                                     *)

\* Faulty variant: the operator takes no barrier.
NoBarrier == TRUE

BarrierFree == (\A p \in Procs : tx[p].phase \notin Holding) /\ renewing = {}
Idle == LiveOps = {} /\ \A i \in Items : lease[i] = 0

\* Faulty variants: a command beside a running migrator, and a request applied twice.
OperatorBesideMigrator(request) ==
  /\ BarrierFree
  /\ request \notin receipts
  /\ receipts' = receipts \cup {request}
  /\ UNCHANGED <<admission, lease, migrator, identity, operation, tx, flight,
                 admittedIn, straddled>>
OperatorReplaying(request) ==
  /\ migrator = 0 /\ BarrierFree
  /\ receipts' = receipts \cup {request}
  /\ UNCHANGED <<admission, lease, migrator, identity, operation, tx, flight,
                 admittedIn, straddled>>

Operator(request) ==
  /\ migrator = 0
  /\ BarrierFree
  /\ request \notin receipts
  /\ receipts' = receipts \cup {request}
  /\ UNCHANGED <<admission, lease, migrator, identity, operation, tx, flight,
                 admittedIn, straddled>>

Command(request, expectedGeneration) ==
  /\ Operator(request)
  /\ expectedGeneration = generation
  /\ UNCHANGED <<schemaVersion, sessions>>

Drain(request, expectedGeneration) ==
  /\ Command(request, expectedGeneration)
  /\ mode # "maintenance"
  /\ mode' = "draining"
  /\ UNCHANGED <<generation, activeRelease, seals>>

\* Faulty variant: sealing waits for admitted operations but not for queue leases.
SealUnderLease(request, expectedGeneration) ==
  /\ Command(request, expectedGeneration)
  /\ mode # "open" /\ LiveOps = {}
  /\ mode' = "maintenance"
  /\ seals' = seals + 1
  /\ UNCHANGED <<generation, activeRelease>>

Seal(request, expectedGeneration) ==
  /\ Command(request, expectedGeneration)
  /\ mode # "open"
  /\ Idle
  /\ mode' = "maintenance"
  /\ seals' = seals + 1
  /\ UNCHANGED <<generation, activeRelease>>

\* Faulty variant: activation does not require sealed maintenance.
ActivateUnsealed(request, expectedGeneration, release) ==
  /\ Command(request, expectedGeneration)
  /\ Idle /\ generation < MaxGeneration
  /\ generation' = generation + 1
  /\ activeRelease' = release
  /\ UNCHANGED <<mode, seals>>

Activate(request, expectedGeneration, release) ==
  /\ Command(request, expectedGeneration)
  /\ mode = "maintenance" /\ Idle
  /\ generation < MaxGeneration
  /\ generation' = generation + 1
  /\ activeRelease' = release
  /\ UNCHANGED <<mode, seals>>

Resume(request, expectedGeneration, release) ==
  /\ Command(request, expectedGeneration)
  /\ mode = "maintenance"
  /\ activeRelease = release
  /\ mode' = "open"
  /\ UNCHANGED <<generation, activeRelease, seals>>

\* revokeRestoredSessions: disaster recovery only, in sealed and drained maintenance.
RevokeSessions(request) ==
  /\ Operator(request)
  /\ mode = "maintenance" /\ Idle
  /\ sessions' = FALSE
  /\ UNCHANGED <<control, seals>>

-----------------------------------------------------------------------------
(* applyMigrations: one run holds MIGRATION_LOCK for its whole session but  *)
(* reads the mode only once, before its first migration.                   *)

BeginMigrations(release) ==
  /\ migrator = 0
  /\ Inventory[release] >= schemaVersion       \* else MIGRATION_CHECKSUM_MISMATCH
  /\ Inventory[release] > schemaVersion => mode = "maintenance"
  /\ migrator' = Inventory[release]
  /\ UNCHANGED <<control, admission, lease, receipts, sessions, identity, operation,
                 tx, flight, history>>

ApplyMigration ==
  /\ migrator > schemaVersion
  /\ BarrierFree
  /\ schemaVersion' = schemaVersion + 1
  /\ UNCHANGED <<mode, generation, activeRelease, admission, lease, receipts, sessions,
                 migrator, identity, operation, tx, flight, history>>

\* The grants transaction, or an error or crash at any point of the run.
EndMigrations ==
  /\ migrator > 0
  /\ migrator' = 0
  /\ UNCHANGED <<control, admission, lease, receipts, sessions, identity, operation,
                 tx, flight, history>>

-----------------------------------------------------------------------------
(* The environment.                                                        *)

\* A process dies and a flow starts in one with any release and generation configured.  A
\* renewal it had sent still ends in the database; an admission is undone, or was complete.
Restart(p, id) ==
  /\ identity' = [identity EXCEPT ![p] = id]
  /\ operation' = [operation EXCEPT ![p] = NoOp]
  /\ tx' = [tx EXCEPT ![p] = NoTx]
  /\ reclaimed' = IF tx[p].phase = "reclaiming" THEN {} ELSE reclaimed
  /\ returned' = returned \ {p}
  /\ UNCHANGED <<control, admission, lease, receipts, sessions, migrator, renewing, history>>

Less(n) == IF n = 0 THEN 0 ELSE n - 1

Tick ==
  /\ admission' = [o \in Ops |-> [admission[o] EXCEPT !.left = Less(@)]]
  /\ lease' = [i \in Items |-> Less(lease[i])]
  /\ UNCHANGED <<control, receipts, sessions, migrator, identity, operation, tx, flight,
                 history>>

RuntimeStep(p) ==
  \/ Reclaim(p)
  \/ \E o \in Ops : Admit(p, o)
  \/ Renew(p) \/ AwaitRenewal(p) \/ Finish(p)
  \/ BeginAdmitted(p) \/ BeginUnadmitted(p)
  \/ \E e \in Effects : Write(p, e)
  \/ Commit(p) \/ Rollback(p)

RenewalEnds(o) == Renewed(o) \/ RenewalFails(o)

OperatorStep(request) ==
  \/ \E g \in Generations :
       \/ Drain(request, g) \/ Seal(request, g)
       \/ \E r \in Releases : Activate(request, g, r) \/ Resume(request, g, r)
  \/ RevokeSessions(request)

MigratorStep == (\E r \in Releases : BeginMigrations(r)) \/ ApplyMigration \/ EndMigrations

Next ==
  \/ \E p \in Procs : RuntimeStep(p)
  \/ \E o \in Ops : RenewalEnds(o)
  \/ \E request \in Requests : OperatorStep(request)
  \/ MigratorStep
  \/ \E p \in Procs, id \in [rel : Releases, gen : Generations] : Restart(p, id)
  \/ Tick

Spec == Init /\ [][Next]_vars

\* Handlers and worker iterations run finite code under timeouts, so each one ends its
\* transaction and its operation; the database ends every statement within 30 s; time
\* passes.  Nothing obliges the operator to act.
Fairness ==
  /\ \A p \in Procs : SF_vars(AwaitRenewal(p) \/ Finish(p)) /\ WF_vars(Commit(p) \/ Rollback(p))
  /\ \A o \in Ops : WF_vars(RenewalEnds(o))
  /\ WF_vars(Tick)

LiveSpec == Spec /\ Fairness

-----------------------------------------------------------------------------
(* Properties.                                                             *)

\* A transaction that holds the barrier, an admission too, belongs to the active release and
\* generation and to a schema it supports, is never open in maintenance, and outside an
\* operation only while the installation is open: no process can commit after another release or
\* generation was activated, whatever connection or claim it kept.
WriterFenced ==
  \A p \in Procs : tx[p].phase \in Holding =>
    /\ mode # "maintenance"
    /\ IdentityValid(p)
    /\ operation[p] = NoOp => mode = "open"

\* Sealed means quiet for as long as it lasts: no live admission, no live queue lease and
\* no transaction in flight, so the recovery point taken then is consistent.
SealedIsQuiet == mode = "maintenance" => Idle /\ BarrierFree

\* An operation admitted before a seal never works again after a resume, not even when
\* the same release and generation are resumed.
NoOperationOutlivesSeal ==
  /\ \A o \in Ops : Live(o) => admittedIn[o] = seals
  /\ \A p \in Procs : (tx[p].phase = "held" /\ operation[p] # NoOp)
                         => admittedIn[operation[p]] = seals

\* A migrator with migrations still to apply works on a sealed installation: the operator
\* cannot resume behind a run that has already passed its check of the mode.
PendingMigrationSealed == migrator > schemaVersion => mode = "maintenance"

\* Nothing but a renewal that commits after its row has expired can pass the admission
\* limit: without those operations, the live admissions are never more, however expiry,
\* renewals, reclamation and failed admissions interleave.  (With them they can be: an
\* admission counts such a row as expired, and the renewal does not take its lock.)
CapacityRespected == Cardinality(LiveOps \ straddled) <= Capacity

\* The schema version changes in sealed maintenance only, although the migrator checks
\* the mode once and applies its migrations later.
MigrationsSealed == [][schemaVersion' # schemaVersion => mode = "maintenance"]_vars

\* While sealed, the rows of admissions, leases and sessions stay exactly as they were,
\* until an operator command with a receipt changes sessions.
SealedDataFrozen ==
  [][mode = "maintenance" =>
       /\ admission' = admission /\ lease' = lease
       /\ sessions' = sessions \/ receipts' # receipts]_vars

\* A retried command takes effect at most once: mode, generation, release and the
\* sessions revoked by the operator change only together with one new receipt.
ReplayNeverReapplies ==
  [][(<<mode, generation, activeRelease>>' # <<mode, generation, activeRelease>>
        \/ (sessions /\ ~sessions'))
       => \E r \in Requests \ receipts : receipts' = receipts \cup {r}]_vars

\* A drain always quiesces unless the operator ends it: admitted work finishes or its
\* admission and leases expire, and nothing new is admitted.
DrainQuiesces == (mode = "draining") ~> (mode # "draining" \/ (Idle /\ BarrierFree))

(* The barrier implements the abstract epochs: a flow is inside while its transaction     *)
(* holds the barrier, in the generation its connection is pinned to.                      *)
Inside == [p \in Procs |-> IF tx[p].phase \in Holding THEN identity[p].gen ELSE 0]

Epochs == INSTANCE WriterEpochs
  WITH Writers <- Procs, sealed <- mode = "maintenance", epoch <- generation, member <- Inside

\* Every behaviour of the barrier is one of the abstract epochs: a flow enters only in the
\* active generation, and the generation advances only with nobody inside.
ImplementsEpochs == Epochs!Spec
=============================================================================
