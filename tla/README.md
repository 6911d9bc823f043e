# Formal models of Aster

TLA+ specifications of the coordination logic of Aster (Next.js, Node workers, PostgreSQL):
what several processes may do to shared rows, in which order, and what survives crashes,
expired leases and repeated commands; and of the cash ledger, where the order of the
reviewers' commands does the same. Every definition is translated from the code; the
file `PROJECT.json` names the lines of each one. Data (documents, facts, ciphertexts, audit
texts) is abstracted to model values.

## 1. Inventory

| Component | State it keeps | Operations | Interacts with | Hard part |
| --- | --- | --- | --- | --- |
| Lifecycle admission barrier (`migrations/016`, `lib/server/lifecycle*.ts`, `db.ts`) | `app_lifecycle_control` (mode, generation, release, schema), `app_lifecycle_operations`, `app_lifecycle_events` | admit, renew, finish, assert; drain, seal, activate, resume | every request and every worker iteration runs inside an admission; every write trigger asserts | two advisory locks, expiry, stale process identities, replayed commands |
| Migration runner (`migration-runner.ts`) | `aster_migrations`, `schema_version` | apply pending migrations | takes the operator's lock and the barrier | the mode is checked once, the work is done later |
| Session revocation (`recovery-sessions.ts`) | `auth_session` | delete all, with a receipt | same locks as the operator | replay |
| Document extraction queue (`scripts/worker.ts`, `worker-scope.ts`, `worker-retry.ts`, upload and processing routes) | `app_jobs`, `app_job_queue` | upload, cancel, retry, review, purge; claim, start, extract, complete, requeue, give up | processor over HTTP; retention; review; the barrier | leases that lapse mid-extraction, cancel and retry under a running worker, attempts and deferrals, publication errors after the commit |
| Report obligations monitor (`migrations/011`, `report-obligations-queue.ts`, `report-obligations-store.ts`) | one routing row per office with a generation | enroll, wake, claim, evaluate, finish | the workspace, the calendar | a wake that races an evaluation |
| Reporting calendar (`lib/report-obligations.ts`) | occurrences with receipts, dispositions and issues, in the workspace | match, revoke, reinstate, supersede, dispose; resolve, waive, snooze, reopen; evaluate | saved and evaluated by the monitor's store | issues dismissed on evidence that changes, graphs of superseded receipts |
| Delivery outbox (`delivery.ts`, `delivery-worker.ts`) | `app_delivery_outbox` | enqueue, sweep, claim, send, settle | SMTP | every statement commits alone, leases recognised by their instant |
| Document archive (`archive-store.ts`, `archive-provider.ts`, `migrations/015`) | `app_archive_destinations`, `app_archive_jobs`, bundles on disk | configure, backfill, retry, discover, claim, build, publish, receipt | file system, originals, memberships | files and a database that do not commit together |
| Folder collection (`folder-*.ts`, `migrations/013`) | `app_folder_connections`, `app_folder_queue`, `app_folder_receipts` | connect, sync, pause, resume, disconnect; scan, read, import, checkpoint | intake directory, extraction queue | stale collectors, a cursor in a directory that changes |
| Mailbox collection (`mailbox-*.ts`, `migrations/005`) | `app_mailboxes`, `app_mailbox_queue`, `app_mailbox_receipts` | connect, sync, pause, resume, disconnect; backfill, history, import, checkpoint | mail provider, extraction queue | mail that arrives during a backfill, forgotten history, stale collectors |
| Appliance controller (`operations/appliance/cli`) | journal, installation record and backup on disk | update, continue-update, backup, resume, stop; install, restore | the lifecycle commands, Docker | being killed between any two steps |
| Cash ledger (`lib/ledger.ts`, `ledger-store.ts`) | notices, transactions, events, valuations, coverage, balances and history, in the workspace | accept, register, amend, cancel, attest; record, match, settle, reverse, void; mark, reconcile | accepted facts, the portfolio, performance reports | any order of commands: late notices, amended terms, backdated marks, reversals |
| Review (`review-store.ts`, `accept-facts.ts`) | `review_state`, versions, accepted facts | accept, reject, defer, correct | workspace ledger | revision conflicts, posting once |
| Retention (`operations-store.ts`) | policy, documents | preview, purge | jobs, workspace references | preview against live jobs |
| Key rotation (`key-rotation.ts`) | all encrypted columns | rotate | barrier | one transaction |
| Engines, workspace, reporting, history, intelligence, auth, MCP, OAuth broker, demo, UI, processor, packaging | see `PROJECT.json` | | | mostly data, presentation or single-transaction edits |

The workers have one shape: a claim under a lease, work outside any transaction, and a
result that is accepted only if the claim still stands. They differ in how a claim is
recognised (owner UUID, owner with generation, lease instant), in what else must still hold
(membership, edition, status), and in what may happen next to it. That difference is where
their properties are.

What makes each of them correct:

- **Barrier**: no write of a fenced process; sealed means quiet; nothing admitted before a
  seal works after it; schema changes under seal only; commands are idempotent; nothing but a late renewal passes
  the capacity.
- **Queue**: a queue row and its job agree; a stale answer is never stored; attempts count
  failures and only failures; every queued job is decided; one open job per document.
- **Monitor**: no wake is lost and every change is evaluated. **Calendar**: nothing stays
  dismissed on evidence the user never saw; receipts count; deadlines are raised.
- **Outbox**: an old claim settles nothing, secrets end with their tokens, every message
  ends. **Archive**: a receipt names what is on disk, and is written under current authority.
- **Collection**: a cursor never passes what has no receipt; a stale collector changes
  nothing; what stays is collected.
- **Ledger**: no payment is live twice; no notice is overpaid; the fund is worth its latest
  mark plus the capital settled since; a covered period still ends as its statement did.
- **Controller**: writes open only on a release that reads the schema, and it runs unless
  the operator stopped it; migrations are covered by the backup; any interruption can be
  finished.
- **Review**: revisions are serial, an accepted fact is posted once.

## 2. Plan

| # | Module | Abstract specification | Composes | Theorems | State |
| --- | --- | --- | --- | --- | --- |
| 1 | `Lifecycle` | `WriterEpochs` | queue leases as counted items | type, fencing, quiescence, refinement, ... | checked, proved |
| 2 | `DocumentQueue` | `JobLifecycle` | workers, requests, retention | type, consistency, fidelity, limits, refinement | checked, proved |
| 3 | `ReportMonitor` | | monitor workers and requests | no lost wake | checked, proved |
| 4 | `ReportObligations` | | the calendar's mutations and evaluations | dismissals, receipts | checked, proved |
| 5 | `DeliveryOutbox` | | delivery workers | latest claim | checked, proved |
| 6 | `ArchiveJobs` | | workers, file system, administrators | type, receipts, authority | checked, proved |
| 7 | `FolderSync`, `MailboxSync` | | collectors, providers, administrators | cursors, stale collectors | checked, proved |
| 8 | `ApplianceUpdate` | | the lifecycle commands as an interface | served, covered migrations | checked, proved |
| 9 | `CashLedger` | | notices, transactions, marks and periods of one entity | type, single payments, no overpayment, mark plus capital, covered periods | checked, proved |
| 10 | `ReviewFacts` | each fact decided serially, posted once | reviewers | serial revisions | open |
| 11 | `AdmittedQueue` | | `Lifecycle` admissions around `DocumentQueue` iterations | seal leaves no claimed job behind | open |

## 3. Modules

### Lifecycle

One action per operator command and transaction boundary; the database functions of
migration 016 that can be told from one instant are several.

| Model | Code |
| --- | --- |
| `mode`, `generation`, `activeRelease`, `schemaVersion` | the row of `app_lifecycle_control` |
| `admission[o]` | a row of `app_lifecycle_operations`; `left` is `expires_at` minus the clock |
| `lease[i]` | `lease_until` of a row of one of the six queues counted by `lifecycleStatus` |
| `receipts` | `request_id`s in `app_lifecycle_events` |
| `identity[p]` | `app.release_id`, `app.writer_generation` of a process's connections |
| `operation[p]`, `tx[p]` | the lifecycle context of a flow and its open transaction; `"held"` (a runtime transaction) and `"reclaiming"` (an admission) mean it has the shared barrier lock |
| `Reclaim`, `Admit` | `aster_admit_operation`: identity, mode, lock and the rows its DELETE picks; then the count, the insertion and the commit |
| `Renew`; `Renewed`, `RenewalFails` | `aster_renew_operation`: the UPDATE finds a live row and locks it; it commits, or its statement is cancelled |
| `AwaitRenewal`, `Finish` | the `finally` block of `withLifecycleOperation`; `aster_finish_operation` |
| `AssertOperation` | `aster_assert_operation` |
| `renewing`, `reclaimed`, `returned` | rows locked by a renewal, rows an admission deletes, flows that await their renewal |
| `BeginAdmitted`, `BeginUnadmitted`, `Write`, `Commit`, `Rollback` | `withTenant` and the write trigger |
| `Drain`, `Seal`, `Activate`, `Resume` | the branches of `controlLifecycle` |
| `RevokeSessions` | `revokeRestoredSessions` with `assertSealedMaintenance` |
| `BeginMigrations`, `ApplyMigration`, `EndMigrations` | `applyMigrations`: session lock, one transaction per migration, end or error |

The exclusive barrier and `MIGRATION_LOCK` are held for a whole operator transaction, so
such a transaction is one action guarded by `BarrierFree` and `migrator = 0`. A runtime
transaction is several actions, since other processes run between its statements.
`seals`, `admittedIn` and `straddled` are history variables and guard nothing.

An admission excludes other admissions, by its lock, but not renewals, which take the
shared barrier only. A renewal passes its test of `expires_at` at one instant and commits at a
later one; until then everybody else sees the row as it was. So an admission can count a row
as expired that the renewal in flight then brings back, and the live admissions exceed the
limit by that row. The model has these histories: `straddled` are the operations whose
renewal committed after their row had expired, and `CapacityRespected` bounds the live
admissions without them. Without that exception it is violated in the bounds of the run. The limit is
1000 in the code and guards resources, not correctness, and nothing in the repository calls
it exact. An admission whose DELETE picked a row that a renewal has locked waits for the
renewal and deletes the row all the same. Between the statements of an admission after its DELETE,
and of a finish, nobody can tell one instant from several.

`WriterEpochs` is the promise: writers enter and leave an epoch, the epoch advances only
while sealed, and nobody is inside while sealed. `ImplementsEpochs` maps a flow to inside
when its transaction holds the barrier.

### DocumentQueue

| Model | Code |
| --- | --- |
| `status[j]`, `document[j]` | `app_jobs.status`, `document_id` |
| `review[j]` | are there review versions, and accepted facts, of the job? |
| `row[j]` | the row of `app_job_queue`; `lease` is none, live or lapsed, `state` says whether `available_at` has passed |
| `worker[w]` | the iteration of a worker process and the values it read when it claimed |
| `boot[w]` | the owner UUID of a process; a new process has a new one |
| `Upload`, `Cancel`, `Retry`, `Review`, `Purge` | the request handlers, one transaction each |
| `Claim` | `claimDocumentJob` |
| `Start`, `DropRow`, `Extract`, `Complete` | the try block of `iteration`, one action per transaction or request |
| `Throw`, `Requeue`, `GiveUp`, `Abandon` | the catch block, with `retryDecision` |
| `Lapse`, `BecomeReady` | the clock |
| `Stop`, `Abort`, `Crash`, `Restart` | SIGTERM, a lost admission, process death, the service manager |

Each worker transaction locks the job row and then the queue row, and keeps both to its
commit, so it is one action. An attended lease is renewed every 20 s of its 90 s and lapses
only if the worker stalls, which counts as a fault. Document mode and engine are fixed, so
the unique index of active jobs is per document. `holder`, `retries` and `lost` are history.

`JobLifecycle` is what a user is promised: a pending job is decided once, withdrawn, or
reopened; a document never has two open jobs; nothing reviewed is purged.

### ReportMonitor

| Model | Code |
| --- | --- |
| `row[o]` | the row of `app_report_obligations_queue`; `run` says whether `run_after` has come |
| `worker[w]` | the claim of a process: office and generation, and how its evaluation went |
| `View`, `Save` | `readReportObligations` (enrolls) and `saveReportObligations` (wakes), under the workspace lock |
| `Claim`, `Finish` | `claim_report_obligations`, `finish_report_obligations` |
| `Decline`, `Reconcile`, `ReconcileFails` | `runReportObligationsOnce` between the two |
| `Change` | whatever an evaluation would find different, a deadline too |
| `Lapse`, `ComeDue`, `Stop`, `Crash`, `Restart` | the clock, SIGTERM, process death, the service manager |

`stale` and `pending` are history: a change without an evaluation, a wake without one.

### ReportObligations

One occurrence. `receipts[d]` is the receipt of a document with its `supersedesReceiptId`,
`issue` the exception with key `delivery:<occurrence>`, whose fingerprint is the record
`evidence`. `saveReportObligations` evaluates after each mutation, in one transaction, so
`Match`, `Revoke`, `Reinstate`, `Dispose`, `Snooze`, `Dismiss` and `Reopen` contain the
evaluation, and `Evaluate` is that of the monitor. `EvaluatedIssue` is
`evaluateReportObligations` with `applySignal` for this issue. `Ancestry` defines by
closure what the code computes with a work list. `Tick` and `SnoozeEnds` are the clock.
The clock goes from "before the deadline" to "in the grace period" to "overdue", so a document that
arrives late is matched after the first step. `dismissed` is history.

### DeliveryOutbox

Each statement of `deliverOne` commits by itself and is an action: `SweepExhausted`,
`SelectExpired`, `Expire` (one row each), `Claim`, the sending (`Accept`,
`AcceptUnanswered`, `Refuse`), and `SettleSent`, `SettleThrows`, `SettleFailed`. A claim is
recognised by `lease_until` alone. An instant is modelled by the attempt that set it and
whether it is a whole millisecond; `SameInstant` compares the stored one with the copy a
`Date` keeps of it. Two different claims of one message have different instants, since the
second is made 90 seconds after the first. `holder` and `accepted` are history.

### ArchiveJobs

| Model | Code |
| --- | --- |
| `dest` | the row of `app_archive_destinations`; `edition` is `archive_revision` |
| `job[j]` | the row of `app_archive_jobs` of a document and edition |
| `files[j]` | the bundle at its path, by how it was rendered |
| `worker[w]`, `lock` | the iteration of a worker; whose transaction holds destination and job |
| `Configure`, `Backfill`, `Retry` | the branches of `archiveCommand` |
| `Discover`, `Claim`, `Load` | `discoverArchives`, `claim_archive_job`, `loadArchiveSource` |
| `Build`, `Lock`, `Commit`, `Settle` | `buildArchiveBundle`, then `publishArchive` around `writeLocalArchiveBundle` |
| `Fail`, `Defer`, `Throw` | `failArchive` and what leads to it |
| `Lapse`, `Disconnect`, `Crash` | the clock, a lost database connection, process death |

The renderer runs in another service and may answer differently after an upgrade, so
`Build` chooses one of `Renders`. Locking, rename and receipt are three actions: the files
are published before the transaction that records them commits.

### FolderSync and MailboxSync

| Model | Code |
| --- | --- |
| `conn` or `box` | the connection: status, generation and cursor |
| `row` | its queue row, which exists while it is active |
| `receipts` | file versions, or messages, that have a receipt |
| `Connect`, `Resume`, `Stop` | `connectFolderInTransaction` and `updateFolderConnection`; `finishMailboxAuthorization` and `updateMailbox` |
| `Claim`, `Begin` | the claim, and the first `assertClaim`, which reads generation and cursor |
| `Scan`, `Read`, `Import`, `Finish` | `scanFolderFiles`, `readFolderFile`, `importFolderFile`, the checkpoint |
| `Profile`, `Backfill`, `History`, `Import`, `Finish` | `listMailboxPage`, `importMailboxMessage`, the checkpoint |
| `Release` | `releaseFolderClaim`, `releaseMailboxClaim` |
| `Write`; `Arrive`, `Forget` | the directory; the provider |

Files are numbered in the order of their paths and have versions; a batch examines `Batch`
files. Messages are numbered as they arrive, and a history id is the number of the last
message it covers; a page holds one message. The backfill lists newest first and takes its
anchor from the profile before it lists anything; the history is listed oldest first, and
`Forget` moves the horizon behind which the provider answers that an id is too old.
Originals and extraction jobs are inserted by the transaction of the receipt.

### ApplianceUpdate

`ctl` is the running command: its step, its copy of the journal, and the exported dump.
`journal`, `installed`, `artifact` are the files, `db` the lifecycle control row, `drains`
its drain receipts, `server` says whether PostgreSQL runs, `fleet` the release whose services
run. `MinSchema`, `Target` and `MaxSchema` are the range of a bundle's manifest. Of the journal's phases the
code tests `complete` only. The steps are those of `updateOperation`, `seal`,
`backupSealed`, `Backup` and `Resume`, in their order; `Kill` ends a command between any
two, which stands for a kill, a deadline and a failing Docker or database call. A replayed
drain is answered with its first receipt, as `Lifecycle!Command` does. `StopFleet` is
`asterctl stop`, between any two commands and after any kill: it takes the services down, then
the server, whatever the mode of the database. Update and resume start the server before they ask for the
mode; a backup asks at once, and ends if it finds none. `stopped` is history: the operator
stopped the fleet and nothing has started it since. Assumed: the host
lock keeps commands apart, and Docker commands end with the controller that started them.

### CashLedger

| Model | Code |
| --- | --- |
| `accepted` | `app_accepted_facts`: a notice with the same fingerprint is accepted once |
| `notices[n]` | `finance.obligations`; `revision` is the length of `amendments` |
| `distinct` | the `distinctFrom` attestations, with the two revisions they were given for |
| `txs[t]` | `finance.transactions` with `transactionStatus`; `linked` says whether `linkTransactionObligation` matched it |
| `log` | `finance.events` that post and `finance.valuations`, in the order they were recorded |
| `value`, `dated` | `valueEUR` and `valuationDate` of the cash balance and the fund |
| `cashRows` | the rows of `portfolio.history` of the cash balance, -1 where there is none |
| `coverage` | `finance.coverage`; `seen` stands for `eventCount` and `valuationCount` |
| `AcceptNotice` | `acceptFacts` with `postReviewedCashNotice` |
| the other actions | the commands of `applyLedgerAction`, by name |

A command is saved whole under the row lock of its workspace, so it is one action. Its
expected revision and its receipt are left out, for they only refuse it. One entity has one
cash balance and one fund, in one currency. Commitments and cost basis, whose checks only
refuse, are left out, and so are transfers. A date is a number and lies in the past; the
clock would only narrow the dates a command may carry. Amounts are positive, so an
unallocated notice is one without live transactions. A reversal asks whether a mark was
recorded after the settlement, which in the model is its place in `log` and in the code a
comparison of `recordedAt`: two commands within one millisecond are not told apart there.

Operators commented as faulty variants are deliberate errors; no action uses them. Each
property is shown to fail when one of them takes the place of the definition it varies.

## 4. Runs

| Run | Bounds | Shows |
| --- | --- | --- |
| `lifecycle` | 2 flows, 2 operations, 1 leased row, 2 releases, 4 requests, 1 migration, capacity 1; with a straddling renewal 3 requests, first-generation flows and no migration | `WriterFenced`, `SealedIsQuiet`, `NoOperationOutlivesSeal`, `PendingMigrationSealed`, `CapacityRespected`, `SealedDataFrozen`, `ReplayNeverReapplies`, `ImplementsEpochs`, `DrainQuiesces` |
| `queue` | 2 workers, 2 jobs, 2 attempts, 1 deferral; 2 faults with one job, 1 with both | `QueueConsistent`, `ClaimMatchesJob`, `OnlyLatestClaimDecides`, `NoPrematureFailure`, `ImplementsJobLifecycle`, `EveryRowIsDecided` |
| `queue_stuck` | 2 workers, 2 jobs | `PendingIsQueued` is violated, see section 7 |
| `delivery` | 2 workers, 1 message, 3 attempts, 2 faults | `OnlyLatestClaimSettles`, `SecretsEndWithToken`, `EveryMessageEnds` |
| `delivery_once` | the same without faults | `OnceWithoutFaults` is violated, see section 7 |
| `monitor` | 2 workers, 1 office, 3 wakes, 2 faults | `WakesKept`, `ChangesAreEvaluated` |
| `obligations` | 3 documents, 1 of them late, 3 receipts | `DismissedKnowingly`, `ReceiptsAreCounted`, `GapsAreRaised` |
| `archive` | 2 workers, 1 document, 2 editions, 2 revisions, 2 renderings, 2 attempts, 1 fault | `ReceiptsMatchFiles`, `ArchivedUnderAuthority`, `PendingJobsEnd` |
| `folder` | 2 workers, 2 files, 2 versions, 2 writes, batches of 1, 2 generations, 2 faults | `CursorNeverSkips`, `StaleCollectorsChangeNothing`, `FilesAreCollected` |
| `mailbox` | 2 workers, 3 messages, 3 generations, 1 fault; 2 messages, or 1 and a fault, after a reconnect | `CursorLeavesNothingBehind`, `StaleCollectorsChangeNothing`, `MailIsCollected` |
| `appliance` | 3 releases (schemas 1, 1, 3; the second reads up to 2), 3 operations, 2 writes, 3 interruptions | `OpenIsServed`, `MigrationsAreCovered`, `InterruptionsEnd` |
| `ledger` | 2 notices, 2 transactions, 3 terms, 3 kinds, 3 dates, 2 mark values, 1 amendment per notice, 1 mark after the opening, 1 period | `PaidOnce`, `NoticesNotOverpaid`, `MarkPlusCapital`, `CoverageHolds` |

Why the bounds are enough.

*Barrier.* Four requests allow drain, seal, activate and resume (or a second drain and seal
of one generation), so an operation from before a seal meets the installation after a
resume. A second flow is the stale process; a third would repeat the second. With two
operations and a capacity of one the limit binds while an expired row waits for its
reclamation or for a renewal in flight. Every history has all interleavings of admissions and
renewals; those in which a renewal in fact straddles its expiry are cut after the third
command, and have no migration and no flow of a second generation. In all of them a flow of
the first generation has the first release, and the migrator runs only if there is something
to apply. `InitialSchema`, the releases' supported ranges and inventories make one
release fenced by a migration.

*Workers.* Two of them give one stale and one current claimant, and the faults allow a
stall and a crash in one history. Rows of a queue interact through the claim's order only,
except in the extraction queue, where the unique index keeps two jobs of one document from
being open together. `queue` therefore has two jobs, which may belong to one document or to
two: uploads, retries and reopening reviews of both, with one stall or lost outcome. Histories
with one job have two faults of every kind; after a fault there is no review, and after the
second no busy processor and no abort. The refinement is proved without these limits. Three
attempts of a message, and two of a job, reach the limit with a retry before it. Two
generations are a pause (or disconnect) and a reconnect around a claim. `mailbox` has three: a
connect over an active mailbox, and a pause, a disconnect or a loss of membership with the
connect or resume after it, around a claim of the first generation. A collector that is still at
work then meets a mailbox that is active again, with another collector's claim or none. What
refuses it is the lease: whatever changes the generation also clears the claim, and a process
has one claim at a time, so a live claim of one's own implies the generation one read. The
code's test of the generation is a second line of defence; without the test of the lease the
run fails. Two files with batches of
one have a cursor between them; two writes change a file under a scan. Three messages leave
one before, one during and one after a backfill. Two editions and two revisions are a
reconfiguration under a running job, and two renderings a bundle that conflicts.

*Calendar.* Three documents give a chain, a fork and a chain through a revoked receipt, one
of them late.

*Controller.* Three operations are an update, a backup between, and an update again; the
second release keeps the schema, and the third applies two migrations, so an interruption
falls between them. Two writes tell backups apart. Stops are not bounded.

*Ledger.* `MCCashLedger` explores the union of two parts, since notices and balances meet
only when a transaction is settled. In the first, two similar notices and two transactions
have every history, and all postings fall on one day; the three terms are a notice of two
units, a smaller one that shares a date with it, and one without dates, which an amendment
completes. In the second, two transactions of every kind in use settle and are reversed on
three days around a mark and a reconciliation: before, on and after the date of each. One
more notice or transaction would repeat the second. The proofs have no such bounds.

`MaxGeneration`, `MaxFaults`, `MaxWakes`, `MaxRevision`, `MaxEdition`, `MaxWrites`,
`MaxVersion`, `MaxMail`, `MaxOperations`, `MaxData`, `MaxKills`, `MaxMarks`, `MaxPeriods`,
the requests, the operation ids and the sets of notices and transactions bound what is
unbounded in the code; `TTL` is in ticks and its only role is the order of expiry and
renewal; `MaxValue` and `MaxAmendments` are limits of the code.
Symmetry is used only in `ledger`, which has no liveness property, over notices and
transactions, which no definition tells apart. Where there is one, ids that differ in nothing
are first used in the order of their numbers (requests and operations in `lifecycle`, jobs in
`queue`), and of two workers without a trace in the state the first one moves (`queue`,
`mailbox`).

Deadlock is not checked for the queue, the outbox and the ledger: when all ids are used and
decided and no fault or mark is left, the model stops, as the system does without work.

## 5. Fairness

`Lifecycle!Fairness`: handlers and iterations are finite code under timeouts, so every
transaction ends (weak fairness of commit or rollback) and every operation finishes (strong
fairness of `AwaitRenewal \/ Finish`, which are disabled whenever a transaction is open or a
renewal has the row); a statement in the database ends, for it is cancelled after 30 s (weak
fairness of `RenewalEnds`); time passes. Renewal, admission and the operator are under no
obligation.

The five worker modules share theirs: a worker takes its next step, ended workers are
restarted by the service manager, delays and leases nobody attends end by the clock, and a
row that is claimable again and again is claimed (strong fairness). The last is justified by
the order of the claims: the row that has been due the longest goes first, and a released
row gets a later time. In the collectors one connection is modelled, and weak fairness of
the claim is enough. Requests, administrators, crashes, stalls and stops are under no
obligation, and the faults of one run are finitely many.

`LiveCalendar` of `ReportObligations`: the monitor evaluates again and again, which
`ChangesAreEvaluated` shows of `ReportMonitor`, and the clock runs.

`ApplianceUpdate!LiveSpec`: a running command goes on, admitted operations and leases end,
and the operator comes back to an unfinished journal, with `continue-update` (with another
output too) and with `resume`. Without `resume` the property fails, see section 7.

## 6. Proofs

TLAPS checks the `*Proofs` modules, for any number of flows, operations, rows, releases,
workers, jobs, documents, offices, messages, files, notices, transactions and faults, from
`ConstantsAssumption` of each module, `CalendarAssumption` and `LedgerAssumption` (sentinels
are distinct, limits are numbers of the right range; the operation ids of the barrier, the
documents of a calendar and the transactions of a ledger are finitely many, since the code
keeps them in finite tables and arrays). TLC evaluates the assumptions. Every invariant that a run checks is proved, and so is
every action property; each strengthened invariant was first checked by TLC on the instance of
its run.

`WorkspaceProofs` holds the proofs about the books of an office's workspace: the monitor of
its reports (`ReportMonitor`), the calendar that the monitor evaluates (`ReportObligations`)
and the cash ledger. It extends the three, so the specification of the calendar is called
`CalendarSpec` (`CalendarInit`, `CalendarNext`) and that of the ledger `LedgerSpec`; the plain
names are the monitor's. The other proof modules are named after the component they extend.

A fact about every finite set is proved without an induction principle over operators: the set
of the subsets that are a counterexample would have a minimal member (`Minimal`, from the
well-foundedness of strict inclusion on the finite subsets), and the step excludes it.

*Barrier.* `IInv` is `TypeOK` with four checked invariants and three facts about rows: a
transaction that does not hold the barrier has nothing to publish (`OnlyHoldersWrite`), only
a stored admission has time left (`OnlyStoredLast`), and the row of a renewal in flight is
that of an operation admitted since the last seal, and stays (`RenewalsStand`). None of the parts is inductive
alone. `WriterFenced` needs `PendingMigrationSealed`, or a migration could take the schema
out of a holder's range; that one needs the operator's exclusion by the migrator's lock.
`SealedIsQuiet` needs `OnlyHoldersWrite`, or a commit could create a lease under seal.
`NoOperationOutlivesSeal` needs `SealedIsQuiet` at the seal: no live admission is left to
cross it; and `RenewalsStand`, or a renewal that ends could revive one from before it.
`CapacityRespected` is proved by cardinalities: of the live operations that an admission does not
reclaim, and of those left when the straddling ones are taken away.
The action properties and the refinement of `WriterEpochs` follow from `IInv`, one case
per action.

*Queue.* `IInv` says of each row (`RowInv`) that it agrees with its job, that only an owned
row has a lease, and that its attempts are those used up by failures and lost claims, plus
the current claim; and of each worker whose process is still named on a row, whether the
lease is live or not (`ClaimInv`), that the attempts and deferrals it read are those of the
row, that it is the latest holder, and that a job it extracts is still "processing". The
part about lapsed leases is what makes it inductive: nothing clears `lease_owner` when a
lease ends. `QueueConsistent`, `ClaimMatchesJob`, `RetriesBounded`, `OnlyLatestClaimDecides`
and `NoPrematureFailure` follow. In the refinement of `JobLifecycle` a request maps to the
abstract request, a completion or terminal failure to `Decide`, and the rest to a stutter.

*Monitor.* `WakesKept` is not inductive: it has to know what a claim has seen. `MonitorIInv` adds
that a claim's generation is at most the row's, and that a claim whose evaluation is done
under the row's generation left no wake behind, so that a completion either finds the
generations different or has nothing to keep.

*Outbox.* `IInv` says that the instant on a row is that of its last attempt (`RowKnows`),
and that a claim a worker carries has an attempt the row has had, its last one only if the
worker is the latest holder (`ClaimKnows`). `OnlyLatestClaimSettles` is then the comparison
of two instants, and holds whatever becomes of the milliseconds.

*Archive.* `IInv` adds to the types and to `ReceiptsMatchFiles` what an iteration
knows (`WorkerKnows`): from staging on it has a bundle; once it has published, the archive
holds that bundle under its job's name, and no one replaces it; and only a publishing worker
has the locks. While it has them, every other action that would move the destination, the
membership of its administrator or the row of the job is disabled (`Free`), so what `Lock`
examined still holds when `Settle` writes the receipt, with a commit, lapses and other
workers' steps in between. One lemma (`WorkerKeeps`) says what a step of a worker must leave
alone, one (`OfficeKeeps`) says it of a step that nobody holds locks against; each action is
then a use of one of them. `ArchivedUnderAuthority` follows from the invariant: the only
statement that archives is `Settle` under the locks, and the only one that writes a file finds
it absent or equal.

*Calendar.* `CalendarIInv` says that receipts never supersede each other in a circle
(`NoCircle`: every set of documents has a receipt whose predecessor is outside it), that only
documents that were matched are linked (`OnlyReceiptsAreLinked`), and that an active issue
belongs to an overdue report and carries the evidence there is (`IssueKnows`). `Match`
cannot close a circle: the document it links had no match, so nothing supersedes it. With
finitely many documents, a set of matched receipts without a circle has one that no matched
receipt of the set supersedes through any chain, so something is current as long as anything
is matched. `DismissedKnowingly` needs `IssueKnows`: what a user dismisses is the evidence
the evaluation before it recorded.

*Collectors.* For the folder `IInv` says that a batch whose process is still the owner of
the row has receipts for the files of its scan between the stored cursor and the file it
is at (`Passed`), and that a batch which has not scanned yet is at the stored cursor
(`Fresh`). Both follow the owner rather than the lease, for a lease that lapses leaves the
owner in place. For the mailbox it says that what a worker's cursor will declare collected
has a receipt or is on the page (`WorkerCovered`), and that no cursor is ahead of the mail
there is (`Bounded`). Receipts only grow, so it needs no claim to be current: a stale page
is harmless to receipts, and the checkpoint of one is excluded by the other theorem.

*Controller.* `IInv` relates the controller's copy of the journal to the journal on disk
(`Carried`: equal but for a backup that has not begun to drain and a hash about to be
pinned), to the database (`Reached`, `Prepared`: which command stands at a step, and what it
has established about the release it will open, which by then runs and is not stopped), and to the backup file (`Exported`,
`Pinned`: a pinned backup holds every write until the database is open again). `Numbered`
bounds the generation by the operation, for an operation activates once however often it is
continued. A stop touches neither the database nor the journal, and nothing but an open
database asks for the fleet. Nothing refers to a command that was killed, so a kill needs no more than the
parts without the process.

*Ledger.* `PaidOnce` is not inductive alone. `AllocationsMatch` adds that the notice of a
live transaction is active and has its kind and due date, so a transaction recorded without a
notice is refused beside a prepared one. Two notices that both carry live transactions do
not become related: neither's terms can change while it does, and revisions only grow, so
the attestation that told them apart stands as long as the transactions do. For
`CoverageHolds`, `LatestRow` says that the cash balance is its row of the latest date, and
`PeriodsSeen` that a period remembers a part of the log; whatever is posted or marked
afterwards with a date inside the period lies in the log beyond that part.

*Sums.* `NoticesNotOverpaid` and `MarkPlusCapital` are about sums of amounts, folds whose
recursion takes an arbitrary member first. `SumUnfolds` and `SumOf` show that the fold obeys its
recursion on every finite set, `SumWith` that any member may be taken first (for a sum of two
does not depend on their order) and that the sum is a number, `SumSame` that it depends on the
summands only, and `SumAndOne` what one summand more does to it. `NoticesNotOverpaid` is
then inductive beside the invariants of the notices: terms change only where nothing is
reserved, and a transaction takes up a notice only within what the rest leaves
(`OneTxReserves`). For `MarkPlusCapital`, `CapitalInv` says that the fund has the date of its
latest mark (`FundDated`), that each settled transaction has its entry in the log, on what it
posts to (`SettledEntries`, `SettledLogged`), and that what was settled after a mark was
recorded is not dated before it (`AfterMarks`). So a settlement adds its movement to both
sides; a reversal, which the code refuses once a later mark contains the settlement, finds the
settlement among those since the mark and takes it from both; a mark that becomes the value
has no settled activity on or after its date; and an older one changes neither side.

Type invariants are proved for every component and, but for that of the archive, are not
repeated in the runs; the calendar's types are a part of `CalendarIInv`.

Only model-checked: the liveness properties (`DrainQuiesces`, `EveryRowIsDecided`,
`SecretsEndWithToken`, `EveryMessageEnds`, `ChangesAreEvaluated`, `GapsAreRaised`,
`PendingJobsEnd`, `FilesAreCollected`, `MailIsCollected`, `InterruptionsEnd`), which are
beyond the prover; and the two properties that are violated.

## 7. Findings

`queue_stuck`: a job can stay `queued` with no queue row. If the starting transaction of
the last attempt throws, it rolls back and the job is still `queued`; the catch block takes
the `fail` decision, updates `WHERE status='processing'`, which matches nothing, and
deletes the queue row (`scripts/worker.ts:333-357`). The retry route refuses the job, and
uploading the document again returns it as a duplicate; only cancelling it first makes it
retryable. The test at `lib/server/worker-lifecycle.integration.test.ts:688` expects a
third failure to end in `failed`. A crash or a lost lease also counts as an attempt, so the
failure on start need not be the third of its kind.

`delivery_once`: an outcome is recorded only by chance. A claim sets `lease_until` to
`now() + 90 s`, which has microseconds; the driver returns a `Date` of milliseconds; both
settling statements ask for `lease_until = $lease` (`lib/server/delivery.ts:97`, `:104`).
In about one of a thousand claims the two are equal. Otherwise the accepted message stays
`sending`, is claimed and sent again when its lease ends, three times in all, and is then
failed with `DELIVERY_LEASE_EXHAUSTED`. `operations/access-recovery-maintenance.md:41`
reserves repeated delivery for a crash; the run has no fault of any kind. The unit tests
make the instant themselves and do not see it. The safety and liveness properties of
`delivery` hold with either outcome of the comparison.

Three observations have no run of their own, since no document says otherwise.

*Two current revisions.* `reinstateReportReceipt` (`lib/report-obligations.ts:574-584`)
refuses a receipt if another matched one supersedes the same receipt directly. Match `a`;
match `b` superseding `a`; revoke `b`; match `d` superseding `a`; revoke `d`; reinstate
`b`; match `c` superseding `b`; revoke `b`; reinstate `d`. No matched receipt supersedes `a`
directly at the last step, but `c` does through `b`; now `c` and `d` are both current.

*A reopened update.* When an update is interrupted after its drain, and a `resume` of the
old release is interrupted in turn after it reopened the database and before it completed
the journal, `continue-update` finds the database open and drains it under the request ID
of the journal. The lifecycle command replays the first receipt
(`operations/appliance/cli/appliance.go:316`), and the update waits to seal an open
database until its deadline, each time. `resume` closes the journal, and a new update
works; `InterruptionsEnd` is therefore stated with an operator who uses both.
`operations/appliance/cli/README.md:189` names `continue-update` for an update before
completion.

*A stale row after a reversal.* Settle a call of a fund on day 1, reverse it on day 2, then
record a mark dated day 1. Reversed settlements are no obstacle to a mark
(`lib/ledger.ts:543-549`), and the fund's valuation date is still that of its earlier mark, so
the mark becomes the fund's value (`:587`); the history row of day 2, written by the
reversal, keeps the earlier value (`:612-623`) and is the latest one. The cash balance is not
affected, for a posting moves its date.

## 8. Not modelled

The components marked so in `PROJECT.json`: those whose logic is data, presentation, an
external protocol or one transaction. They are most of the repository by lines: views,
portfolio arithmetic, search, demonstration data and packaging have no
concurrent state, and a specification of them would repeat the code. The share of lines the
map covers stays small for that reason.

In the ledger: foreign currency, commitments, cost basis, transfers, account restrictions and
the creation of entities and holdings, as its section says. In the other modelled
components: the read-only path of requests, the installation that predates
migration 016, grants, encryption, rate limits, audit entries, engine pins and worker
routing by office; the schedules that create occurrences, and issues of missing fields; the
test and verification of archive destinations; Microsoft Graph pages, token refresh and
authorization states of mailboxes; installation and restore of the appliance, its
`bootstrap` and `schedule-backups`, the read-only `status` and `doctor`, and Docker commands
that outlive the controller. `ReviewFacts` and `AdmittedQueue` of the plan are
open.
