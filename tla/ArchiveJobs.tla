---------------------------- MODULE ArchiveJobs ----------------------------
(***************************************************************************)
(* The archive of retained originals of one office: its destination        *)
(* (app_archive_destinations), one job per document and edition            *)
(* (app_archive_jobs), the bundles in the file system, the administrators' *)
(* commands and the workers that freeze, build, stage and publish.         *)
(*                                                                         *)
(* Publication renames the staged bundle while a transaction holds the     *)
(* destination and the job; locking, the rename and the final update are   *)
(* three actions, for the process can die and its connection can be lost   *)
(* between them.  The other transactions are one action each.              *)
(*                                                                         *)
(* The owner of a claim is a fresh UUID; a worker has one claim at a time  *)
(* and forgets it, so the worker stands for it.                            *)
(***************************************************************************)
EXTENDS Naturals

CONSTANTS
  Workers,       \* archive worker processes
  Documents,     \* originals
  Admins,        \* administrators who may configure the destination
  NoWorker,      \* SQL NULL of lease_owner, or no lock holder
  NoJob,         \* a worker with no claim
  NoAdmin,       \* no destination configured yet
  MaxRevision,   \* bound on changes of the destination's settings
  MaxEdition,    \* bound on changes of its directory
  Renderings,    \* number of ways a bundle may render: builds of the renderer differ
  MaxAttempts,   \* 3 in the code
  MaxFaults      \* bound on crashes, stalls, aborts, lost connections, a busy processor

ASSUME ConstantsAssumption ==
  /\ NoWorker \notin Workers /\ NoAdmin \notin Admins
  /\ MaxRevision \in Nat /\ MaxEdition \in Nat \ {0} /\ Renderings \in Nat \ {0}
  /\ MaxAttempts \in Nat \ {0} /\ MaxFaults \in Nat
  /\ NoJob \notin Documents \X (1 .. MaxEdition)

VARIABLES
  dest,      \* app_archive_destinations; edition is its archive_revision
  member,    \* the administrators with a current owner or admin membership
  source,    \* app_documents, with what automatic_from and include_existing make of them
  job,       \* app_archive_jobs
  files,     \* the published bundle of each job: its rendering, or 0
  worker,    \* the iteration each worker process is in
  lock,      \* the worker whose transaction holds destination and job
  faults     \* faults spent

vars == <<dest, member, source, job, files, worker, lock, faults>>

Jobs == Documents \X (1 .. MaxEdition)
Renders == 1 .. Renderings
Edition(j) == j[2]
Document(j) == j[1]

Destination == [revision : 0 .. MaxRevision, edition : 0 .. MaxEdition, enabled : BOOLEAN,
                by : Admins \cup {NoAdmin}]
Job == [status : {"none", "queued", "running", "archived", "failed"}, available : BOOLEAN,
        owner : Workers \cup {NoWorker}, lease : {"none", "live", "lapsed"},
        attempts : Nat, receipt : 0 .. Renderings]
NoRow == [status |-> "none", available |-> FALSE, owner |-> NoWorker, lease |-> "none",
          attempts |-> 0, receipt |-> 0]
Iteration == [pc : {"idle", "claimed", "building", "staged", "publishing", "published",
                    "failing"},
              job : Jobs \cup {NoJob}, bundle : 0 .. Renderings, found : BOOLEAN,
              code : {"error", "deferred", "unauthorized"}]
Idle == [pc |-> "idle", job |-> NoJob, bundle |-> 0, found |-> FALSE, code |-> "error"]

TypeOK ==
  /\ dest \in Destination /\ (dest.edition = 0 <=> dest.by = NoAdmin)
  /\ member \in [Admins -> BOOLEAN]
  /\ source \in [Documents -> {"absent", "earlier", "eligible"}]
  /\ job \in [Jobs -> Job]
  /\ \A j \in Jobs : job[j].owner = NoWorker <=> job[j].lease = "none"
  /\ files \in [Jobs -> 0 .. Renderings]
  /\ worker \in [Workers -> Iteration]
  /\ \A w \in Workers : worker[w].pc = "idle" <=> worker[w].job = NoJob
  /\ lock \in Workers \cup {NoWorker}
  /\ faults \in 0 .. MaxFaults

Init ==
  /\ dest = [revision |-> 0, edition |-> 0, enabled |-> FALSE, by |-> NoAdmin]
  /\ member = [a \in Admins |-> TRUE]
  /\ source = [d \in Documents |-> "absent"]
  /\ job = [j \in Jobs |-> NoRow]
  /\ files = [j \in Jobs |-> 0]
  /\ worker = [w \in Workers |-> Idle]
  /\ lock = NoWorker
  /\ faults = 0

workerVars == <<worker, lock>>
Spend == faults < MaxFaults /\ faults' = faults + 1

-----------------------------------------------------------------------------
(* The office: documents, administrators and their commands.               *)

Free == lock = NoWorker
Released(r, status) == [r EXCEPT !.status = status, !.owner = NoWorker, !.lease = "none"]

Import(d) ==
  /\ source[d] = "absent"
  /\ source' = [source EXCEPT ![d] = "eligible"]
  /\ UNCHANGED <<dest, member, job, files, workerVars, faults>>

\* A membership is revoked or granted; the publisher shares a lock on its configurer's.
ChangeMember(a) ==
  /\ Free \/ dest.by # a
  /\ member' = [member EXCEPT ![a] = ~@]
  /\ UNCHANGED <<dest, source, job, files, workerVars, faults>>

\* discover: every eligible original without a job in this edition gets one.
Discovered(sources) ==
  [j \in Jobs |->
     IF /\ Edition(j) = dest.edition /\ job[j].status = "none"
        /\ sources[Document(j)] = "eligible" /\ dest.enabled /\ member[dest.by]
       THEN [NoRow EXCEPT !.status = "queued", !.available = TRUE]
       ELSE job[j]]

\* A new directory fails what is pending for the old one; disabling takes claims back.
Reconfigured(changed, enabled, edition) ==
  [j \in Jobs |->
     IF changed /\ Edition(j) # edition /\ job[j].status \in {"queued", "running"}
       THEN Released(job[j], "failed")
     ELSE IF ~enabled /\ job[j].status = "running" THEN Released(job[j], "queued")
     ELSE job[j]]

\* archiveCommand 'configure'; changed says whether the directory is another one.
Configure(a, enabled, changed) ==
  /\ member[a] /\ Free /\ dest.revision < MaxRevision
  /\ changed => dest.edition \in 1 .. MaxEdition - 1
  /\ LET edition == IF changed \/ dest.edition = 0 THEN dest.edition + 1 ELSE dest.edition IN
     /\ dest' = [revision |-> dest.revision + 1, edition |-> edition, enabled |-> enabled,
                 by |-> a]
     /\ source' = IF changed
                    THEN [d \in Documents |->
                            IF source[d] = "eligible" THEN "earlier" ELSE source[d]]
                    ELSE source
     /\ job' = Reconfigured(changed, enabled, edition)
  /\ UNCHANGED <<member, files, workerVars, faults>>

\* include_existing makes earlier originals eligible too.
Backfill(a) ==
  /\ member[a] /\ Free /\ dest.enabled
  /\ source' = [d \in Documents |-> IF source[d] = "earlier" THEN "eligible" ELSE source[d]]
  /\ job' = Discovered(source')
  /\ UNCHANGED <<dest, member, files, workerVars, faults>>

Retry(a, j) ==
  /\ member[a] /\ Free /\ dest.enabled /\ Edition(j) = dest.edition
  /\ job[j].status = "failed"
  /\ job' = [job EXCEPT ![j] = [Released(@, "queued") EXCEPT !.attempts = 0, !.available = TRUE]]
  /\ UNCHANGED <<dest, member, source, files, workerVars, faults>>

-----------------------------------------------------------------------------
(* A worker.                                                               *)

Move(w, pc) == worker' = [worker EXCEPT ![w].pc = pc]
Fails(w, code) ==
  worker' = [worker EXCEPT ![w] = [Idle EXCEPT !.pc = "failing", !.job = worker[w].job, !.code = code]]
\* Faulty variant: an ended iteration keeps its claim.
LeaveWithClaim(w) == worker' = [worker EXCEPT ![w].pc = "idle"]
Leave(w) == worker' = [worker EXCEPT ![w] = Idle]
Unlock(w) == lock' = IF lock = w THEN NoWorker ELSE lock
JobLocked(j) == ~Free /\ worker[lock].job = j

\* discoverArchives.
Discover ==
  /\ Free /\ dest.edition # 0
  /\ job' = Discovered(source)
  /\ UNCHANGED <<dest, member, source, files, workerVars, faults>>

\* Faulty variant: a running job is never claimed again.
ClaimableQueued(j) ==
  /\ dest.enabled /\ Edition(j) = dest.edition
  /\ job[j].status = "queued" /\ job[j].available /\ job[j].lease # "live"
  /\ ~JobLocked(j)
\* claim_archive_job; the number of attempts is no condition.
Claimable(j) ==
  /\ dest.enabled /\ Edition(j) = dest.edition
  /\ job[j].status \in {"queued", "running"} /\ job[j].available /\ job[j].lease # "live"
  /\ ~JobLocked(j)

Claim(w, j) ==
  /\ worker[w].pc = "idle" /\ Claimable(j)
  /\ job' = [job EXCEPT ![j] = [@ EXCEPT !.status = "running", !.owner = w, !.lease = "live",
                                         !.attempts = job[j].attempts + 1]]
  /\ worker' = [worker EXCEPT ![w] = [Idle EXCEPT !.pc = "claimed", !.job = j]]
  /\ UNCHANGED <<dest, member, source, files, lock, faults>>

Holds(w) ==
  LET r == job[worker[w].job] IN r.status = "running" /\ r.owner = w /\ r.lease = "live"

\* lockedClaim, apart from the configurer's membership.
Authorized == dest.edition # 0 /\ member[dest.by]
Current(w) == dest.enabled /\ Edition(worker[w].job) = dest.edition /\ Holds(w)

\* loadArchiveSource: check the claim, freeze the metadata, read the original (one that is
\* gone or does not match its hash is an error: Throw).
Load(w) ==
  /\ worker[w].pc = "claimed" /\ Free
  /\ IF ~Authorized THEN Fails(w, "unauthorized")
     ELSE IF ~Current(w) THEN Fails(w, "deferred")
     ELSE Move(w, "building")
  /\ UNCHANGED <<dest, member, source, job, files, lock, faults>>

\* buildArchiveBundle answers, and writeLocalArchiveBundle looks whether the bundle is there
\* already and stages the files if not ...
Build(w) ==
  /\ worker[w].pc = "building"
  /\ \E r \in Renders :
       worker' = [worker EXCEPT ![w] = [@ EXCEPT !.pc = "staged", !.bundle = r,
                                                 !.found = files[worker[w].job] # 0]]
  /\ UNCHANGED <<dest, member, source, job, files, lock, faults>>

\* ... or the renderer is busy, or the run is aborted (a stop, a lost lease or admission) ...
Defer(w) ==
  /\ worker[w].pc \in {"building", "staged", "publishing"} /\ Spend
  /\ Fails(w, "deferred") /\ Unlock(w)
  /\ UNCHANGED <<dest, member, source, job, files>>

\* ... or loading, building, staging or the database fails.
Throw(w) ==
  /\ worker[w].pc \in {"claimed", "building", "staged", "publishing", "published"}
  /\ Fails(w, "error") /\ Unlock(w)
  /\ UNCHANGED <<dest, member, source, job, files, faults>>

\* The publishing transaction begins with lockedClaim ...
Lock(w) ==
  /\ worker[w].pc = "staged" /\ Free
  /\ IF ~Authorized THEN Fails(w, "unauthorized") /\ UNCHANGED lock
     ELSE IF ~Current(w) THEN Fails(w, "deferred") /\ UNCHANGED lock
     ELSE Move(w, "publishing") /\ lock' = w
  /\ UNCHANGED <<dest, member, source, job, files, faults>>

\* Faulty variant: an existing bundle is replaced.
FitsAlways(w) == TRUE
\* A bundle that was there must equal the new one; a bundle that was not, still must not be.
Fits(w) ==
  files[worker[w].job] = IF worker[w].found THEN worker[w].bundle ELSE 0

\* ... commit() verifies the existing bundle, or renames the stage into its place ...
Commit(w) ==
  /\ worker[w].pc = "publishing"
  /\ IF Fits(w)
       THEN /\ files' = [files EXCEPT ![worker[w].job] = worker[w].bundle]
            /\ Move(w, "published") /\ UNCHANGED lock
       ELSE Fails(w, "error") /\ Unlock(w) /\ UNCHANGED files
  /\ UNCHANGED <<dest, member, source, job, faults>>

\* Faulty variant: the final update tests the id only.
SettledAlways(w) == TRUE
\* Without its connection the transaction is gone; the wall clock decides about the lease.
Settled(w) == lock = w /\ Holds(w)

\* ... and the receipt is written if the lease has survived, or nothing is.
Settle(w) ==
  /\ worker[w].pc = "published"
  /\ IF Settled(w)
       THEN /\ job' = [job EXCEPT ![worker[w].job] =
                         [Released(@, "archived") EXCEPT !.receipt = worker[w].bundle]]
            /\ Leave(w)
       ELSE Fails(w, "deferred") /\ UNCHANGED job
  /\ Unlock(w)
  /\ UNCHANGED <<dest, member, source, files, faults>>

\* failArchive, under the lease only.
Failed(r, code) ==
  [Released(r, IF code = "unauthorized" THEN "failed"
               ELSE IF code = "deferred" \/ r.attempts < MaxAttempts THEN "queued"
               ELSE "failed")
   EXCEPT !.attempts = IF code = "deferred" /\ @ > 0 THEN @ - 1 ELSE @, !.available = FALSE]

Fail(w) ==
  LET j == worker[w].job IN
  /\ worker[w].pc = "failing" /\ ~JobLocked(j)
  /\ job' = IF Holds(w) THEN [job EXCEPT ![j] = Failed(@, worker[w].code)] ELSE job
  /\ Leave(w)
  /\ UNCHANGED <<dest, member, source, files, lock, faults>>

-----------------------------------------------------------------------------
(* Time and faults.                                                        *)

\* The worker of a live claim renews it every 10 s, unless the database is out of its reach.
Attended(j) ==
  \E w \in Workers : /\ worker[w].job = j /\ Holds(w)
                     /\ worker[w].pc \in {"publishing", "published"} => lock = w

\* A lease nobody renews ends; under an attending worker that is a stall.
Lapse(j) ==
  /\ job[j].lease = "live"
  /\ IF Attended(j) THEN Spend ELSE UNCHANGED faults
  /\ job' = [job EXCEPT ![j].lease = "lapsed"]
  /\ UNCHANGED <<dest, member, source, files, workerVars>>

BecomeAvailable(j) ==
  /\ job[j].status # "none" /\ ~job[j].available
  /\ job' = [job EXCEPT ![j].available = TRUE]
  /\ UNCHANGED <<dest, member, source, files, workerVars, faults>>

\* The database drops the connection of a publishing worker, which does not notice yet.
Disconnect(w) ==
  /\ lock = w /\ Spend
  /\ lock' = NoWorker
  /\ UNCHANGED <<dest, member, source, job, files, worker>>

Crash(w) ==
  /\ worker[w].pc # "idle" /\ Spend
  /\ Leave(w) /\ Unlock(w)
  /\ UNCHANGED <<dest, member, source, job, files>>

-----------------------------------------------------------------------------
Work(w) == \/ Load(w) \/ Build(w) \/ Throw(w) \/ Lock(w) \/ Commit(w)
           \/ Settle(w) \/ Fail(w)

Command(a) ==
  \/ \E enabled, changed \in BOOLEAN : Configure(a, enabled, changed)
  \/ Backfill(a) \/ \E j \in Jobs : Retry(a, j)

Next ==
  \/ \E d \in Documents : Import(d)
  \/ \E a \in Admins : Command(a) \/ ChangeMember(a)
  \/ \E w \in Workers : \/ Work(w) \/ Defer(w) \/ Disconnect(w) \/ Crash(w)
                        \/ \E j \in Jobs : Claim(w, j)
  \/ \E j \in Jobs : Lapse(j) \/ BecomeAvailable(j)
  \/ Discover

Spec == Init /\ [][Next]_vars

(* The worker loop runs and polls, leases and delays end by the clock, and *)
(* the oldest available job is claimed first.                              *)
Fairness ==
  /\ \A w \in Workers : WF_vars(Work(w))
  /\ \A j \in Jobs : /\ WF_vars(BecomeAvailable(j)) /\ WF_vars(~Attended(j) /\ Lapse(j))
                     /\ SF_vars(\E w \in Workers : Claim(w, j))
  /\ WF_vars(Discover)
LiveSpec == Spec /\ Fairness

-----------------------------------------------------------------------------
(* What must hold.                                                         *)

\* A receipt names the bytes that are in the archive, whatever crashed, stalled, lost its
\* connection or ran twice between the rename and the receipt; and a publishing worker
\* that still has its locks works for the current edition of an enabled destination.
ReceiptsMatchFiles ==
  /\ \A j \in Jobs : job[j].status = "archived" => job[j].receipt # 0 /\ files[j] = job[j].receipt
  /\ \A w \in Workers : lock = w =>
       /\ dest.enabled /\ Authorized /\ Edition(worker[w].job) = dest.edition
       /\ job[worker[w].job].status = "running" /\ job[worker[w].job].owner = w

\* "Existing bundles are reused only when they match; conflicting files are never silently
\* replaced", and "changed or expired claims cannot mark themselves complete": a job is
\* archived only by the worker that holds its live claim, for the current edition of an
\* enabled destination whose configuring administrator still is one.
ArchivedUnderAuthority ==
  [][\A j \in Jobs :
       /\ files[j] # 0 => files'[j] = files[j]
       /\ job[j].status # "archived" /\ job'[j].status = "archived" =>
            /\ job[j].owner = lock /\ job[j].lease = "live"
            /\ dest.enabled /\ Authorized /\ Edition(j) = dest.edition]_vars

\* "A database failure after file publication can recover through an idempotent
\* verification on retry": a pending job of the current edition is archived or fails
\* visibly, unless the destination is changed or disabled first, once faults cease.
PendingJobsEnd ==
  \A j \in Jobs :
    job[j].status \in {"queued", "running"} /\ dest.enabled /\ Edition(j) = dest.edition
      ~> job[j].status \in {"archived", "failed"} \/ ~dest.enabled \/ Edition(j) # dest.edition
=============================================================================
