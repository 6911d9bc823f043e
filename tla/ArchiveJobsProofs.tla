------------------------- MODULE ArchiveJobsProofs -------------------------
(***************************************************************************)
(* Proofs about ArchiveJobs for any number of workers, documents,          *)
(* editions, renderings and faults.                                        *)
(***************************************************************************)
EXTENDS ArchiveJobs, TLAPS

\* A bundle that was staged is one, a worker that has published finds its bundle in the
\* archive, and only a publishing worker holds the locks.
WorkerKnows(w) ==
  /\ worker[w].pc \in {"staged", "publishing", "published"} => worker[w].bundle # 0
  /\ worker[w].pc = "published" => files[worker[w].job] = worker[w].bundle
  /\ lock = w => worker[w].pc \in {"publishing", "published"}

IInv ==
  /\ TypeOK /\ ReceiptsMatchFiles
  /\ \A w \in Workers : WorkerKnows(w)

LEMMA InitIInv == Init => IInv
<1> SUFFICES ASSUME Init PROVE IInv
  OBVIOUS
<1>1. NoRow \in Job /\ Idle \in Iteration
  BY ConstantsAssumption DEF NoRow, Job, Idle, Iteration
<1>2. TypeOK
  BY <1>1, ConstantsAssumption DEF Init, TypeOK, Destination, NoRow, Idle
<1>3. \A w \in Workers : lock # w /\ worker[w].pc = "idle"
  BY ConstantsAssumption DEF Init, Idle
<1>4. \A j \in Jobs : job[j].status = "none"
  BY DEF Init, NoRow
<1> QED
  BY <1>2, <1>3, <1>4 DEF IInv, WorkerKnows, ReceiptsMatchFiles

\* The rows that a statement writes keep their type; it archives nothing.
OtherRow(r, old) ==
  /\ r \in Job
  /\ r.owner = NoWorker <=> r.lease = "none"
  /\ r.status = "archived" => old.status = "archived" /\ r.receipt = old.receipt

LEMMA ReleasedRow ==
  ASSUME NEW r \in Job,
         NEW status \in {"queued", "failed", "archived"}
  PROVE  LET s == Released(r, status) IN
         /\ s \in Job /\ s.owner = NoWorker /\ s.lease = "none"
         /\ s.status = status /\ s.attempts = r.attempts
  BY DEF Released, Job

LEMMA DiscoveredRows ==
  ASSUME IInv, NEW s, NEW j \in Jobs
  PROVE  OtherRow(Discovered(s)[j], job[j])
<1>1. LET r == [NoRow EXCEPT !.status = "queued", !.available = TRUE] IN
      r \in Job /\ r.owner = NoWorker /\ r.lease = "none" /\ r.status = "queued"
  <2>1. NoRow \in Job /\ NoRow.owner = NoWorker
        /\ NoRow.lease = "none"
    BY ConstantsAssumption DEF NoRow, Job
  <2> QED
    BY <2>1 DEF Job
<1> QED
  BY <1>1 DEF OtherRow, Discovered, IInv, TypeOK

LEMMA ReconfiguredRows ==
  ASSUME IInv, NEW c, NEW e, NEW n, NEW j \in Jobs
  PROVE  OtherRow(Reconfigured(c, e, n)[j], job[j])
<1>1. job[j] \in Job /\ (job[j].owner = NoWorker <=> job[j].lease = "none")
  BY DEF IInv, TypeOK
<1> QED
  BY <1>1, ReleasedRow DEF OtherRow, Reconfigured

LEMMA FailedRow ==
  ASSUME NEW r \in Job, NEW code
  PROVE  LET s == Failed(r, code) IN
         /\ s \in Job /\ s.owner = NoWorker /\ s.lease = "none"
         /\ s.status # "archived"
<1> DEFINE status == IF code = "unauthorized" THEN "failed"
                     ELSE IF code = "deferred" \/ r.attempts < MaxAttempts THEN "queued"
                     ELSE "failed"
<1>1. status \in {"queued", "failed"}
  OBVIOUS
<1> DEFINE s == Released(r, status)
<1>2. s \in Job /\ s.owner = NoWorker /\ s.lease = "none"
      /\ s.status = status
  BY <1>1, ReleasedRow
<1> HIDE DEF status
<1> HIDE DEF s
<1>3. Failed(r, code) =
        [s EXCEPT !.attempts = IF code = "deferred" /\ @ > 0 THEN @ - 1 ELSE @,
                  !.available = FALSE]
  BY DEF Failed, s, status
<1>4. (IF code = "deferred" /\ s.attempts > 0 THEN s.attempts - 1 ELSE s.attempts) \in Nat
  BY <1>2 DEF Job
<1> QED
  BY <1>1, <1>2, <1>3, <1>4 DEF Job

-----------------------------------------------------------------------------
(* Steps that leave the iterations of the workers alone.                   *)

\* Commands and the passing of time write no bundle and archive nothing.
LEMMA OfficeKeeps ==
  ASSUME IInv, UNCHANGED <<files, worker, lock>>,
         dest' \in Destination, dest'.edition = 0 <=> dest'.by = NoAdmin,
         member' \in [Admins -> BOOLEAN],
         source' \in [Documents -> {"absent", "earlier", "eligible"}],
         job' \in [Jobs -> Job],
         \A j \in Jobs : OtherRow(job'[j], job[j]),
         faults' \in 0 .. MaxFaults,
         ~Free => /\ dest' = dest /\ member'[dest.by] = member[dest.by]
                          /\ LET j == worker[lock].job IN
                             job'[j].status = job[j].status /\ job'[j].owner = job[j].owner
  PROVE  IInv'
<1>1. TypeOK'
  BY DEF IInv, TypeOK, OtherRow
<1>2. \A w \in Workers : WorkerKnows(w)'
  BY DEF IInv, WorkerKnows
<1>3. ASSUME NEW j \in Jobs, job'[j].status = "archived"
      PROVE  job'[j].receipt # 0 /\ files'[j] = job'[j].receipt
  BY <1>3 DEF OtherRow, IInv, ReceiptsMatchFiles
<1>4. ASSUME NEW w \in Workers, lock' = w
      PROVE  /\ dest'.enabled /\ Authorized'
             /\ Edition(worker[w].job)' = dest'.edition
             /\ job'[worker[w].job].status = "running" /\ job'[worker[w].job].owner = w
  BY <1>4, ConstantsAssumption DEF IInv, ReceiptsMatchFiles, Authorized, Free, Edition
<1> QED
  BY <1>1, <1>2, <1>3, <1>4 DEF IInv, ReceiptsMatchFiles, Edition

LEMMA SameRows ==
  ASSUME IInv, job' = job
  PROVE  /\ job' \in [Jobs -> Job]
         /\ \A j \in Jobs : OtherRow(job'[j], job[j])
  BY DEF IInv, TypeOK, OtherRow

LEMMA SameOffice ==
  ASSUME IInv, UNCHANGED <<dest, member, source>>
  PROVE  /\ dest' \in Destination /\ (dest'.edition = 0 <=> dest'.by = NoAdmin)
         /\ member' \in [Admins -> BOOLEAN]
         /\ source' \in [Documents -> {"absent", "earlier", "eligible"}]
  BY DEF IInv, TypeOK

LEMMA SpentFaults ==
  ASSUME IInv, Spend \/ faults' = faults
  PROVE  faults' \in 0 .. MaxFaults
  BY ConstantsAssumption DEF IInv, TypeOK, Spend

LEMMA ImportStep ==
  ASSUME IInv, NEW d \in Documents, Import(d)
  PROVE  IInv'
<1>1. source' \in [Documents -> {"absent", "earlier", "eligible"}]
  BY DEF Import, IInv, TypeOK
<1> QED
  BY <1>1, SameRows, SpentFaults, OfficeKeeps
     DEF Import, workerVars, IInv, TypeOK

LEMMA ChangeMemberStep ==
  ASSUME IInv, NEW a \in Admins, ChangeMember(a)
  PROVE  IInv'
<1>1. member' \in [Admins -> BOOLEAN]
  BY DEF ChangeMember, IInv, TypeOK
<1>2. ~Free => member'[dest.by] = member[dest.by]
  <2> SUFFICES ASSUME ~Free PROVE member'[dest.by] = member[dest.by]
    OBVIOUS
  <2>1. dest.by # a /\ member' = [member EXCEPT ![a] = ~@]
    BY DEF ChangeMember
  <2>2. dest.by \in Admins
    BY DEF IInv, TypeOK, ReceiptsMatchFiles, Free,
           Authorized, Destination
  <2> QED
    BY <2>1, <2>2 DEF IInv, TypeOK
<1> QED
  BY <1>1, <1>2, SameRows, SpentFaults, OfficeKeeps
     DEF ChangeMember, workerVars, IInv, TypeOK

LEMMA ConfigureStep ==
  ASSUME IInv, NEW a \in Admins, NEW enabled \in BOOLEAN,
         NEW changed \in BOOLEAN, Configure(a, enabled, changed)
  PROVE  IInv'
<1> DEFINE edition == IF changed \/ dest.edition = 0 THEN dest.edition + 1 ELSE dest.edition
<1>1. dest \in Destination /\ NoAdmin \notin Admins /\ MaxEdition \in Nat \ {0}
      /\ MaxRevision \in Nat
  BY ConstantsAssumption DEF IInv, TypeOK
<1>2. edition \in 1 .. MaxEdition
  BY <1>1 DEF Configure, Destination
<1>3. /\ dest' = [revision |-> dest.revision + 1, edition |-> edition, enabled |-> enabled,
                  by |-> a]
      /\ job' = Reconfigured(changed, enabled, edition)
  BY DEF Configure
<1> HIDE DEF edition
<1>4. dest' \in Destination /\ (dest'.edition = 0 <=> dest'.by = NoAdmin)
  BY <1>1, <1>2, <1>3 DEF Configure, Destination
<1>5. source' \in [Documents -> {"absent", "earlier", "eligible"}]
  BY DEF Configure, IInv, TypeOK
<1>6. \A j \in Jobs : OtherRow(job'[j], job[j])
  BY <1>3, ReconfiguredRows
<1>7. job' \in [Jobs -> Job]
  BY <1>3, <1>6 DEF Reconfigured, OtherRow
<1> QED
  BY <1>4, <1>5, <1>6, <1>7, SpentFaults, OfficeKeeps
     DEF Configure, workerVars, IInv, TypeOK

LEMMA DiscoverStep ==
  ASSUME IInv,
         Discover \/ \E a \in Admins : Backfill(a)
  PROVE  IInv'
<1>1. PICK s : job' = Discovered(s)
  BY DEF Discover, Backfill
<1>2. \A j \in Jobs : OtherRow(job'[j], job[j])
  BY <1>1, DiscoveredRows
<1>3. job' \in [Jobs -> Job]
  BY <1>1, <1>2 DEF Discovered, OtherRow
<1>4. source' \in [Documents -> {"absent", "earlier", "eligible"}]
  BY DEF Discover, Backfill, IInv, TypeOK
<1> QED
  BY <1>2, <1>3, <1>4, SpentFaults, OfficeKeeps
     DEF Discover, Backfill, workerVars, IInv, TypeOK

\* One row is written, which no publishing worker has locked unless it keeps its claim.
LEMMA OneRow ==
  ASSUME IInv, NEW j \in Jobs, NEW r,
         OtherRow(r, job[j]), job' = [job EXCEPT ![j] = r],
         \/ ~JobLocked(j)
         \/ r.status = job[j].status /\ r.owner = job[j].owner
  PROVE  /\ job' \in [Jobs -> Job]
         /\ \A k \in Jobs : OtherRow(job'[k], job[k])
         /\ ~Free => LET k == worker[lock].job IN
              job'[k].status = job[k].status /\ job'[k].owner = job[k].owner
<1>1. job' \in [Jobs -> Job] /\ job'[j] = r
      /\ \A k \in Jobs \ {j} : job'[k] = job[k]
  BY DEF IInv, TypeOK, OtherRow
<1>2. \A k \in Jobs : OtherRow(job'[k], job[k])
  BY <1>1 DEF OtherRow, IInv, TypeOK
<1>3. ~Free => worker[lock].job \in Jobs
  BY DEF IInv, TypeOK, WorkerKnows, Free, Iteration
<1> QED
  BY <1>1, <1>2, <1>3 DEF JobLocked

LEMMA RowStep ==
  ASSUME IInv, NEW j \in Jobs,
         \/ \E a \in Admins : Retry(a, j)
         \/ Lapse(j) \/ BecomeAvailable(j)
  PROVE  IInv'
<1>1. job[j] \in Job /\ (job[j].owner = NoWorker <=> job[j].lease = "none")
  BY DEF IInv, TypeOK
<1>2. CASE \E a \in Admins : Retry(a, j)
  <2> DEFINE r == [Released(job[j], "queued") EXCEPT !.attempts = 0, !.available = TRUE]
  <2>0. LET s == Released(job[j], "queued") IN
        s \in Job /\ s.owner = NoWorker /\ s.lease = "none" /\ s.status = "queued"
    BY <1>1, ReleasedRow
  <2>1. OtherRow(r, job[j])
    BY <2>0 DEF OtherRow, Job
  <2>2. job' = [job EXCEPT ![j] = r] /\ ~JobLocked(j)
    BY <1>2 DEF Retry, JobLocked
  <2> HIDE DEF r
  <2> QED
    BY <1>2, <2>1, <2>2, OneRow, SameOffice, SpentFaults, OfficeKeeps
       DEF Retry, workerVars
<1>3. CASE Lapse(j) \/ BecomeAvailable(j)
  <2>1. PICK r : /\ job' = [job EXCEPT ![j] = r]
                 /\ \/ r = [job[j] EXCEPT !.lease = "lapsed"] /\ job[j].lease = "live"
                    \/ r = [job[j] EXCEPT !.available = TRUE]
    BY <1>3 DEF Lapse, BecomeAvailable
  <2>2. OtherRow(r, job[j]) /\ r.status = job[j].status /\ r.owner = job[j].owner
    BY <1>1, <2>1 DEF OtherRow, Job
  <2> QED
    BY <1>3, <2>1, <2>2, OneRow, SameOffice, SpentFaults, OfficeKeeps
       DEF Lapse, BecomeAvailable, workerVars
<1> QED
  BY <1>2, <1>3

-----------------------------------------------------------------------------
(* Steps of a worker.                                                      *)

\* What a step of one worker must keep: bundles in place stay, a row that is archived has
\* its bundle's receipt, and what the locks protect stays as it was or was checked.
LEMMA WorkerKeeps ==
  ASSUME IInv, UNCHANGED <<dest, member, source>>,
         NEW w \in Workers, NEW i \in Iteration, worker' = [worker EXCEPT ![w] = i],
         i.pc = "idle" <=> i.job = NoJob,
         i.pc \in {"staged", "publishing", "published"} => i.bundle # 0,
         i.pc = "published" => files'[i.job] = i.bundle,
         files' \in [Jobs -> 0 .. Renderings],
         \A j \in Jobs : files[j] # 0 => files'[j] = files[j],
         job' \in [Jobs -> Job],
         \A j \in Jobs :
           /\ job'[j].owner = NoWorker <=> job'[j].lease = "none"
           /\ job'[j].status = "archived" =>
                \/ job[j].status = "archived" /\ job'[j].receipt = job[j].receipt
                \/ job'[j].receipt # 0 /\ files'[j] = job'[j].receipt,
         lock' \in {lock, NoWorker, w},
         lock' = w => /\ i.pc \in {"publishing", "published"}
                      /\ dest.enabled /\ Authorized
                      /\ Edition(i.job) = dest.edition
                      /\ job'[i.job].status = "running" /\ job'[i.job].owner = w,
         ~Free /\ lock # w => LET k == worker[lock].job IN
           job'[k].status = job[k].status /\ job'[k].owner = job[k].owner,
         faults' \in 0 .. MaxFaults
  PROVE  IInv'
<1>1. /\ worker' \in [Workers -> Iteration] /\ worker'[w] = i
      /\ \A v \in Workers \ {w} : worker'[v] = worker[v]
  BY DEF IInv, TypeOK
<1>2. \A v \in Workers : worker'[v].pc = "idle" <=> worker'[v].job = NoJob
  BY <1>1 DEF IInv, TypeOK
<1>3. TypeOK'
  BY <1>1, <1>2 DEF IInv, TypeOK
<1>4. ASSUME NEW v \in Workers PROVE WorkerKnows(v)'
  <2>1. CASE v = w
    BY <1>1, <2>1 DEF WorkerKnows
  <2>2. CASE v # w
    <3>1. worker'[v] = worker[v] /\ (lock' = v => lock = v) /\ WorkerKnows(v)
          /\ v # NoWorker
      BY <1>1, <2>2, ConstantsAssumption DEF IInv
    <3>2. worker[v].pc = "published" => worker[v].job \in Jobs
      BY DEF IInv, TypeOK, Iteration
    <3> QED
      BY <3>1, <3>2 DEF WorkerKnows
  <2> QED
    BY <2>1, <2>2
<1>5. ASSUME NEW j \in Jobs, job'[j].status = "archived"
      PROVE  job'[j].receipt # 0 /\ files'[j] = job'[j].receipt
  BY <1>5 DEF IInv, ReceiptsMatchFiles
<1>6. ASSUME NEW v \in Workers, lock' = v
      PROVE  /\ dest'.enabled /\ Authorized'
             /\ Edition(worker'[v].job) = dest'.edition
             /\ job'[worker'[v].job].status = "running" /\ job'[worker'[v].job].owner = v
  <2>1. Authorized' = Authorized
    BY DEF Authorized
  <2>2. CASE v = w
    BY <1>1, <1>6, <2>1, <2>2
  <2>3. CASE v # w
    <3>1. lock = v /\ ~Free /\ worker'[v] = worker[v]
      BY <1>1, <1>6, <2>3, ConstantsAssumption DEF Free
    <3> QED
      BY <1>6, <2>1, <2>3, <3>1 DEF IInv, ReceiptsMatchFiles
  <2> QED
    BY <2>2, <2>3
<1> QED
  BY <1>3, <1>4, <1>5, <1>6 DEF IInv, ReceiptsMatchFiles, Edition

\* What is true of rows that no statement wrote.
LEMMA UnwrittenRows ==
  ASSUME IInv, job' = job
  PROVE  /\ job' \in [Jobs -> Job]
         /\ \A j \in Jobs :
              /\ job'[j].owner = NoWorker <=> job'[j].lease = "none"
              /\ job'[j].status = "archived" =>
                   job[j].status = "archived" /\ job'[j].receipt = job[j].receipt
         /\ LET k == worker[lock].job IN
              job'[k].status = job[k].status /\ job'[k].owner = job[k].owner
  BY DEF IInv, TypeOK

LEMMA SameFiles ==
  ASSUME IInv, files' = files
  PROVE  /\ files' \in [Jobs -> 0 .. Renderings]
         /\ \A j \in Jobs : files[j] # 0 => files'[j] = files[j]
  BY DEF IInv, TypeOK

LEMMA IdleIteration == /\ Idle \in Iteration
         /\ Idle.pc = "idle" /\ Idle.job = NoJob
  BY ConstantsAssumption DEF Idle, Iteration

LEMMA ClaimedIteration ==
  ASSUME NEW j \in Jobs, NEW i,
         i = [Idle EXCEPT !.pc = "claimed", !.job = j]
  PROVE  i \in Iteration /\ i.pc = "claimed" /\ i.job = j
  BY IdleIteration DEF Iteration

LEMMA FailingIteration ==
  ASSUME NEW j \in Jobs, NEW i,
         NEW code \in {"error", "deferred", "unauthorized"},
         i = [Idle EXCEPT !.pc = "failing", !.job = j, !.code = code]
  PROVE  i \in Iteration /\ i.pc = "failing" /\ i.job = j
  BY IdleIteration DEF Iteration

\* A worker that is in an iteration has a job, and no other worker holds its locks.
LEMMA ActiveIteration ==
  ASSUME IInv, NEW w \in Workers, worker[w].pc # "idle"
  PROVE  /\ worker[w] \in Iteration
         /\ worker[w].job \in Jobs /\ worker[w].job # NoJob
  BY DEF IInv, TypeOK, Iteration

\* An iteration that ends or fails, from wherever it was, with its locks.
LEMMA GivesUp ==
  ASSUME IInv, NEW w \in Workers, worker[w].pc # "idle",
         UNCHANGED <<dest, member, source, job, files>>,
         Spend \/ faults' = faults,
         Leave(w) \/ \E c \in {"error", "deferred", "unauthorized"} : Fails(w, c),
         (lock # w /\ lock' = lock) \/ Unlock(w)
  PROVE  IInv'
<1>1. PICK i \in Iteration :
        /\ worker' = [worker EXCEPT ![w] = i]
        /\ i.pc \in {"idle", "failing"} /\ (i.pc = "idle" <=> i.job = NoJob)
  <2>1. CASE Leave(w)
    BY <2>1, IdleIteration DEF Leave
  <2>2. ASSUME NEW c \in {"error", "deferred", "unauthorized"}, Fails(w, c)
        PROVE  \E i \in Iteration : /\ worker' = [worker EXCEPT ![w] = i]
                                     /\ i.pc = "failing" /\ i.job # NoJob
    <3> DEFINE i == [Idle EXCEPT !.pc = "failing", !.job = worker[w].job, !.code = c]
    <3>1. i \in Iteration /\ i.pc = "failing" /\ i.job # NoJob
      <4>1. worker[w].job \in Jobs /\ worker[w].job # NoJob
        BY ActiveIteration
      <4> QED
        BY <4>1, FailingIteration
    <3> QED
      BY <2>2, <3>1 DEF Fails
  <2> QED
    BY <2>1, <2>2
<1>2. lock' \in {lock, NoWorker} /\ lock' # w
  BY ConstantsAssumption DEF Unlock
<1> QED
  BY <1>1, <1>2, UnwrittenRows, SameFiles, SpentFaults, WorkerKeeps

LEMMA LoadStep ==
  ASSUME IInv, NEW w \in Workers, Load(w)
  PROVE  IInv'
<1>1. worker[w].pc = "claimed" /\ lock # w
  BY DEF Load, IInv, WorkerKnows
<1>2. CASE \E c \in {"error", "deferred", "unauthorized"} : Fails(w, c)
  BY <1>1, <1>2, GivesUp DEF Load
<1>3. CASE Move(w, "building")
  <2> DEFINE i == [worker[w] EXCEPT !.pc = "building"]
  <2>1. i \in Iteration /\ i.pc = "building" /\ i.job = worker[w].job /\ i.job # NoJob
    BY <1>1, ActiveIteration DEF Iteration
  <2>2. worker' = [worker EXCEPT ![w] = i]
    BY <1>3 DEF Move
  <2> HIDE DEF i
  <2> QED
    BY <1>1, <2>1, <2>2, UnwrittenRows, SameFiles, SpentFaults, WorkerKeeps DEF Load
<1> QED
  BY <1>2, <1>3 DEF Load

LEMMA BuildStep ==
  ASSUME IInv, NEW w \in Workers, Build(w)
  PROVE  IInv'
<1>1. worker[w].pc = "building" /\ lock # w
  BY DEF Build, IInv, WorkerKnows
<1>2. PICK r \in Renders :
        worker' = [worker EXCEPT ![w] = [@ EXCEPT !.pc = "staged", !.bundle = r,
                                                      !.found = files[worker[w].job] # 0]]
  BY DEF Build
<1> DEFINE i == [worker[w] EXCEPT !.pc = "staged", !.bundle = r,
                                    !.found = files[worker[w].job] # 0]
<1>3. i \in Iteration /\ i.pc = "staged" /\ i.job # NoJob /\ i.bundle # 0
  <2>1. r \in 0 .. Renderings /\ r # 0
    BY ConstantsAssumption DEF Renders
  <2> QED
    BY <1>1, <2>1, ActiveIteration DEF Iteration
<1>4. worker' = [worker EXCEPT ![w] = i]
  BY <1>2
<1> HIDE DEF i
<1> QED
  BY <1>1, <1>3, <1>4, UnwrittenRows, SameFiles, SpentFaults, WorkerKeeps DEF Build

LEMMA GiveUpStep ==
  ASSUME IInv, NEW w \in Workers,
         Defer(w) \/ Throw(w) \/ Crash(w)
  PROVE  IInv'
<1>1. worker[w].pc # "idle"
  BY DEF Defer, Throw, Crash
<1> QED
  BY <1>1, GivesUp DEF Defer, Throw, Crash

LEMMA DisconnectStep ==
  ASSUME IInv, NEW w \in Workers, Disconnect(w)
  PROVE  IInv'
<1>1. faults' \in 0 .. MaxFaults
  BY SpentFaults DEF Disconnect
<1> QED
  BY <1>1, ConstantsAssumption DEF Disconnect, IInv, TypeOK, WorkerKnows, ReceiptsMatchFiles

LEMMA LockStep ==
  ASSUME IInv, NEW w \in Workers, Lock(w)
  PROVE  IInv'
<1>1. worker[w].pc = "staged" /\ lock # w /\ Free /\ worker[w].bundle # 0
  BY DEF Lock, IInv, WorkerKnows
<1>2. CASE \E c \in {"error", "deferred", "unauthorized"} : Fails(w, c) /\ lock' = lock
  BY <1>1, <1>2, GivesUp DEF Lock
<1>3. CASE Move(w, "publishing") /\ lock' = w /\ Authorized /\ Current(w)
  <2> DEFINE i == [worker[w] EXCEPT !.pc = "publishing"]
  <2>1. /\ i \in Iteration /\ i.pc = "publishing" /\ i.job = worker[w].job
        /\ i.job # NoJob /\ i.bundle # 0
    BY <1>1, ActiveIteration DEF Iteration
  <2>2. worker' = [worker EXCEPT ![w] = i]
    BY <1>3 DEF Move
  <2> HIDE DEF i
  <2>3. /\ dest.enabled /\ Edition(i.job) = dest.edition
        /\ job[i.job].status = "running" /\ job[i.job].owner = w
    BY <1>3, <2>1 DEF Current, Holds
  <2> QED
    BY <1>1, <1>3, <2>1, <2>2, <2>3, UnwrittenRows, SameFiles, SpentFaults, WorkerKeeps
       DEF Lock
<1> QED
  BY <1>2, <1>3 DEF Lock

LEMMA CommitStep ==
  ASSUME IInv, NEW w \in Workers, Commit(w)
  PROVE  IInv'
<1>1. /\ worker[w].pc = "publishing" /\ worker[w].bundle # 0
      /\ worker[w] \in Iteration
      /\ worker[w].job \in Jobs /\ worker[w].job # NoJob
  BY ActiveIteration DEF Commit, IInv, WorkerKnows
<1>2. CASE ~Fits(w)
  BY <1>1, <1>2, GivesUp DEF Commit
<1>3. CASE Fits(w)
  <2> DEFINE i == [worker[w] EXCEPT !.pc = "published"]
  <2>1. /\ i \in Iteration /\ i.pc = "published" /\ i.job = worker[w].job
        /\ i.bundle = worker[w].bundle
    BY <1>1 DEF Iteration
  <2>2. worker' = [worker EXCEPT ![w] = i]
    BY <1>3 DEF Commit, Move
  <2> HIDE DEF i
  <2>3. files' = [files EXCEPT ![i.job] = i.bundle] /\ i.bundle \in 0 .. Renderings
    BY <1>1, <1>3, <2>1 DEF Commit, Iteration
  <2>4. /\ files' \in [Jobs -> 0 .. Renderings] /\ files'[i.job] = i.bundle
        /\ \A j \in Jobs : files[j] # 0 => files'[j] = files[j]
    BY <1>1, <1>3, <2>1, <2>3 DEF Fits, IInv, TypeOK
  <2>5. lock' = lock /\ UNCHANGED <<dest, member, source, job, faults>>
    BY <1>3 DEF Commit
  <2>6. lock = w => /\ dest.enabled /\ Authorized
                    /\ Edition(i.job) = dest.edition
                    /\ job[i.job].status = "running" /\ job[i.job].owner = w
    BY <2>1 DEF IInv, ReceiptsMatchFiles
  <2>7. i.pc = "published" => files'[i.job] = i.bundle
    BY <2>4
  <2>8. /\ faults' \in 0 .. MaxFaults
        /\ job' \in [Jobs -> Job]
        /\ \A j \in Jobs :
             /\ job'[j].owner = NoWorker <=> job'[j].lease = "none"
             /\ job'[j].status = "archived" =>
                  job[j].status = "archived" /\ job'[j].receipt = job[j].receipt
    BY <2>5, UnwrittenRows, SpentFaults
  <2> QED
    BY <1>1, <2>1, <2>2, <2>4, <2>5, <2>6, <2>7, <2>8, WorkerKeeps
<1> QED
  BY <1>2, <1>3

\* The row that a worker writes for its own job; a publishing worker has locked its row.
LEMMA OwnRow ==
  ASSUME IInv, NEW j \in Jobs,
         NEW r \in Job, r.owner = NoWorker <=> r.lease = "none",
         r.status = "archived" => r.receipt # 0 /\ files'[j] = r.receipt,
         job' = [job EXCEPT ![j] = r]
  PROVE  /\ job' \in [Jobs -> Job] /\ job'[j] = r
         /\ \A k \in Jobs :
              /\ job'[k].owner = NoWorker <=> job'[k].lease = "none"
              /\ job'[k].status = "archived" =>
                   \/ job[k].status = "archived" /\ job'[k].receipt = job[k].receipt
                   \/ job'[k].receipt # 0 /\ files'[k] = job'[k].receipt
         /\ \A k : k # j => job'[k] = job[k]
  BY DEF IInv, TypeOK

LEMMA ClaimStep ==
  ASSUME IInv, NEW w \in Workers,
         NEW j \in Jobs, Claim(w, j)
  PROVE  IInv'
<1>1. worker[w].pc = "idle" /\ lock # w /\ ~JobLocked(j)
  BY DEF Claim, Claimable, IInv, WorkerKnows
<1> DEFINE i == [Idle EXCEPT !.pc = "claimed", !.job = j]
<1>2. i \in Iteration /\ i.pc = "claimed" /\ i.job # NoJob
  BY ClaimedIteration, ConstantsAssumption DEF Jobs
<1>3. worker' = [worker EXCEPT ![w] = i]
  BY DEF Claim
<1> HIDE DEF i
<1> DEFINE count == job[j].attempts + 1
           r == [job[j] EXCEPT !.status = "running", !.owner = w, !.lease = "live",
                               !.attempts = count]
<1>0. job[j] \in Job /\ count \in Nat
  BY DEF IInv, TypeOK, Job
<1>5. job' = [job EXCEPT ![j] = r]
  BY DEF Claim
<1> HIDE DEF count
<1>4. r \in Job /\ r.status = "running" /\ r.owner # NoWorker /\ r.lease # "none"
  BY <1>0, ConstantsAssumption DEF Job
<1> HIDE DEF r
<1>6. \A k : k # j => job'[k] = job[k]
  BY <1>4, <1>5, OwnRow
<1>7. ~Free => LET k == worker[lock].job IN
        job'[k].status = job[k].status /\ job'[k].owner = job[k].owner
  BY <1>1, <1>6 DEF JobLocked
<1>8. UNCHANGED <<dest, member, source, files, lock, faults>>
  BY DEF Claim
<1>9. /\ job' \in [Jobs -> Job]
      /\ \A k \in Jobs :
           /\ job'[k].owner = NoWorker <=> job'[k].lease = "none"
           /\ job'[k].status = "archived" =>
                \/ job[k].status = "archived" /\ job'[k].receipt = job[k].receipt
                \/ job'[k].receipt # 0 /\ files'[k] = job'[k].receipt
  BY <1>4, <1>5, OwnRow
<1> QED
  BY <1>1, <1>2, <1>3, <1>7, <1>8, <1>9, SameFiles, SpentFaults, WorkerKeeps

LEMMA SettleStep ==
  ASSUME IInv, NEW w \in Workers, Settle(w)
  PROVE  IInv'
<1>1. /\ worker[w].pc = "published" /\ worker[w].bundle # 0
      /\ worker[w] \in Iteration
      /\ worker[w].job \in Jobs
      /\ files[worker[w].job] = worker[w].bundle
  BY ActiveIteration DEF Settle, IInv, WorkerKnows
<1>2. CASE ~Settled(w)
  BY <1>1, <1>2, GivesUp DEF Settle
<1>3. CASE Settled(w)
  <2> DEFINE j == worker[w].job
             r == [Released(job[j], "archived") EXCEPT !.receipt = worker[w].bundle]
  <2>1. job[j] \in Job
    BY <1>1 DEF IInv, TypeOK
  <2>2. /\ r \in Job /\ r.owner = NoWorker /\ r.lease = "none"
        /\ r.receipt = worker[w].bundle
    BY <1>1, <2>1, ReleasedRow DEF Job, Iteration
  <2>3. job' = [job EXCEPT ![j] = r]
    BY <1>3 DEF Settle
  <2> HIDE DEF r
  <2>4. lock = w /\ lock' = NoWorker /\ lock' # w
    BY <1>3, ConstantsAssumption DEF Settle, Settled, Unlock
  <2>5. worker' = [worker EXCEPT ![w] = Idle]
    BY <1>3 DEF Settle, Leave
  <2>6. UNCHANGED <<dest, member, source, files, faults>>
    BY DEF Settle
  <2> QED
    BY <1>1, <2>2, <2>3, <2>4, <2>5, <2>6, OwnRow, IdleIteration, SameFiles, SpentFaults,
       WorkerKeeps
<1> QED
  BY <1>2, <1>3

LEMMA FailStep ==
  ASSUME IInv, NEW w \in Workers, Fail(w)
  PROVE  IInv'
<1> DEFINE j == worker[w].job
<1>1. /\ worker[w].pc = "failing" /\ lock # w /\ j \in Jobs
      /\ ~JobLocked(j)
  BY ActiveIteration DEF Fail, IInv, WorkerKnows
<1>2. CASE ~Holds(w)
  BY <1>1, <1>2, GivesUp DEF Fail
<1>3. CASE Holds(w)
  <2> DEFINE r == Failed(job[j], worker[w].code)
  <2>1. job[j] \in Job
    BY <1>1 DEF IInv, TypeOK
  <2>2. /\ r \in Job /\ r.owner = NoWorker /\ r.lease = "none"
        /\ r.status # "archived"
    BY <2>1, FailedRow
  <2>3. job' = [job EXCEPT ![j] = r]
    BY <1>3 DEF Fail
  <2> HIDE DEF r
  <2>4. \A k : k # j => job'[k] = job[k]
    BY <1>1, <2>2, <2>3, OwnRow
  <2>5. worker' = [worker EXCEPT ![w] = Idle]
    BY DEF Fail, Leave
  <2>6. UNCHANGED <<dest, member, source, files, lock, faults>>
    BY DEF Fail
  <2> QED
    BY <1>1, <2>2, <2>3, <2>4, <2>5, <2>6, OwnRow, IdleIteration, SameFiles, SpentFaults,
       WorkerKeeps DEF JobLocked
<1> QED
  BY <1>2, <1>3

LEMMA NextIInv ==
  ASSUME IInv, [Next]_vars
  PROVE  IInv'
<1>1. CASE UNCHANGED vars
  BY <1>1 DEF vars, IInv, TypeOK, ReceiptsMatchFiles,
              WorkerKnows, Authorized
<1>2. CASE \E d \in Documents : Import(d)
  BY <1>2, ImportStep
<1>3. ASSUME NEW a \in Admins, Command(a) \/ ChangeMember(a)
      PROVE  IInv'
  BY <1>3, ConfigureStep, DiscoverStep, RowStep, ChangeMemberStep DEF Command
<1>4. ASSUME NEW w \in Workers,
             Work(w) \/ Defer(w) \/ Disconnect(w) \/ Crash(w)
      PROVE  IInv'
  BY <1>4, LoadStep, BuildStep, GiveUpStep, LockStep, CommitStep, SettleStep, FailStep,
     DisconnectStep DEF Work
<1>5. CASE \E w \in Workers, j \in Jobs : Claim(w, j)
  BY <1>5, ClaimStep
<1>6. CASE \E j \in Jobs : Lapse(j) \/ BecomeAvailable(j)
  BY <1>6, RowStep
<1>7. CASE Discover
  BY <1>7, DiscoverStep
<1> QED
  BY <1>1, <1>2, <1>3, <1>4, <1>5, <1>6, <1>7 DEF Next

\* The inductive invariant of the archive: only a worker that published its bundle can hold
\* a receipt for it, and the locks stand for the authority that was examined under them.
THEOREM Inductive == Spec => []IInv
<1>1. Init => IInv
  BY InitIInv
<1>2. IInv /\ [Next]_vars => IInv'
  BY NextIInv
<1> QED
  BY <1>1, <1>2, PTL DEF Spec

\* The archive's variables keep their types; no row has an owner without a lease.
THEOREM TypeInvariant == Spec => []TypeOK
<1>1. IInv => TypeOK
  BY DEF IInv
<1> QED
  BY <1>1, Inductive, PTL

\* A job counts as archived only with the receipt of the bundle that is in the archive under
\* its name, and a publishing worker has its job and its authority until it lets go
\* (lib/server/archive-store.ts and archive-jobs.ts).
THEOREM Receipts == Spec => []ReceiptsMatchFiles
<1>1. IInv => ReceiptsMatchFiles
  BY DEF IInv
<1> QED
  BY <1>1, Inductive, PTL

\* Which statements write bundles and receipts.
LEMMA OnlyCommitPublishes ==
  ASSUME IInv, Next
  PROVE  files' = files \/ \E w \in Workers : Commit(w) /\ Fits(w)
  BY DEF Next, Command, Work, Import, ChangeMember,
         Configure, Backfill, Retry, Load, Build,
         Throw, Lock, Commit, Settle, Fail,
         Defer, Disconnect, Crash, Claim, Lapse,
         BecomeAvailable, Discover

LEMMA OnlySettleArchives ==
  ASSUME IInv, Next, NEW j \in Jobs,
         job[j].status # "archived", job'[j].status = "archived"
  PROVE  \E w \in Workers :
           Settle(w) /\ Settled(w) /\ worker[w].job = j
<1>1. job[j] \in Job
  BY DEF IInv, TypeOK
<1>2. job' # job
  OBVIOUS
<1>3. ASSUME NEW a \in Admins, Command(a) PROVE FALSE
  <2>1. CASE Backfill(a)
    BY <2>1, DiscoveredRows DEF Backfill, OtherRow
  <2>2. CASE \E enabled, changed \in BOOLEAN : Configure(a, enabled, changed)
    BY <2>2, ReconfiguredRows DEF Configure, OtherRow
  <2>3. ASSUME NEW k \in Jobs, Retry(a, k) PROVE FALSE
    <3>1. Released(job[j], "queued") \in Job
          /\ Released(job[j], "queued").status = "queued"
      BY <1>1, ReleasedRow
    <3> QED
      BY <2>3, <3>1 DEF Retry, IInv, TypeOK, Job
  <2> QED
    BY <1>3, <2>1, <2>2, <2>3 DEF Command
<1>4. CASE Discover
  BY <1>4, DiscoveredRows DEF Discover, OtherRow
<1>5. ASSUME NEW k \in Jobs, Lapse(k) \/ BecomeAvailable(k) PROVE FALSE
  BY <1>1, <1>5 DEF Lapse, BecomeAvailable, IInv, TypeOK, Job
<1>6. ASSUME NEW w \in Workers, NEW k \in Jobs, Claim(w, k) PROVE FALSE
  BY <1>1, <1>6 DEF Claim, IInv, TypeOK, Job
<1>7. ASSUME NEW w \in Workers, Fail(w) PROVE FALSE
  <2>1. Failed(job[j], worker[w].code).status # "archived"
    BY <1>1, FailedRow
  <2> QED
    BY <1>7, <2>1, ActiveIteration DEF Fail, IInv, TypeOK
<1>8. PICK w \in Workers : Settle(w)
  BY <1>2, <1>3, <1>4, <1>5, <1>6, <1>7
     DEF Next, Work, Import, ChangeMember,
         Load, Build, Throw, Lock, Commit,
         Defer, Disconnect, Crash
<1> QED
  BY <1>2, <1>8 DEF Settle, IInv, TypeOK

\* Bundles in place are never replaced, and only a worker with its locks and its live claim
\* archives a job, for the current edition and under an administrator who still is one.
THEOREM Authority == Spec => ArchivedUnderAuthority
<1> DEFINE A == \A j \in Jobs :
                  /\ files[j] # 0 => files'[j] = files[j]
                  /\ job[j].status # "archived" /\ job'[j].status = "archived" =>
                       /\ job[j].owner = lock /\ job[j].lease = "live"
                       /\ dest.enabled /\ Authorized /\ Edition(j) = dest.edition
<1>1. ASSUME IInv, Next PROVE A
  <2> SUFFICES ASSUME NEW j \in Jobs
               PROVE  /\ files[j] # 0 => files'[j] = files[j]
                      /\ job[j].status # "archived" /\ job'[j].status = "archived" =>
                           /\ job[j].owner = lock /\ job[j].lease = "live"
                           /\ dest.enabled /\ Authorized
                           /\ Edition(j) = dest.edition
    OBVIOUS
  <2>1. files[j] # 0 => files'[j] = files[j]
    BY <1>1, OnlyCommitPublishes DEF Commit, Fits, IInv, TypeOK
  <2>2. ASSUME job[j].status # "archived", job'[j].status = "archived"
        PROVE  /\ job[j].owner = lock /\ job[j].lease = "live"
               /\ dest.enabled /\ Authorized /\ Edition(j) = dest.edition
    <3>1. PICK w \in Workers :
            Settle(w) /\ Settled(w) /\ worker[w].job = j
      BY <1>1, <2>2, OnlySettleArchives
    <3>2. lock = w /\ job[j].owner = w /\ job[j].lease = "live"
      BY <3>1 DEF Settled, Holds
    <3> QED
      BY <1>1, <3>1, <3>2 DEF IInv, ReceiptsMatchFiles
  <2> QED
    BY <2>1, <2>2
<1>2. IInv /\ [Next]_vars => [A]_vars
  BY <1>1
<1> QED
  BY <1>2, Inductive, PTL DEF Spec, ArchivedUnderAuthority
=============================================================================
