--------------------------- MODULE DocumentQueue ---------------------------
(***************************************************************************)
(* The durable extraction queue: the rows of app_jobs and app_job_queue,   *)
(* the worker processes of scripts/worker.ts that claim, extract and       *)
(* decide, and the requests that submit, cancel, retry, review and purge.  *)
(*                                                                         *)
(* A worker transaction locks the job and then its queue row, and keeps    *)
(* both to its commit, so each transaction is one action.  The steps of an *)
(* iteration between transactions (a claim, a start, the HTTP extraction,  *)
(* the outcome) interleave with everything else.                           *)
(*                                                                         *)
(* A lease is live or lapsed.  It lapses on its own when nobody attends    *)
(* it; under an attending worker, which renews every 20 s of a 90 s lease, *)
(* only when that worker stalls, which spends one of MaxFaults faults.     *)
(***************************************************************************)
EXTENDS Naturals

CONSTANTS
  Workers,      \* document worker processes
  Jobs,         \* job ids; a random UUID, so never reused
  Documents,    \* contents of the stored originals (mode and engine fixed)
  NoDocument,   \* no original
  NoOwner,      \* SQL NULL of lease_owner
  NoJob,        \* a worker with no claim
  NoWorker,     \* no claim decides this job
  MaxAttempts,  \* 3 in the code
  MaxDeferrals, \* 30 in the code
  MaxFaults     \* bound on crashes, stops, stalls, aborts and lost outcomes

ASSUME ConstantsAssumption ==
  /\ NoDocument \notin Documents
  /\ NoJob \notin Jobs /\ NoWorker \notin Workers
  /\ NoOwner \notin Workers \X Nat
  /\ MaxAttempts \in Nat \ {0} /\ MaxDeferrals \in Nat /\ MaxFaults \in Nat

VARIABLES
  status, document, review,  \* app_jobs, app_review_versions, app_accepted_facts
  row,                       \* app_job_queue
  worker,                    \* the iteration each worker process is in
  boot,                      \* which process of the worker runs (its owner UUID)
  stopping,                  \* SIGTERM received
  faults,                    \* faults spent
  holder,                    \* history: whose claim is the latest of a job
  retries, lost              \* history: failed runs, and claims never decided, since queued

jobVars == <<status, document, review>>
history == <<holder, retries, lost>>
vars == <<jobVars, row, worker, boot, stopping, faults, history>>

Pending == {"queued", "processing"}
Active == Pending \cup {"awaiting_review"}
Reviewable == {"awaiting_review", "accepted", "rejected"}
Statuses == Active \cup Reviewable \cup {"unused", "failed", "cancelled", "purged"}
Codes == {"failed", "busy", "rejected"}  \* PROCESSING_FAILED and 5xx, 503, 4xx

Owners == Workers \X Nat
\* A queue row is absent, or available_at is in the future, or it can be claimed.
Row == [state : {"absent", "delayed", "ready"}, owner : Owners \cup {NoOwner},
        lease : {"none", "live", "lapsed"}, attempts : Nat, deferrals : Nat]
NoRow == [state |-> "absent", owner |-> NoOwner, lease |-> "none",
          attempts |-> 0, deferrals |-> 0]
FreshRow == [NoRow EXCEPT !.state = "ready"]

Iteration == [pc : {"idle", "claimed", "dropping", "extracting", "completing", "caught"},
              job : Jobs \cup {NoJob}, attempts : Nat, deferrals : Nat,
              code : Codes, signal : {"running", "aborted"}]
Idle == [pc |-> "idle", job |-> NoJob, attempts |-> 0, deferrals |-> 0,
         code |-> "failed", signal |-> "running"]

TypeOK ==
  /\ status \in [Jobs -> Statuses]
  /\ document \in [Jobs -> Documents \cup {NoDocument}]
  /\ review \in [Jobs -> {"none", "reviewed", "posted"}]
  /\ row \in [Jobs -> Row]
  /\ worker \in [Workers -> Iteration]
  /\ \A w \in Workers : worker[w].pc = "idle" <=> worker[w].job = NoJob
  /\ boot \in [Workers -> Nat]
  /\ stopping \in [Workers -> BOOLEAN]
  /\ faults \in 0 .. MaxFaults
  /\ holder \in [Jobs -> Workers \cup {NoWorker}]
  /\ retries \in [Jobs -> Nat] /\ lost \in [Jobs -> Nat]

Init ==
  /\ status = [j \in Jobs |-> "unused"]
  /\ document = [j \in Jobs |-> NoDocument]
  /\ review = [j \in Jobs |-> "none"]
  /\ row = [j \in Jobs |-> NoRow]
  /\ worker = [w \in Workers |-> Idle]
  /\ boot = [w \in Workers |-> 0]
  /\ stopping = [w \in Workers |-> FALSE]
  /\ faults = 0
  /\ holder = [j \in Jobs |-> NoWorker]
  /\ retries = [j \in Jobs |-> 0] /\ lost = [j \in Jobs |-> 0]

-----------------------------------------------------------------------------
(* The requests.                                                           *)

\* Faulty variant: jobs that await review are not in the index.
IndexAdmitsPending(j, d) == \A k \in Jobs \ {j} : document[k] = d => status[k] \notin Pending

\* The partial unique index app_jobs_active_document_mode_engine lets j become active.
IndexAdmits(j, d) == \A k \in Jobs \ {j} : document[k] = d => status[k] \notin Active

\* Faulty variant: the lease columns survive a cancel and a retry.
RequeuedUnderLease(j, r) ==
  /\ row' = [row EXCEPT ![j] = [r EXCEPT !.owner = row[j].owner, !.lease = row[j].lease]]
  /\ holder' = [holder EXCEPT ![j] = NoWorker]
  /\ retries' = [retries EXCEPT ![j] = 0]
  /\ lost' = [lost EXCEPT ![j] = 0]

\* j's queue row is replaced by r outside any claim: its history starts afresh.
Requeued(j, r) ==
  /\ row' = [row EXCEPT ![j] = r]
  /\ holder' = [holder EXCEPT ![j] = NoWorker]
  /\ retries' = [retries EXCEPT ![j] = 0]
  /\ lost' = [lost EXCEPT ![j] = 0]

\* An upload; with an active job for the same document it returns that job instead.
Upload(j, d) ==
  /\ status[j] = "unused"
  /\ ~\E k \in Jobs : document[k] = d /\ status[k] \in Active
  /\ status' = [status EXCEPT ![j] = "queued"]
  /\ document' = [document EXCEPT ![j] = d]
  /\ Requeued(j, FreshRow)
  /\ UNCHANGED <<review, worker, boot, stopping, faults>>

\* Faulty variant: cancelling leaves the queue row behind.
CancelInPlace(j) ==
  /\ status[j] \in Pending
  /\ status' = [status EXCEPT ![j] = "cancelled"]
  /\ UNCHANGED <<document, review, row, worker, boot, stopping, faults, history>>

Cancel(j) ==
  /\ status[j] \in Pending
  /\ status' = [status EXCEPT ![j] = "cancelled"]
  /\ Requeued(j, NoRow)
  /\ UNCHANGED <<document, review, worker, boot, stopping, faults>>

Retry(j) ==
  /\ status[j] \in {"failed", "cancelled"}
  /\ IndexAdmits(j, document[j])
  /\ status' = [status EXCEPT ![j] = "queued"]
  /\ Requeued(j, FreshRow)
  /\ UNCHANGED <<document, review, worker, boot, stopping, faults>>

\* A review leaves facts open (s = "awaiting_review") or settles them; r says whether any
\* fact of the job is accepted by now, which no later review can undo.
Review(j, s, r) ==
  /\ status[j] \in Reviewable
  /\ review[j] = "posted" => r = "posted"
  /\ s = "accepted" => r = "posted"
  /\ s = "rejected" => r = "reviewed"
  /\ s = "awaiting_review" => IndexAdmits(j, document[j])
  /\ status' = [status EXCEPT ![j] = s]
  /\ review' = [review EXCEPT ![j] = r]
  /\ UNCHANGED <<document, row, worker, boot, stopping, faults, history>>

\* Retention deletes a document with all its jobs (and, by cascade, their queue rows).
Purge(d) ==
  LET gone == {j \in Jobs : document[j] = d} IN
  /\ gone # {}
  /\ \A j \in gone : status[j] \in {"failed", "cancelled", "rejected"} /\ review[j] = "none"
  /\ status' = [j \in Jobs |-> IF j \in gone THEN "purged" ELSE status[j]]
  /\ document' = [j \in Jobs |-> IF j \in gone THEN NoDocument ELSE document[j]]
  /\ row' = [j \in Jobs |-> IF j \in gone THEN NoRow ELSE row[j]]
  /\ UNCHANGED <<review, worker, boot, stopping, faults, history>>

-----------------------------------------------------------------------------
(* A worker iteration.                                                     *)

Me(w) == <<w, boot[w]>>
\* Faulty variant: any live lease counts as the worker's own.
HoldsAnyLease(w) == worker[w].job \in Jobs /\ row[worker[w].job].lease = "live"

\* SELECT ... WHERE id = $1 AND lease_owner = $2 AND lease_until > clock_timestamp()
Holds(w) ==
  LET r == row[worker[w].job] IN
  worker[w].job \in Jobs /\ r.owner = Me(w) /\ r.lease = "live"

\* GREATEST(n - 1, 0)
Less(n) == IF n = 0 THEN 0 ELSE n - 1

Move(w, pc) == worker' = [worker EXCEPT ![w].pc = pc]
Catch(w, code) == worker' = [worker EXCEPT ![w].pc = "caught", ![w].code = code]
Leave(w) == worker' = [worker EXCEPT ![w] = Idle]

\* claimDocumentJob, by any worker that is not stopping: a claim costs an attempt.
\* The stop flag is read at the head of the loop; an iteration that claims just as
\* the stop arrives is a stop just after the claim.
Claim(w, j) ==
  /\ worker[w].pc = "idle" /\ ~stopping[w]
  /\ row[j].state = "ready" /\ row[j].lease # "live"
  /\ row' = [row EXCEPT ![j] = [state |-> "ready", owner |-> Me(w), lease |-> "live",
                                attempts |-> @.attempts + 1, deferrals |-> @.deferrals]]
  /\ worker' = [worker EXCEPT ![w] =
       [pc |-> "claimed", job |-> j, attempts |-> row[j].attempts + 1,
        deferrals |-> row[j].deferrals, code |-> "failed", signal |-> "running"]]
  /\ holder' = [holder EXCEPT ![j] = w]
  /\ lost' = [lost EXCEPT ![j] = IF row[j].owner = NoOwner THEN @ ELSE @ + 1]
  /\ UNCHANGED <<jobVars, boot, stopping, faults, retries>>

\* The starting transaction: fence stale claimants, then show the job as processing.
Start(w) ==
  LET j == worker[w].job IN
  /\ worker[w].pc = "claimed"
  /\ IF status[j] \in Pending /\ Holds(w)
       THEN /\ status' = [status EXCEPT ![j] = "processing"]
            /\ Move(w, "extracting")
       ELSE Move(w, "dropping") /\ UNCHANGED status
  /\ UNCHANGED <<document, review, row, boot, stopping, faults, history>>

\* Nothing to start: the claimed row is discarded, if it is still this worker's.
DropRow(w) ==
  LET j == worker[w].job IN
  /\ worker[w].pc = "dropping"
  /\ row' = IF Holds(w) THEN [row EXCEPT ![j] = NoRow] ELSE row
  /\ Leave(w)
  /\ UNCHANGED <<jobVars, boot, stopping, faults, history>>

\* The processor answers: a valid result, or an error the worker classifies.
Extract(w) ==
  /\ worker[w].pc = "extracting"
  /\ Move(w, "completing") \/ \E c \in {"busy", "rejected"} : Catch(w, c)
  /\ UNCHANGED <<jobVars, row, boot, stopping, faults, history>>

\* Any exception before the outcome: the database, the engine pin, a timeout, an abort,
\* a renewal that found the lease lost.  The transaction under way rolls back.
Throw(w) ==
  /\ worker[w].pc \in {"claimed", "dropping", "extracting", "completing"}
  /\ Catch(w, "failed")
  /\ UNCHANGED <<jobVars, row, boot, stopping, faults, history>>

\* The completing transaction, and the publication after it, which may throw.
Complete(w) ==
  LET j == worker[w].job IN
  /\ worker[w].pc = "completing"
  /\ IF Holds(w)
       THEN /\ status' = [status EXCEPT ![j] =
                            IF @ = "processing" THEN "awaiting_review" ELSE @]
            /\ row' = [row EXCEPT ![j] = NoRow]
       ELSE UNCHANGED <<status, row>>
  /\ Leave(w) \/ Catch(w, "failed")
  /\ UNCHANGED <<document, review, boot, stopping, faults, history>>

RetryDecision(interrupted, code, attempts, deferrals) ==
  IF interrupted THEN "shutdown"
  ELSE IF code = "busy" THEN IF deferrals < MaxDeferrals THEN "capacity" ELSE "fail"
  ELSE IF code = "rejected" THEN "fail"
  ELSE IF attempts < MaxAttempts THEN "retry" ELSE "fail"

Decision(w) == RetryDecision(stopping[w] \/ worker[w].signal = "aborted", worker[w].code,
                             worker[w].attempts, worker[w].deferrals)

\* Faulty variants: every release charges the attempt; capacity is not counted.
ReleasedCharged(r, decision) ==
  [state |-> IF decision = "shutdown" THEN "ready" ELSE "delayed",
   owner |-> NoOwner, lease |-> "none", attempts |-> r.attempts,
   deferrals |-> IF decision = "capacity" THEN r.deferrals + 1 ELSE r.deferrals]
ReleasedUncounted(r, decision) ==
  [state |-> IF decision = "shutdown" THEN "ready" ELSE "delayed",
   owner |-> NoOwner, lease |-> "none",
   attempts |-> IF decision = "retry" THEN r.attempts ELSE Less(r.attempts),
   deferrals |-> r.deferrals]

\* UPDATE app_job_queue: hand the row back after a shutdown, a busy processor or a failure.
Released(r, decision) ==
  [state |-> IF decision = "shutdown" THEN "ready" ELSE "delayed",
   owner |-> NoOwner, lease |-> "none",
   attempts |-> IF decision = "retry" THEN r.attempts ELSE Less(r.attempts),
   deferrals |-> IF decision = "capacity" THEN r.deferrals + 1 ELSE r.deferrals]

\* The catch block's transaction, when the run is to be repeated ...
Requeue(w) ==
  LET j == worker[w].job IN
  /\ worker[w].pc = "caught" /\ Holds(w) /\ Decision(w) # "fail"
  /\ status' = [status EXCEPT ![j] = IF @ = "processing" THEN "queued" ELSE @]
  /\ row' = [row EXCEPT ![j] = Released(@, Decision(w))]
  /\ retries' = [retries EXCEPT ![j] = IF Decision(w) = "retry" THEN @ + 1 ELSE @]
  /\ Leave(w)
  /\ UNCHANGED <<document, review, boot, stopping, faults, holder, lost>>

\* ... when it is not: only a job shown as processing becomes failed, the row goes anyway ...
GiveUp(w) ==
  LET j == worker[w].job IN
  /\ worker[w].pc = "caught" /\ Holds(w) /\ Decision(w) = "fail"
  /\ status' = [status EXCEPT ![j] = IF @ = "processing" THEN "failed" ELSE @]
  /\ row' = [row EXCEPT ![j] = NoRow]
  /\ Leave(w)
  /\ UNCHANGED <<document, review, boot, stopping, faults, history>>

\* ... and when the lease is gone, or the outcome cannot be persisted (a fault).
Abandon(w) ==
  /\ worker[w].pc = "caught"
  /\ IF Holds(w) THEN faults < MaxFaults /\ faults' = faults + 1 ELSE UNCHANGED faults
  /\ Leave(w)
  /\ UNCHANGED <<jobVars, row, boot, stopping, history>>

-----------------------------------------------------------------------------
(* Time and faults.                                                        *)

Attended(j) == \E w \in Workers : worker[w].job = j /\ Holds(w)

\* A lease ends: nobody renews it, or its worker stalled for longer than it lasts.
Lapse(j) ==
  /\ row[j].lease = "live"
  /\ IF Attended(j) THEN faults < MaxFaults /\ faults' = faults + 1 ELSE UNCHANGED faults
  /\ row' = [row EXCEPT ![j].lease = "lapsed"]
  /\ UNCHANGED <<jobVars, worker, boot, stopping, history>>

\* available_at passes.
BecomeReady(j) ==
  /\ row[j].state = "delayed"
  /\ row' = [row EXCEPT ![j].state = "ready"]
  /\ UNCHANGED <<jobVars, worker, boot, stopping, faults, history>>

Spend == faults < MaxFaults /\ faults' = faults + 1

\* SIGTERM: the worker finishes its iteration and ends.
Stop(w) ==
  /\ Spend /\ ~stopping[w]
  /\ stopping' = [stopping EXCEPT ![w] = TRUE]
  /\ UNCHANGED <<jobVars, row, worker, boot, history>>

\* The admission of the iteration is lost: lifecycleSignal aborts.
Abort(w) ==
  /\ Spend /\ worker[w].pc # "idle" /\ worker[w].signal = "running"
  /\ worker' = [worker EXCEPT ![w].signal = "aborted"]
  /\ UNCHANGED <<jobVars, row, boot, stopping, history>>

NewProcess(w) ==
  /\ boot' = [boot EXCEPT ![w] = @ + 1]
  /\ stopping' = [stopping EXCEPT ![w] = FALSE]
  /\ Leave(w)
  /\ UNCHANGED <<jobVars, row, history>>

Crash(w) == Spend /\ NewProcess(w)
Restart(w) == worker[w].pc = "idle" /\ stopping[w] /\ NewProcess(w) /\ UNCHANGED faults

-----------------------------------------------------------------------------
Request ==
  \/ \E j \in Jobs : \/ Cancel(j) \/ Retry(j)
                     \/ \E d \in Documents : Upload(j, d)
                     \/ \E s \in Reviewable, r \in {"reviewed", "posted"} : Review(j, s, r)
  \/ \E d \in Documents : Purge(d)

\* What a worker does by itself once it holds a claim.
Work(w) == \/ Start(w) \/ DropRow(w) \/ Extract(w) \/ Throw(w) \/ Complete(w)
           \/ Requeue(w) \/ GiveUp(w) \/ Abandon(w)

Next ==
  \/ Request
  \/ \E w \in Workers : \/ Work(w) \/ Stop(w) \/ Abort(w) \/ Crash(w) \/ Restart(w)
                        \/ \E j \in Jobs : Claim(w, j)
  \/ \E j \in Jobs : Lapse(j) \/ BecomeReady(j)

Spec == Init /\ [][Next]_vars

(* The worker loop runs, service managers restart ended workers, leases    *)
(* and backoffs end by the clock, and the oldest available row is claimed  *)
(* first.  Requests, crashes and stops are under no obligation.            *)
Fairness ==
  /\ \A w \in Workers : WF_vars(Work(w)) /\ WF_vars(Restart(w))
  /\ \A j \in Jobs : /\ WF_vars(BecomeReady(j))
                     /\ WF_vars(~Attended(j) /\ Lapse(j))
                     /\ SF_vars(\E w \in Workers : Claim(w, j))
LiveSpec == Spec /\ Fairness

-----------------------------------------------------------------------------
(* What must hold.                                                         *)

Queued(j) == row[j].state # "absent"

\* A queue row always belongs to a pending job, and a job is shown as processing only
\* while somebody's claim, live or lapsed, stands on its row: cancelling, retrying,
\* purging and every outcome move app_jobs and app_job_queue together.
QueueConsistent ==
  \A j \in Jobs :
    /\ Queued(j) => status[j] \in Pending
    /\ status[j] = "processing" => Queued(j) /\ row[j].owner # NoOwner

\* While a worker holds its lease, the job is still the one it started: completing never
\* drops the row of a job that is not "processing", and discarding the row after an
\* unsuccessful start (worker.ts:163-169) never takes a job out of the queue, whatever
\* cancels, retries and purges ran since the claim.
ClaimMatchesJob ==
  \A w \in Workers : Holds(w) =>
    /\ worker[w].pc # "dropping"
    /\ worker[w].pc \in {"extracting", "completing"} => status[worker[w].job] = "processing"

\* Retries of failures and deferrals for capacity stay within their limits between two
\* requests of a user, however often claims are lost, stopped or aborted in between.
RetriesBounded ==
  \A j \in Jobs : retries[j] < MaxAttempts /\ row[j].deferrals <= MaxDeferrals

\* Only the worker with the latest claim, made after the last cancel or retry of the job,
\* completes or fails it: an answer for an older claim is never stored.
OnlyLatestClaimDecides ==
  [][\A j \in Jobs :
       status[j] \in Pending /\ status'[j] \in {"awaiting_review", "failed"} =>
         \E w \in Workers : holder[j] = w /\ worker[w].job = j /\ worker'[w] # worker[w]]_vars

\* A job fails only when its request is rejected, when capacity was refused for the last
\* time, or when MaxAttempts claims were really used up by failures and lost claims: a
\* shutdown or a busy processor is never charged as an attempt.
NoPrematureFailure ==
  [][\A j \in Jobs : status[j] # "failed" /\ status'[j] = "failed" =>
       \E w \in Workers : /\ worker[w].job = j
                          /\ \/ worker[w].code = "rejected"
                             \/ worker[w].code = "busy" /\ row[j].deferrals = MaxDeferrals
                             \/ retries[j] + lost[j] + 1 >= MaxAttempts]_vars

\* Every queued job is eventually decided or withdrawn, once crashes and stops cease.
EveryRowIsDecided == \A j \in Jobs : Queued(j) ~> ~Queued(j)

\* A run that fails on attempt three fails the job until it is retried explicitly
\* (lib/server/worker-lifecycle.integration.test.ts:688): it becomes "failed", which the
\* retry route requires, so a job still queued or processing always has a queue row.
PendingIsQueued == \A j \in Jobs : status[j] \in Pending => Queued(j)

\* Leases, attempts, workers and faults are invisible to the user: the queue implements
\* the job lifecycle, with a document's jobs never open twice.
Outcome == INSTANCE JobLifecycle WITH
  state <- [j \in Jobs |-> IF status[j] \in Pending THEN "pending" ELSE status[j]]
ImplementsJobLifecycle == Outcome!Spec
=============================================================================
