--------------------------- MODULE ReportMonitor ---------------------------
(***************************************************************************)
(* The durable monitor of the reporting calendar: one queue row per office *)
(* (app_report_obligations_queue), the requests that view, change and wake *)
(* it, and the workers of scripts/report-obligations-worker.ts.            *)
(*                                                                         *)
(* A save and a reconciliation lock the workspace to their commit, so each *)
(* is one action; a claim and a completion are statements of their own, so *)
(* wakes, lapses and other claims come between them.  The owner of a claim *)
(* is a fresh UUID; a worker has one claim at a time and forgets it, so    *)
(* the worker stands for it.                                               *)
(***************************************************************************)
EXTENDS Naturals

CONSTANTS
  Workers,    \* monitor processes
  Offices,    \* organizations
  NoOwner,    \* SQL NULL of lease_owner
  NoOffice,   \* a worker with no claim
  MaxWakes,   \* bound on wakes of an office (its generation)
  MaxFaults   \* bound on crashes, stops, stalls and failed transactions

ASSUME ConstantsAssumption ==
  /\ NoOwner \notin Workers /\ NoOffice \notin Offices
  /\ MaxWakes \in Nat /\ MaxFaults \in Nat

VARIABLES
  row,        \* app_report_obligations_queue
  worker,     \* the claim each worker process has
  stopping,   \* SIGTERM received, or the admission withdrawn
  faults,     \* faults spent
  stale,      \* history: the workspace changed since its last evaluation
  pending     \* history: a wake that no evaluation followed yet

vars == <<row, worker, stopping, faults, stale, pending>>

\* run_after: no row, due, or still in the future.
Row == [run : {"absent", "due", "later"}, generation : Nat,
        owner : Workers \cup {NoOwner}, lease : {"none", "live", "lapsed"},
        error : {"none", "failed", "stopping"}]
NoRow == [run |-> "absent", generation |-> 0, owner |-> NoOwner, lease |-> "none",
          error |-> "none"]
FirstRow == [NoRow EXCEPT !.run = "due", !.generation = 1]

Claims == [pc : {"idle", "claimed", "evaluated", "failed", "stopped"},
           office : Offices \cup {NoOffice}, generation : Nat]
Idle == [pc |-> "idle", office |-> NoOffice, generation |-> 0]

TypeOK ==
  /\ row \in [Offices -> Row]
  /\ worker \in [Workers -> Claims]
  /\ \A w \in Workers : worker[w].pc = "idle" <=> worker[w].office = NoOffice
  /\ stopping \in [Workers -> BOOLEAN]
  /\ faults \in 0 .. MaxFaults
  /\ stale \in [Offices -> BOOLEAN]
  /\ pending \in [Offices -> BOOLEAN]

Init ==
  /\ row = [o \in Offices |-> NoRow]
  /\ worker = [w \in Workers |-> Idle]
  /\ stopping = [w \in Workers |-> FALSE]
  /\ faults = 0
  /\ stale = [o \in Offices |-> FALSE]
  /\ pending = [o \in Offices |-> FALSE]

Spend == faults < MaxFaults /\ faults' = faults + 1

-----------------------------------------------------------------------------
(* The requests.                                                           *)

\* Anything that changes what an evaluation of the office would find: an edit, a
\* processed document, a deadline that passes.  Nobody is told.
Change(o) ==
  /\ ~stale[o]
  /\ stale' = [stale EXCEPT ![o] = TRUE]
  /\ UNCHANGED <<row, worker, stopping, faults, pending>>

\* evaluate(): the calendar of the office is brought up to date.
Evaluated(o) ==
  /\ stale' = [stale EXCEPT ![o] = FALSE]
  /\ pending' = [pending EXCEPT ![o] = FALSE]

\* readReportObligations: evaluates, and enrolls the office at the first visit.
View(o) ==
  /\ Evaluated(o)
  /\ row' = [row EXCEPT ![o] = IF @.run = "absent" THEN FirstRow ELSE @]
  /\ UNCHANGED <<worker, stopping, faults>>

\* scheduleReportObligations: due at once, a new generation, the lease untouched.
Scheduled(r) ==
  IF r.run = "absent" THEN FirstRow
  ELSE [r EXCEPT !.run = "due", !.generation = @ + 1]

\* saveReportObligations: evaluates what was saved and wakes the monitor.
Save(o) ==
  /\ row[o].generation < MaxWakes
  /\ row' = [row EXCEPT ![o] = Scheduled(@)]
  /\ stale' = [stale EXCEPT ![o] = FALSE]
  /\ pending' = [pending EXCEPT ![o] = TRUE]
  /\ UNCHANGED <<worker, stopping, faults>>

-----------------------------------------------------------------------------
(* A worker.                                                               *)

Move(w, pc) == worker' = [worker EXCEPT ![w].pc = pc]
Leave(w) == worker' = [worker EXCEPT ![w] = Idle]

\* Faulty variant: only a row without a lease can be claimed.
ClaimableUnleased(o) == row[o].run = "due" /\ row[o].lease = "none"
Claimable(o) == row[o].run = "due" /\ row[o].lease # "live"

\* claim_report_obligations: generation and owner are read in the same statement.
Claim(w, o) ==
  /\ worker[w].pc = "idle" /\ ~stopping[w] /\ Claimable(o)
  /\ row' = [row EXCEPT ![o].owner = w, ![o].lease = "live"]
  /\ worker' = [worker EXCEPT ![w] =
                  [pc |-> "claimed", office |-> o, generation |-> row[o].generation]]
  /\ UNCHANGED <<stopping, faults, stale, pending>>

\* A claim that finds the worker stopping evaluates nothing.
Decline(w) ==
  /\ worker[w].pc = "claimed" /\ stopping[w]
  /\ Move(w, "stopped")
  /\ UNCHANGED <<row, stopping, faults, stale, pending>>

\* reconcileReportObligations, which no lease fences: the workspace lock serializes it.
Reconcile(w) ==
  /\ worker[w].pc = "claimed" /\ ~stopping[w]
  /\ Evaluated(worker[w].office)
  /\ Move(w, "evaluated")
  /\ UNCHANGED <<row, stopping, faults>>

\* The evaluation throws: the database, or a workspace it cannot evaluate.
ReconcileFails(w) ==
  /\ worker[w].pc = "claimed" /\ ~stopping[w] /\ Spend
  /\ Move(w, "failed")
  /\ UNCHANGED <<row, stopping, stale, pending>>

Holds(w) ==
  LET r == row[worker[w].office] IN r.owner = w /\ r.lease = "live"

\* Faulty variant: a completion looks at its error only.
RunAgain(w) == worker[w].pc = "stopped"
\* A wake since the claim, or a claim given up, leaves the office due.
StaysDue(w) ==
  row[worker[w].office].generation # worker[w].generation \/ worker[w].pc = "stopped"

Completed(w) ==
  [row[worker[w].office] EXCEPT
     !.run = IF StaysDue(w) THEN "due" ELSE "later",
     !.owner = NoOwner, !.lease = "none",
     !.error = CASE worker[w].pc = "failed" -> "failed"
                 [] worker[w].pc = "stopped" -> "stopping"
                 [] OTHER -> "none"]

\* finish_report_obligations; a claimant that lost its lease changes nothing.
Finish(w) ==
  /\ worker[w].pc \in {"evaluated", "failed", "stopped"}
  /\ row' = IF Holds(w) THEN [row EXCEPT ![worker[w].office] = Completed(w)] ELSE row
  /\ Leave(w)
  /\ UNCHANGED <<stopping, faults, stale, pending>>

-----------------------------------------------------------------------------
(* Time and faults.                                                        *)

Attended(o) == \E w \in Workers : worker[w].office = o /\ Holds(w)

\* 90 s pass; under a worker that is still at it, that is a stall.
Lapse(o) ==
  /\ row[o].lease = "live"
  /\ IF Attended(o) THEN Spend ELSE UNCHANGED faults
  /\ row' = [row EXCEPT ![o].lease = "lapsed"]
  /\ UNCHANGED <<worker, stopping, stale, pending>>

\* 60 s pass.
ComeDue(o) ==
  /\ row[o].run = "later"
  /\ row' = [row EXCEPT ![o].run = "due"]
  /\ UNCHANGED <<worker, stopping, faults, stale, pending>>

Stop(w) ==
  /\ Spend /\ ~stopping[w]
  /\ stopping' = [stopping EXCEPT ![w] = TRUE]
  /\ UNCHANGED <<row, worker, stale, pending>>

\* The process dies, or a statement of the queue throws and the worker starts over.
Crash(w) ==
  /\ Spend /\ worker[w].pc # "idle"
  /\ Leave(w)
  /\ stopping' = [stopping EXCEPT ![w] = FALSE]
  /\ UNCHANGED <<row, stale, pending>>

Restart(w) ==
  /\ worker[w].pc = "idle" /\ stopping[w]
  /\ stopping' = [stopping EXCEPT ![w] = FALSE]
  /\ UNCHANGED <<row, worker, faults, stale, pending>>

-----------------------------------------------------------------------------
Work(w) == Decline(w) \/ Reconcile(w) \/ Finish(w) \/ Restart(w)

Next ==
  \/ \E o \in Offices : Change(o) \/ View(o) \/ Save(o) \/ Lapse(o) \/ ComeDue(o)
  \/ \E w \in Workers : \/ Work(w) \/ ReconcileFails(w) \/ Stop(w) \/ Crash(w)
                        \/ \E o \in Offices : Claim(w, o)

Spec == Init /\ [][Next]_vars

(* Workers run and are restarted, leases and delays end by the clock, and  *)
(* the office that has been due the longest is claimed first.              *)
Fairness ==
  /\ \A w \in Workers : WF_vars(Work(w))
  /\ \A o \in Offices : /\ WF_vars(ComeDue(o)) /\ WF_vars(~Attended(o) /\ Lapse(o))
                        /\ SF_vars(\E w \in Workers : Claim(w, o))
LiveSpec == Spec /\ Fairness

-----------------------------------------------------------------------------
(* What must hold.                                                         *)

\* "Completion detects a concurrent wake and leaves that office immediately due": a wake
\* that no evaluation has followed is never put off to the next minute by the completion
\* of a claim that began before it, except after an evaluation that failed.
WakesKept ==
  \A o \in Offices :
    pending[o] => row[o].run = "due" \/ (row[o].run = "later" /\ row[o].error = "failed")

\* The monitor "continues while every browser is closed": whatever changes in an enrolled
\* office is evaluated, once crashes, stops and failures cease.
ChangesAreEvaluated ==
  \A o \in Offices : stale[o] /\ row[o].run # "absent" ~> ~stale[o]
=============================================================================
