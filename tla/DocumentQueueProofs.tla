------------------------ MODULE DocumentQueueProofs ------------------------
(***************************************************************************)
(* Proofs about DocumentQueue for any numbers of workers, jobs, documents  *)
(* and faults, and any limits on attempts and deferrals.                   *)
(***************************************************************************)
EXTENDS DocumentQueue, TLAPS

-----------------------------------------------------------------------------
(* Types.                                                                  *)

\* The rows and iterations the actions write.
LEMMA WrittenTypes ==
  /\ NoRow \in Row /\ FreshRow \in Row /\ Idle \in Iteration
  /\ FreshRow = [state |-> "ready", owner |-> NoOwner, lease |-> "none",
                 attempts |-> 0, deferrals |-> 0]
<1>1. NoRow \in Row
  BY DEF NoRow, Row
<1>2. Idle \in Iteration
  BY DEF Idle, Iteration, Codes
<1>3. FreshRow = [state |-> "ready", owner |-> NoOwner, lease |-> "none",
                  attempts |-> 0, deferrals |-> 0]
  BY DEF FreshRow, NoRow
<1>4. FreshRow \in Row
  BY <1>3 DEF Row
<1> QED
  BY <1>1, <1>2, <1>3, <1>4

\* What releasing a row changes, field by field.
LEMMA ReleasedRow ==
  ASSUME NEW r \in Row, NEW d
  PROVE  /\ Released(r, d) \in Row
         /\ Released(r, d).state # "absent"
         /\ Released(r, d).owner = NoOwner /\ Released(r, d).lease = "none"
         /\ Released(r, d).attempts = IF d = "retry" THEN r.attempts ELSE Less(r.attempts)
         /\ Released(r, d).deferrals = IF d = "capacity" THEN r.deferrals + 1 ELSE r.deferrals
  BY DEF Released, Row, Less

\* The initial state is well typed.
LEMMA InitType == Init => TypeOK
  BY ConstantsAssumption, WrittenTypes
     DEF Init, TypeOK, Statuses, Active, Pending, Reviewable, Idle

\* A worker whose lease is checked has a claim.
LEMMA HoldsJob ==
  ASSUME TypeOK, NEW w \in Workers, Holds(w)
  PROVE  worker[w].job \in Jobs
  BY DEF Holds

\* An iteration that is under way has a job.
LEMMA BusyJob ==
  ASSUME TypeOK, NEW w \in Workers, worker[w].pc # "idle"
  PROVE  worker[w].job \in Jobs
  BY ConstantsAssumption DEF TypeOK, Iteration

\* The requests keep the types.
LEMMA RequestType == TypeOK /\ Request => TypeOK'
<1> SUFFICES ASSUME TypeOK, Request PROVE TypeOK'
  OBVIOUS
<1> USE WrittenTypes, ConstantsAssumption
      DEF TypeOK, Statuses, Active, Pending, Reviewable, Requeued, history
<1>1. ASSUME NEW j \in Jobs, Cancel(j) PROVE TypeOK'
  BY <1>1 DEF Cancel
<1>2. ASSUME NEW j \in Jobs, Retry(j) PROVE TypeOK'
  BY <1>2 DEF Retry
<1>3. ASSUME NEW j \in Jobs, NEW d \in Documents, Upload(j, d) PROVE TypeOK'
  BY <1>3 DEF Upload
<1>4. ASSUME NEW j \in Jobs, NEW s \in Reviewable, NEW r \in {"reviewed", "posted"},
             Review(j, s, r)
      PROVE TypeOK'
  BY <1>4 DEF Review
<1>5. ASSUME NEW d \in Documents, Purge(d) PROVE TypeOK'
  BY <1>5 DEF Purge
<1> QED
  BY <1>1, <1>2, <1>3, <1>4, <1>5 DEF Request

\* The steps of a worker keep the types.
LEMMA WorkType == ASSUME NEW w \in Workers PROVE TypeOK /\ Work(w) => TypeOK'
<1> SUFFICES ASSUME TypeOK, Work(w) PROVE TypeOK'
  OBVIOUS
<1>w. /\ worker[w] \in Iteration
      /\ worker[w].pc # "idle" => worker[w].job \in Jobs /\ worker[w].job # NoJob
  BY BusyJob, ConstantsAssumption DEF TypeOK
<1>m. ASSUME NEW pc \in {"claimed", "dropping", "extracting", "completing", "caught"},
             Move(w, pc), worker[w].pc # "idle"
      PROVE  /\ worker' \in [Workers -> Iteration]
             /\ \A v \in Workers : worker'[v].pc = "idle" <=> worker'[v].job = NoJob
  BY <1>m, <1>w DEF Move, TypeOK, Iteration
<1>c. ASSUME NEW c \in Codes, Catch(w, c), worker[w].pc # "idle"
      PROVE  /\ worker' \in [Workers -> Iteration]
             /\ \A v \in Workers : worker'[v].pc = "idle" <=> worker'[v].job = NoJob
  BY <1>c, <1>w DEF Catch, TypeOK, Iteration
<1>l. ASSUME Leave(w)
      PROVE  /\ worker' \in [Workers -> Iteration]
             /\ \A v \in Workers : worker'[v].pc = "idle" <=> worker'[v].job = NoJob
  BY <1>l, WrittenTypes DEF Leave, TypeOK, Idle
<1>1. CASE Start(w)
  BY <1>1, <1>m, <1>w DEF Start, TypeOK, Statuses, Active, Pending, history
<1>2. CASE DropRow(w)
  BY <1>2, <1>l, <1>w, WrittenTypes DEF DropRow, TypeOK, history, jobVars
<1>3. CASE Extract(w)
  BY <1>3, <1>m, <1>c, <1>w DEF Extract, TypeOK, history, jobVars, Codes
<1>4. CASE Throw(w)
  BY <1>4, <1>c, <1>w DEF Throw, TypeOK, history, jobVars, Codes
<1>5. CASE Complete(w)
  <2>1. worker[w].pc # "idle"
    BY <1>5 DEF Complete
  <2>2. /\ worker' \in [Workers -> Iteration]
        /\ \A v \in Workers : worker'[v].pc = "idle" <=> worker'[v].job = NoJob
    BY <1>5, <2>1, <1>l, <1>c DEF Complete, Codes
  <2>3. status' \in [Jobs -> Statuses] /\ row' \in [Jobs -> Row]
    BY <1>5, <1>w, WrittenTypes DEF Complete, TypeOK, Statuses, Active
  <2> QED
    BY <1>5, <2>2, <2>3 DEF Complete, TypeOK, history
<1>6. CASE Requeue(w)
  <2>1. worker[w].job \in Jobs /\ Released(row[worker[w].job], Decision(w)) \in Row
    BY <1>6, <1>w, ReleasedRow DEF Requeue, TypeOK
  <2>2. /\ status' \in [Jobs -> Statuses] /\ row' \in [Jobs -> Row]
        /\ retries' \in [Jobs -> Nat]
    BY <1>6, <2>1 DEF Requeue, TypeOK, Statuses, Active, Pending
  <2> QED
    BY <1>6, <1>l, <2>2 DEF Requeue, TypeOK
<1>7. CASE GiveUp(w)
  BY <1>7, <1>l, <1>w, WrittenTypes DEF GiveUp, TypeOK, Statuses, history
<1>8. CASE Abandon(w)
  BY <1>8, <1>l, ConstantsAssumption DEF Abandon, TypeOK, history, jobVars
<1> QED
  BY <1>1, <1>2, <1>3, <1>4, <1>5, <1>6, <1>7, <1>8 DEF Work

\* Claims, time and faults keep the types.
LEMMA OtherType ==
  ASSUME TypeOK,
         \/ \E w \in Workers : \/ Stop(w) \/ Abort(w) \/ Crash(w) \/ Restart(w)
                               \/ \E j \in Jobs : Claim(w, j)
         \/ \E j \in Jobs : Lapse(j) \/ BecomeReady(j)
  PROVE  TypeOK'
<1>1. ASSUME NEW w \in Workers, Stop(w) PROVE TypeOK'
  BY <1>1, ConstantsAssumption DEF Stop, Spend, TypeOK, jobVars, history
<1>2. ASSUME NEW w \in Workers, Abort(w) PROVE TypeOK'
  BY <1>2, ConstantsAssumption DEF Abort, Spend, TypeOK, jobVars, history, Iteration
<1>3. ASSUME NEW w \in Workers, Crash(w) PROVE TypeOK'
  BY <1>3, ConstantsAssumption, WrittenTypes
     DEF Crash, NewProcess, Leave, Idle, Spend, TypeOK, jobVars, history
<1>4. ASSUME NEW w \in Workers, Restart(w) PROVE TypeOK'
  BY <1>4, WrittenTypes DEF Restart, NewProcess, Leave, Idle, TypeOK, jobVars, history
<1>5. ASSUME NEW w \in Workers, NEW j \in Jobs, Claim(w, j) PROVE TypeOK'
  <2>1. row' \in [Jobs -> Row]
    BY <1>5 DEF Claim, TypeOK, Row, Owners, Me
  <2>2. /\ worker' \in [Workers -> Iteration]
        /\ \A v \in Workers : worker'[v].pc = "idle" <=> worker'[v].job = NoJob
    <3>1. row[j].attempts \in Nat /\ row[j].deferrals \in Nat /\ j # NoJob
      BY ConstantsAssumption DEF TypeOK, Row
    <3> QED
      BY <1>5, <3>1 DEF Claim, TypeOK, Iteration, Idle, Codes
  <2> QED
    BY <1>5, <2>1, <2>2 DEF Claim, TypeOK, jobVars
<1>6. ASSUME NEW j \in Jobs, Lapse(j) PROVE TypeOK'
  <2>1. row' = [row EXCEPT ![j] = [row[j] EXCEPT !.lease = "lapsed"]]
    BY <1>6 DEF Lapse, TypeOK
  <2>2. [row[j] EXCEPT !.lease = "lapsed"] \in Row
    BY DEF TypeOK, Row
  <2>3. row' \in [Jobs -> Row] /\ faults' \in 0 .. MaxFaults
    BY <1>6, <2>1, <2>2, ConstantsAssumption DEF Lapse, TypeOK
  <2> QED
    BY <1>6, <2>3 DEF Lapse, TypeOK, jobVars, history
<1>7. ASSUME NEW j \in Jobs, BecomeReady(j) PROVE TypeOK'
  <2>1. row' = [row EXCEPT ![j] = [row[j] EXCEPT !.state = "ready"]]
    BY <1>7 DEF BecomeReady, TypeOK
  <2>2. [row[j] EXCEPT !.state = "ready"] \in Row
    BY DEF TypeOK, Row
  <2>3. row' \in [Jobs -> Row]
    BY <2>1, <2>2 DEF TypeOK
  <2> QED
    BY <1>7, <2>3 DEF BecomeReady, TypeOK, jobVars, history
<1> QED
  BY <1>1, <1>2, <1>3, <1>4, <1>5, <1>6, <1>7

\* Every step, and every stuttering step, keeps the types.
LEMMA NextType == TypeOK /\ [Next]_vars => TypeOK'
<1>1. CASE UNCHANGED vars
  BY <1>1 DEF vars, jobVars, history, TypeOK
<1> QED
  BY <1>1, RequestType, WorkType, OtherType DEF Next

\* Every variable keeps its type, whatever the constants.
THEOREM TypeInvariant == Spec => []TypeOK
  BY InitType, NextType, PTL DEF Spec

-----------------------------------------------------------------------------
(* The inductive invariant.                                                *)

\* A queue row and its job agree, and the attempts of a row are exactly its failures, its
\* lost claims and the claim that stands on it.
RowInv(j) ==
  /\ Queued(j) => status[j] \in Pending
  /\ ~Queued(j) => row[j] = NoRow
  /\ row[j].owner = NoOwner => row[j].lease = "none"
  /\ status[j] = "processing" => Queued(j) /\ row[j].owner # NoOwner
  /\ Queued(j) => row[j].attempts =
                    retries[j] + lost[j] + (IF row[j].owner = NoOwner THEN 0 ELSE 1)
  /\ retries[j] < MaxAttempts /\ row[j].deferrals <= MaxDeferrals

\* The row still names worker w's process, whether its lease is live or not.
Owns(w) == worker[w].job \in Jobs /\ row[worker[w].job].owner = Me(w)

\* What a worker read when it claimed a row stays true while the row names it.
ClaimInv(w) ==
  Owns(w) =>
    LET j == worker[w].job IN
    /\ worker[w].attempts = row[j].attempts /\ worker[w].deferrals = row[j].deferrals
    /\ holder[j] = w
    /\ worker[w].pc = "dropping" => row[j].lease # "live"
    /\ worker[w].pc \in {"extracting", "completing"} => status[j] = "processing"

IInv == /\ TypeOK
        /\ \A j \in Jobs : RowInv(j)
        /\ \A w \in Workers : ClaimInv(w)

\* NULL is no owner, and a worker's owner id tells it from the others.
LEMMA OwnerFacts ==
  ASSUME TypeOK, NEW v \in Workers
  PROVE  /\ Me(v) \in Owners /\ Me(v) # NoOwner
         /\ \A w \in Workers : Me(v) = Me(w) => v = w
  BY ConstantsAssumption DEF Me, Owners, TypeOK

\* What a live lease says about the claim under the invariant.
LEMMA HolderFacts ==
  ASSUME IInv, NEW w \in Workers, Holds(w)
  PROVE  LET j == worker[w].job IN
         /\ j \in Jobs /\ Queued(j) /\ status[j] \in Pending
         /\ holder[j] = w /\ row[j].owner = Me(w) /\ row[j].owner # NoOwner
         /\ worker[w].attempts = row[j].attempts /\ worker[w].deferrals = row[j].deferrals
         /\ row[j].attempts = retries[j] + lost[j] + 1
         /\ worker[w].pc # "dropping"
         /\ worker[w].pc \in {"extracting", "completing"} => status[j] = "processing"
<1>1. worker[w].job \in Jobs /\ Owns(w) /\ row[worker[w].job].lease = "live"
  BY DEF Holds, Owns
<1>2. Me(w) # NoOwner
  BY OwnerFacts DEF IInv
<1>3. Queued(worker[w].job)
  BY <1>1, <1>2 DEF IInv, RowInv, Owns, NoRow
<1> QED
  BY <1>1, <1>2, <1>3 DEF IInv, RowInv, ClaimInv, Owns

\* The invariant holds initially.
LEMMA InitInv == Init => IInv
<1> SUFFICES ASSUME Init PROVE IInv
  OBVIOUS
<1>1. TypeOK
  BY InitType
<1>2. ASSUME NEW j \in Jobs PROVE RowInv(j)
  BY ConstantsAssumption DEF Init, RowInv, Queued, NoRow, Pending
<1>3. ASSUME NEW w \in Workers PROVE ClaimInv(w)
  BY ConstantsAssumption DEF Init, ClaimInv, Owns, Idle
<1> QED
  BY <1>1, <1>2, <1>3 DEF IInv

\* A step that leaves a job, its row and its history alone keeps the row's invariant.
LEMMA RowFrame ==
  ASSUME NEW j \in Jobs, RowInv(j), row'[j] = row[j], status'[j] = status[j],
         retries'[j] = retries[j], lost'[j] = lost[j]
  PROVE  RowInv(j)'
  BY DEF RowInv, Queued

\* A step that leaves an iteration, its process and its claim alone keeps its invariant.
LEMMA ClaimFrame ==
  ASSUME NEW w \in Workers, ClaimInv(w), worker'[w] = worker[w], boot'[w] = boot[w],
         LET j == worker[w].job IN
           j \in Jobs => row'[j] = row[j] /\ status'[j] = status[j] /\ holder'[j] = holder[j]
  PROVE  ClaimInv(w)'
  BY DEF ClaimInv, Owns, Me

\* An iteration that ended is bound by nothing.
LEMMA IdleClaim ==
  ASSUME NEW w \in Workers, worker'[w].job \notin Jobs
  PROVE  ClaimInv(w)'
  BY DEF ClaimInv, Owns

\* A row that names no process binds nobody.
LEMMA FreedClaim ==
  ASSUME TypeOK', NEW w \in Workers, row'[worker'[w].job].owner = NoOwner
  PROVE  ClaimInv(w)'
  BY ConstantsAssumption DEF ClaimInv, Owns, Me, TypeOK

\* The requests keep the invariant.
LEMMA RequestInv == IInv /\ Request => IInv'
<1> SUFFICES ASSUME IInv, Request PROVE IInv'
  OBVIOUS
<1>t. TypeOK /\ TypeOK'
  BY RequestType DEF IInv
<1> USE DEF history
<1>q. ASSUME NEW j \in Jobs, NEW s, NEW r \in {NoRow, FreshRow},
             status' = [status EXCEPT ![j] = s], Requeued(j, r), UNCHANGED <<worker, boot>>,
             s = IF r = FreshRow THEN "queued" ELSE "cancelled"
      PROVE  (\A k \in Jobs : RowInv(k)') /\ (\A w \in Workers : ClaimInv(w)')
  <2>1. /\ NoRow.state = "absent" /\ FreshRow.state = "ready"
        /\ r.owner = NoOwner /\ r.lease = "none" /\ r.attempts = 0 /\ r.deferrals = 0
    BY WrittenTypes DEF NoRow
  <2>2. /\ row'[j] = r /\ status'[j] = s /\ retries'[j] = 0 /\ lost'[j] = 0
        /\ \A k \in Jobs \ {j} : /\ row'[k] = row[k] /\ status'[k] = status[k]
                                 /\ retries'[k] = retries[k] /\ lost'[k] = lost[k]
                                 /\ holder'[k] = holder[k]
    BY <1>q, <1>t DEF Requeued, TypeOK
  <2>3. RowInv(j)'
    BY <1>q, <2>1, <2>2, ConstantsAssumption DEF RowInv, Queued, Pending
  <2>4. ASSUME NEW k \in Jobs \ {j} PROVE RowInv(k)'
    BY <2>2, RowFrame DEF IInv
  <2>5. ASSUME NEW w \in Workers PROVE ClaimInv(w)'
    <3>1. CASE worker[w].job = j
      BY <1>q, <1>t, <2>1, <2>2, <3>1, FreedClaim
    <3>2. CASE worker[w].job # j
      BY <1>q, <2>2, <3>2, ClaimFrame DEF IInv
    <3> QED
      BY <3>1, <3>2
  <2> QED
    BY <2>3, <2>4, <2>5
<1>d. NoRow # FreshRow
  BY WrittenTypes DEF NoRow
<1>1. ASSUME NEW j \in Jobs, Cancel(j) PROVE IInv'
  BY <1>1, <1>t, <1>d, <1>q DEF Cancel, IInv
<1>2. ASSUME NEW j \in Jobs, Retry(j) PROVE IInv'
  BY <1>2, <1>t, <1>q DEF Retry, IInv
<1>3. ASSUME NEW j \in Jobs, NEW d \in Documents, Upload(j, d) PROVE IInv'
  BY <1>3, <1>t, <1>q DEF Upload, IInv
<1>4. ASSUME NEW j \in Jobs, NEW s \in Reviewable, NEW r \in {"reviewed", "posted"},
             Review(j, s, r)
      PROVE  IInv'
  <2>1. status[j] \notin Pending /\ s \notin Pending /\ ~Queued(j)
    BY <1>4 DEF Review, Reviewable, Pending, IInv, RowInv
  <2>2. /\ UNCHANGED <<row, worker, boot, holder, retries, lost>>
        /\ status'[j] = s /\ \A k \in Jobs \ {j} : status'[k] = status[k]
    BY <1>4, <1>t DEF Review, TypeOK
  <2>3. RowInv(j)'
    BY <2>1, <2>2 DEF IInv, RowInv, Queued, Pending
  <2>4. ASSUME NEW k \in Jobs \ {j} PROVE RowInv(k)'
    BY <2>2, RowFrame DEF IInv
  <2>5. ASSUME NEW w \in Workers PROVE ClaimInv(w)'
    <3>1. CASE worker[w].job = j
      BY <1>t, <2>1, <2>2, <3>1, FreedClaim DEF IInv, RowInv, NoRow
    <3>2. CASE worker[w].job # j
      BY <2>2, <3>2, ClaimFrame DEF IInv
    <3> QED
      BY <3>1, <3>2
  <2> QED
    BY <1>t, <2>3, <2>4, <2>5 DEF IInv
<1>5. ASSUME NEW d \in Documents, Purge(d) PROVE IInv'
  <2> DEFINE gone == {j \in Jobs : document[j] = d}
  <2>1. /\ UNCHANGED <<worker, boot, holder, retries, lost>>
        /\ \A j \in gone : /\ status[j] \notin Pending
                           /\ status'[j] = "purged" /\ row'[j] = NoRow
        /\ \A j \in Jobs \ gone : status'[j] = status[j] /\ row'[j] = row[j]
    BY <1>5 DEF Purge, Pending
  <2>2. ASSUME NEW j \in gone PROVE RowInv(j)' /\ row[j] = row'[j]
    BY <2>1 DEF IInv, RowInv, Queued, Pending, NoRow
  <2>3. ASSUME NEW j \in Jobs \ gone PROVE RowInv(j)'
    BY <2>1, RowFrame DEF IInv
  <2>4. ASSUME NEW w \in Workers PROVE ClaimInv(w)'
    <3>1. CASE worker[w].job \in gone
      BY <1>t, <2>1, <3>1, FreedClaim DEF NoRow
    <3>2. CASE worker[w].job \notin gone
      BY <2>1, <3>2, ClaimFrame DEF IInv
    <3> QED
      BY <3>1, <3>2
  <2> QED
    BY <1>t, <2>2, <2>3, <2>4 DEF IInv
<1> QED
  BY <1>1, <1>2, <1>3, <1>4, <1>5 DEF Request

\* When a worker gives a run back for a retry or for capacity, the limit is not reached;
\* when it gives up, one is, or the request was rejected.
LEMMA Decisions ==
  ASSUME TypeOK, NEW w \in Workers
  PROVE  /\ Decision(w) = "retry" => worker[w].attempts < MaxAttempts
         /\ Decision(w) = "capacity" => worker[w].deferrals < MaxDeferrals
         /\ Decision(w) = "fail" => \/ worker[w].code = "rejected"
                                    \/ /\ worker[w].code = "busy"
                                       /\ ~(worker[w].deferrals < MaxDeferrals)
                                    \/ ~(worker[w].attempts < MaxAttempts)
  BY DEF Decision, RetryDecision

\* The steps of a worker keep the invariant.
LEMMA WorkInv == ASSUME NEW w \in Workers PROVE IInv /\ Work(w) => IInv'
<1> SUFFICES ASSUME IInv, Work(w) PROVE IInv'
  OBVIOUS
<1>t. TypeOK /\ TypeOK'
  BY WorkType DEF IInv
<1>b. worker[w].pc # "idle"
  BY DEF Work, Start, DropRow, Extract, Throw, Complete, Requeue, GiveUp, Abandon
<1>j. PICK j \in Jobs : worker[w].job = j
  BY <1>b, <1>t, BusyJob
<1>o. \A v \in Workers \ {w} : worker'[v] = worker[v]
  BY <1>t DEF Work, Start, DropRow, Extract, Throw, Complete, Requeue, GiveUp, Abandon,
              Move, Catch, Leave, TypeOK
<1>u. UNCHANGED <<boot, holder, lost>>
  BY DEF Work, Start, DropRow, Extract, Throw, Complete, Requeue, GiveUp, Abandon, history
\* Steps that touch neither tables nor history.
<1>s. ASSUME UNCHANGED <<status, row, retries>>,
             worker'[w].job = NoJob \/ ClaimInv(w)'
      PROVE  IInv'
  <2>1. ASSUME NEW k \in Jobs PROVE RowInv(k)'
    BY <1>j, <1>s, <1>u, RowFrame DEF IInv
  <2>2. ASSUME NEW v \in Workers \ {w} PROVE ClaimInv(v)'
    BY <1>j, <1>s, <1>u, <1>o, ClaimFrame DEF IInv
  <2>3. ClaimInv(w)'
    BY <1>j, <1>s, IdleClaim, ConstantsAssumption
  <2> QED
    BY <1>t, <2>1, <2>2, <2>3 DEF IInv
\* Steps that decide about the worker's own job and free or delete its row.
<1>r. ASSUME Holds(w), row'[j].owner = NoOwner, RowInv(j)',
             \A k \in Jobs \ {j} : /\ row'[k] = row[k] /\ status'[k] = status[k]
                                   /\ retries'[k] = retries[k]
      PROVE  IInv'
  <2>1. ASSUME NEW k \in Jobs \ {j} PROVE RowInv(k)'
    BY <1>j, <1>r, <1>u, RowFrame DEF IInv
  <2>2. ASSUME NEW v \in Workers PROVE ClaimInv(v)'
    <3>1. CASE worker'[v].job = j
      BY <1>j, <1>r, <1>t, <3>1, FreedClaim
    <3>2. CASE worker'[v].job # j /\ v # w
      BY <1>j, <1>r, <1>u, <1>o, <3>2, ClaimFrame DEF IInv
    <3>3. CASE worker'[w].job # j /\ v = w
      <4>1. worker'[w].job = NoJob
        BY <1>j, <1>t, <3>3 DEF Work, Start, DropRow, Extract, Throw, Complete, Requeue, GiveUp,
                          Abandon, Move, Catch, Leave, Idle, TypeOK, Iteration
      <4> QED
        BY <3>3, <4>1, IdleClaim, ConstantsAssumption
    <3> QED
      BY <3>1, <3>2, <3>3
  <2> QED
    BY <1>t, <1>r, <2>1, <2>2 DEF IInv
<1>1. CASE Start(w)
  <2>1. CASE status[j] \in Pending /\ Holds(w)
    <3>1. /\ status' = [status EXCEPT ![j] = "processing"]
          /\ worker'[w] = [worker[w] EXCEPT !.pc = "extracting"]
          /\ UNCHANGED <<row, retries>>
      BY <1>j, <1>1, <1>t, <2>1 DEF Start, Move, TypeOK, history
    <3>2. RowInv(j)'
      BY <1>t, <1>u, <1>j, <2>1, <3>1, HolderFacts DEF IInv, RowInv, Queued, Pending, TypeOK
    <3>3. ASSUME NEW k \in Jobs \ {j} PROVE RowInv(k)'
      BY <1>j, <1>t, <1>u, <3>1, RowFrame DEF IInv, TypeOK
    <3>4. ClaimInv(w)'
      BY <1>t, <1>u, <1>j, <2>1, <3>1, HolderFacts DEF ClaimInv, Owns, Me, TypeOK, Iteration
    <3>5. ASSUME NEW v \in Workers \ {w} PROVE ClaimInv(v)'
      <4>1. CASE worker[v].job = j
        <5>1. row[j].owner = Me(w) /\ Me(v) # Me(w)
          BY <1>j, <1>t, <2>1, HolderFacts, OwnerFacts
        <5> QED
          BY <1>o, <1>u, <3>1, <4>1, <5>1 DEF ClaimInv, Owns, Me
      <4>2. CASE worker[v].job # j
        BY <1>j, <1>t, <1>o, <1>u, <3>1, <4>2, ClaimFrame DEF IInv, TypeOK
      <4> QED
        BY <4>1, <4>2
    <3> QED
      BY <1>t, <3>2, <3>3, <3>4, <3>5 DEF IInv
  <2>2. CASE ~(status[j] \in Pending /\ Holds(w))
    <3>1. /\ UNCHANGED <<status, row, retries>>
          /\ worker'[w] = [worker[w] EXCEPT !.pc = "dropping"]
      BY <1>j, <1>1, <1>t, <2>2 DEF Start, Move, TypeOK, history
    <3>2. ~Holds(w)
      BY <1>j, <2>2, HolderFacts
    <3>3. ClaimInv(w)'
      BY <1>t, <1>u, <1>j, <3>1, <3>2
         DEF IInv, ClaimInv, Owns, Holds, Me, TypeOK, Iteration
    <3> QED
      BY <1>s, <3>1, <3>3
  <2> QED
    BY <2>1, <2>2
<1>2. CASE DropRow(w)
  <2>1. ~Holds(w)
    BY <1>j, <1>2, HolderFacts DEF DropRow
  <2> QED
    BY <1>2, <1>t, <1>s, <2>1 DEF DropRow, Leave, Idle, TypeOK, jobVars, history
<1>3. CASE Extract(w)
  <2>1. /\ UNCHANGED <<status, row, retries>>
        /\ worker'[w].job = j /\ worker'[w].pc \in {"completing", "caught"}
        /\ worker'[w].attempts = worker[w].attempts
        /\ worker'[w].deferrals = worker[w].deferrals
    BY <1>j, <1>3, <1>t DEF Extract, Move, Catch, TypeOK, Iteration, jobVars, history
  <2>2. ClaimInv(w)'
    BY <1>j, <1>3, <1>u, <2>1 DEF Extract, IInv, ClaimInv, Owns, Me
  <2> QED
    BY <1>s, <2>1, <2>2
<1>4. CASE Throw(w)
  <2>1. /\ UNCHANGED <<status, row, retries>>
        /\ worker'[w].job = j /\ worker'[w].pc = "caught"
        /\ worker'[w].attempts = worker[w].attempts
        /\ worker'[w].deferrals = worker[w].deferrals
    BY <1>j, <1>4, <1>t DEF Throw, Catch, TypeOK, Iteration, jobVars, history
  <2>2. ClaimInv(w)'
    BY <1>j, <1>4, <1>u, <2>1 DEF Throw, IInv, ClaimInv, Owns, Me
  <2> QED
    BY <1>s, <2>1, <2>2
<1>5. CASE Complete(w)
  <2>1. CASE Holds(w)
    <3>1. /\ row' = [row EXCEPT ![j] = NoRow]
          /\ status' = [status EXCEPT ![j] = "awaiting_review"]
          /\ UNCHANGED retries
      BY <1>5, <1>t, <1>j, <2>1, HolderFacts DEF Complete, TypeOK, history
    <3>2. row'[j] = NoRow /\ status'[j] = "awaiting_review"
      BY <1>t, <1>j, <3>1 DEF TypeOK
    <3>3. RowInv(j)'
      BY <1>u, <1>j, <3>1, <3>2, ConstantsAssumption DEF IInv, RowInv, Queued, NoRow
    <3> QED
      BY <1>r, <1>t, <1>j, <2>1, <3>1, <3>2, <3>3 DEF NoRow, TypeOK
  <2>2. CASE ~Holds(w)
    <3>1. UNCHANGED <<status, row, retries>>
      BY <1>j, <1>5, <2>2 DEF Complete, history
    <3>2. worker'[w].job = NoJob \/ ClaimInv(w)'
      <4>1. CASE Leave(w)
        BY <1>j, <1>t, <4>1 DEF Leave, Idle, TypeOK
      <4>2. CASE Catch(w, "failed")
        <5>1. /\ worker'[w].job = j /\ worker'[w].pc = "caught"
              /\ worker'[w].attempts = worker[w].attempts
              /\ worker'[w].deferrals = worker[w].deferrals
          BY <1>j, <1>t, <4>2 DEF Catch, TypeOK, Iteration
        <5> QED
          BY <1>j, <1>u, <3>1, <5>1 DEF IInv, ClaimInv, Owns, Me
      <4> QED
        BY <1>5, <4>1, <4>2 DEF Complete
    <3> QED
      BY <1>s, <3>1, <3>2
  <2> QED
    BY <2>1, <2>2
<1>6. CASE Requeue(w)
  <2> DEFINE d == Decision(w)
             r == Released(row[j], d)
  <2>h. Holds(w) /\ d # "fail"
    BY <1>j, <1>6 DEF Requeue
  <2>1. /\ row' = [row EXCEPT ![j] = r]
        /\ status' = [status EXCEPT ![j] = IF status[j] = "processing" THEN "queued"
                                           ELSE status[j]]
        /\ retries' = [retries EXCEPT ![j] = IF d = "retry" THEN retries[j] + 1
                                             ELSE retries[j]]
    BY <1>j, <1>6 DEF Requeue
  <2>2. /\ row[j] \in Row /\ r.state # "absent" /\ r.owner = NoOwner /\ r.lease = "none"
        /\ r.attempts = IF d = "retry" THEN row[j].attempts ELSE Less(row[j].attempts)
        /\ r.deferrals = IF d = "capacity" THEN row[j].deferrals + 1 ELSE row[j].deferrals
    BY <1>t, <1>j, ReleasedRow DEF TypeOK
  <2> HIDE DEF r
  <2>3. /\ row[j].attempts = retries[j] + lost[j] + 1
        /\ row[j].attempts = worker[w].attempts /\ row[j].deferrals = worker[w].deferrals
        /\ status[j] \in Pending
    BY <1>j, <2>h, HolderFacts
  <2>4. /\ retries[j] \in Nat /\ lost[j] \in Nat /\ row[j].deferrals \in Nat
        /\ row[j].deferrals <= MaxDeferrals /\ retries[j] < MaxAttempts
    BY <1>t, <1>j DEF TypeOK, Row, IInv, RowInv
  <2>5. /\ row'[j] = r /\ lost'[j] = lost[j]
        /\ status'[j] = "queued"
        /\ retries'[j] = IF d = "retry" THEN retries[j] + 1 ELSE retries[j]
    BY <1>t, <1>j, <1>u, <2>1, <2>3 DEF TypeOK, Pending
  <2>6. r.attempts = retries'[j] + lost[j]
    BY <1>j, <2>2, <2>3, <2>4, <2>5 DEF Less
  <2>7. retries'[j] < MaxAttempts
    BY <1>j, <1>t, <2>3, <2>4, <2>5, Decisions, ConstantsAssumption
  <2>8. r.deferrals <= MaxDeferrals
    BY <1>j, <1>t, <2>2, <2>3, <2>4, Decisions, ConstantsAssumption
  <2>9. RowInv(j)'
    BY <1>t, <1>j, <2>2, <2>4, <2>5, <2>6, <2>7, <2>8 DEF RowInv, Queued, Pending, TypeOK
  <2> QED
    BY <1>r, <1>t, <1>j, <2>h, <2>1, <2>2, <2>5, <2>9 DEF TypeOK
<1>7. CASE GiveUp(w)
  <2>1. /\ Holds(w) /\ row' = [row EXCEPT ![j] = NoRow] /\ UNCHANGED retries
        /\ status' = [status EXCEPT ![j] = IF status[j] = "processing" THEN "failed"
                                           ELSE status[j]]
    BY <1>j, <1>7 DEF GiveUp, history
  <2>2. /\ row'[j] = NoRow /\ status'[j] # "processing"
    BY <1>t, <1>j, <2>1 DEF TypeOK
  <2>3. RowInv(j)'
    BY <1>u, <1>j, <2>1, <2>2, ConstantsAssumption DEF IInv, RowInv, Queued, NoRow
  <2> QED
    BY <1>r, <1>t, <1>j, <2>1, <2>2, <2>3 DEF NoRow, TypeOK
<1>8. CASE Abandon(w)
  BY <1>8, <1>t, <1>s DEF Abandon, Leave, Idle, TypeOK, jobVars, history
<1> QED
  BY <1>1, <1>2, <1>3, <1>4, <1>5, <1>6, <1>7, <1>8 DEF Work

\* Claims, time and faults keep the invariant.
LEMMA OtherInv ==
  ASSUME IInv,
         \/ \E w \in Workers : \/ Stop(w) \/ Abort(w) \/ Crash(w) \/ Restart(w)
                               \/ \E j \in Jobs : Claim(w, j)
         \/ \E j \in Jobs : Lapse(j) \/ BecomeReady(j)
  PROVE  IInv'
<1>t. TypeOK /\ TypeOK'
  BY OtherType DEF IInv
<1> USE DEF jobVars, history
\* Steps of worker w that touch no table.
<1>w. ASSUME NEW w \in Workers, UNCHANGED <<status, row, holder, retries, lost>>,
             \A v \in Workers \ {w} : worker'[v] = worker[v] /\ boot'[v] = boot[v],
             ClaimInv(w)'
      PROVE  IInv'
  <2>1. ASSUME NEW k \in Jobs PROVE RowInv(k)'
    BY <1>w, RowFrame DEF IInv
  <2>2. ASSUME NEW v \in Workers \ {w} PROVE ClaimInv(v)'
    BY <1>w, ClaimFrame DEF IInv
  <2> QED
    BY <1>t, <1>w, <2>1, <2>2 DEF IInv
<1>1. ASSUME NEW w \in Workers, Stop(w) PROVE IInv'
  <2>1. ClaimInv(w)'
    BY <1>1, ClaimFrame DEF Stop, IInv
  <2> QED
    BY <1>1, <1>w, <2>1 DEF Stop
<1>2. ASSUME NEW w \in Workers, Abort(w) PROVE IInv'
  <2>1. /\ worker'[w].job = worker[w].job /\ worker'[w].pc = worker[w].pc
        /\ worker'[w].attempts = worker[w].attempts
        /\ worker'[w].deferrals = worker[w].deferrals
        /\ \A v \in Workers \ {w} : worker'[v] = worker[v]
    BY <1>2, <1>t DEF Abort, TypeOK, Iteration
  <2>2. ClaimInv(w)'
    BY <1>2, <2>1 DEF Abort, IInv, ClaimInv, Owns, Me
  <2> QED
    BY <1>2, <1>w, <2>1, <2>2 DEF Abort
<1>3. ASSUME NEW w \in Workers, NewProcess(w) PROVE IInv'
  <2>1. /\ worker'[w].job = NoJob
        /\ \A v \in Workers \ {w} : worker'[v] = worker[v] /\ boot'[v] = boot[v]
    BY <1>3, <1>t DEF NewProcess, Leave, Idle, TypeOK
  <2>2. ClaimInv(w)'
    BY <2>1, IdleClaim, ConstantsAssumption
  <2> QED
    BY <1>3, <1>w, <2>1, <2>2 DEF NewProcess
<1>4. ASSUME NEW w \in Workers, NEW j \in Jobs, Claim(w, j) PROVE IInv'
  <2>1. /\ Queued(j) /\ row[j].lease # "live" /\ worker[w].pc = "idle"
        /\ UNCHANGED <<status, boot, retries>>
    BY <1>4 DEF Claim, Queued
  <2>2. /\ row'[j] = [state |-> "ready", owner |-> Me(w), lease |-> "live",
                      attempts |-> row[j].attempts + 1, deferrals |-> row[j].deferrals]
        /\ worker'[w] = [pc |-> "claimed", job |-> j, attempts |-> row[j].attempts + 1,
                         deferrals |-> row[j].deferrals, code |-> "failed",
                         signal |-> "running"]
        /\ holder'[j] = w
        /\ lost'[j] = IF row[j].owner = NoOwner THEN lost[j] ELSE lost[j] + 1
    BY <1>4, <1>t DEF Claim, TypeOK
  <2>3. /\ \A k \in Jobs \ {j} : /\ row'[k] = row[k] /\ lost'[k] = lost[k]
                                 /\ holder'[k] = holder[k]
        /\ \A v \in Workers \ {w} : worker'[v] = worker[v]
    BY <1>4, <1>t DEF Claim, TypeOK
  <2>4. Me(w) # NoOwner /\ \A v \in Workers : Me(v) = Me(w) => v = w
    BY <1>t, OwnerFacts
  <2>5. RowInv(j)'
    <3>1. /\ row[j].attempts \in Nat /\ retries[j] \in Nat /\ lost[j] \in Nat
          /\ RowInv(j)
      BY <1>t DEF TypeOK, Row, IInv
    <3>2. row'[j].attempts = retries[j] + lost'[j] + 1
      BY <2>1, <2>2, <3>1 DEF RowInv
    <3> QED
      BY <2>1, <2>2, <2>4, <3>1, <3>2 DEF RowInv, Queued
  <2>6. ASSUME NEW k \in Jobs \ {j} PROVE RowInv(k)'
    BY <2>1, <2>3, RowFrame DEF IInv
  <2>7. ClaimInv(w)'
    BY <2>1, <2>2 DEF ClaimInv, Owns, Me
  <2>8. ASSUME NEW v \in Workers \ {w} PROVE ClaimInv(v)'
    <3>1. CASE worker[v].job = j
      <4>1. row'[j].owner # Me(v)'
        BY <2>1, <2>2, <2>4 DEF Me
      <4> QED
        BY <2>3, <3>1, <4>1 DEF ClaimInv, Owns
    <3>2. CASE worker[v].job # j
      BY <2>1, <2>3, <3>2, ClaimFrame DEF IInv
    <3> QED
      BY <3>1, <3>2
  <2> QED
    BY <1>t, <2>5, <2>6, <2>7, <2>8 DEF IInv
\* Time only changes the lease or the availability of one row.
<1>5. ASSUME NEW j \in Jobs, UNCHANGED <<status, worker, boot, holder, retries, lost>>,
             \A k \in Jobs \ {j} : row'[k] = row[k],
             row'[j].owner = row[j].owner, row'[j].attempts = row[j].attempts,
             row'[j].deferrals = row[j].deferrals, Queued(j), Queued(j)',
             row[j].lease = "none" => row'[j].lease = "none",
             row'[j].lease = "live" => row[j].lease = "live"
      PROVE  IInv'
  <2>1. RowInv(j)'
    BY <1>5 DEF IInv, RowInv, Queued
  <2>2. ASSUME NEW k \in Jobs \ {j} PROVE RowInv(k)'
    BY <1>5, RowFrame DEF IInv
  <2>3. ASSUME NEW w \in Workers PROVE ClaimInv(w)'
    <3>1. CASE worker[w].job = j
      BY <1>5, <3>1 DEF IInv, ClaimInv, Owns, Me
    <3>2. CASE worker[w].job # j
      BY <1>5, <3>2, ClaimFrame DEF IInv
    <3> QED
      BY <3>1, <3>2
  <2> QED
    BY <1>t, <2>1, <2>2, <2>3 DEF IInv
<1>6. ASSUME NEW j \in Jobs, Lapse(j) PROVE IInv'
  <2>1. Queued(j)
    BY <1>6 DEF Lapse, IInv, RowInv, NoRow
  <2>2. /\ row'[j].owner = row[j].owner /\ row'[j].attempts = row[j].attempts
        /\ row'[j].deferrals = row[j].deferrals /\ row'[j].state = row[j].state
        /\ row'[j].lease = "lapsed" /\ row[j].lease = "live"
        /\ \A k \in Jobs \ {j} : row'[k] = row[k]
    BY <1>6, <1>t DEF Lapse, TypeOK, Row
  <2>3. Queued(j)'
    BY <2>1, <2>2 DEF Queued
  <2> QED
    <3>1. UNCHANGED <<status, worker, boot, holder, retries, lost>>
      BY <1>6 DEF Lapse
    <3> QED
      BY <1>5, <2>1, <2>2, <2>3, <3>1
<1>7. ASSUME NEW j \in Jobs, BecomeReady(j) PROVE IInv'
  <2>1. /\ row'[j].owner = row[j].owner /\ row'[j].attempts = row[j].attempts
        /\ row'[j].deferrals = row[j].deferrals /\ row'[j].state = "ready"
        /\ row'[j].lease = row[j].lease /\ row[j].state = "delayed"
        /\ \A k \in Jobs \ {j} : row'[k] = row[k]
    BY <1>7, <1>t DEF BecomeReady, TypeOK, Row
  <2> QED
    <3>1. UNCHANGED <<status, worker, boot, holder, retries, lost>>
      BY <1>7 DEF BecomeReady
    <3>2. Queued(j) /\ Queued(j)'
      BY <2>1 DEF Queued
    <3> QED
      BY <1>5, <2>1, <3>1, <3>2
<1> QED
  BY <1>1, <1>2, <1>3, <1>4, <1>6, <1>7 DEF Crash, Restart

\* Every step, and every stuttering step, keeps the invariant.
LEMMA NextInv == IInv /\ [Next]_vars => IInv'
<1>1. CASE UNCHANGED vars
  <2>1. IInv => (\A j \in Jobs : RowInv(j)') /\ (\A w \in Workers : ClaimInv(w)')
    BY <1>1, RowFrame, ClaimFrame DEF vars, jobVars, history, IInv
  <2> QED
    BY <1>1, <2>1, NextType DEF IInv
<1> QED
  BY <1>1, RequestInv, WorkInv, OtherInv DEF Next

\* The invariant the other theorems follow from.
THEOREM Inductive == Spec => []IInv
  BY InitInv, NextInv, PTL DEF Spec

-----------------------------------------------------------------------------
(* The safety theorems.                                                    *)

\* app_jobs and app_job_queue agree: a row belongs to a pending job, and a job is shown as
\* processing only under a claim.
THEOREM Consistency == Spec => []QueueConsistent
<1>1. IInv => QueueConsistent
  BY DEF IInv, RowInv, QueueConsistent
<1> QED
  BY <1>1, Inductive, PTL

\* A worker with a live lease works on the job it claimed, in the state it left it in.
THEOREM Fidelity == Spec => []ClaimMatchesJob
<1>1. IInv => ClaimMatchesJob
  BY HolderFacts DEF ClaimMatchesJob
<1> QED
  BY <1>1, Inductive, PTL

\* Retries and deferrals stay within the limits of worker-retry.ts.
THEOREM Limits == Spec => []RetriesBounded
<1>1. IInv => RetriesBounded
  BY DEF IInv, RowInv, RetriesBounded
<1> QED
  BY <1>1, Inductive, PTL

\* The only steps that complete or fail a job are its holder's Complete and GiveUp.
LEMMA DecidingSteps ==
  ASSUME IInv, Next, NEW j \in Jobs,
         status'[j] # status[j],
         \/ status'[j] = "failed"
         \/ status[j] \in Pending /\ status'[j] = "awaiting_review"
  PROVE  \E w \in Workers : /\ worker[w].job = j /\ Holds(w)
                            /\ Complete(w) \/ GiveUp(w)
                            /\ status'[j] = "failed" => GiveUp(w)
<1>t. TypeOK
  BY DEF IInv
<1>1. ~Request
  BY <1>t DEF Request, Cancel, Retry, Upload, Review, Purge, TypeOK, Reviewable, Pending
<1>2. PICK w \in Workers : Work(w)
  BY <1>1 DEF Next, Stop, Abort, Crash, Restart, NewProcess, Claim, Lapse, BecomeReady, jobVars
<1>3. Complete(w) \/ GiveUp(w)
  BY <1>2, <1>t DEF Work, Start, DropRow, Extract, Throw, Requeue, Abandon, jobVars, TypeOK
<1>4. worker[w].job = j /\ Holds(w)
  BY <1>3, <1>t DEF Complete, GiveUp, TypeOK
<1>5. status'[j] = "failed" => GiveUp(w)
  BY <1>3, <1>4, <1>t DEF Complete, TypeOK
<1> QED
  BY <1>3, <1>4, <1>5

\* Only the latest claim of a job completes or fails it.
THEOREM LatestClaim == Spec => OnlyLatestClaimDecides
<1> DEFINE A == \A j \in Jobs :
       status[j] \in Pending /\ status'[j] \in {"awaiting_review", "failed"} =>
         \E w \in Workers : holder[j] = w /\ worker[w].job = j /\ worker'[w] # worker[w]
<1>1. IInv /\ Next => A
  <2> SUFFICES ASSUME IInv, Next, NEW j \in Jobs, status[j] \in Pending,
                      status'[j] \in {"awaiting_review", "failed"}
               PROVE  \E w \in Workers : /\ holder[j] = w /\ worker[w].job = j
                                         /\ worker'[w] # worker[w]
    OBVIOUS
  <2>1. PICK w \in Workers : worker[w].job = j /\ Holds(w) /\ (Complete(w) \/ GiveUp(w))
    BY DecidingSteps DEF Pending
  <2>2. worker[w].pc \in {"completing", "caught"} /\ worker'[w].pc # worker[w].pc
    BY <2>1 DEF Complete, GiveUp, Leave, Catch, Idle, IInv, TypeOK, Iteration
  <2> QED
    BY <2>1, <2>2, HolderFacts
<1>2. Spec => [][Next]_vars
  BY DEF Spec
<1>3. IInv /\ [Next]_vars => [A]_vars
  BY <1>1
<1> QED
  BY <1>2, <1>3, Inductive, PTL DEF OnlyLatestClaimDecides

\* A job fails only for a rejected request, exhausted capacity or exhausted attempts.
THEOREM FailuresAreEarned == Spec => NoPrematureFailure
<1> DEFINE A == \A j \in Jobs : status[j] # "failed" /\ status'[j] = "failed" =>
       \E w \in Workers : /\ worker[w].job = j
                          /\ \/ worker[w].code = "rejected"
                             \/ worker[w].code = "busy" /\ row[j].deferrals = MaxDeferrals
                             \/ retries[j] + lost[j] + 1 >= MaxAttempts
<1>1. IInv /\ Next => A
  <2> SUFFICES ASSUME IInv, Next, NEW j \in Jobs,
                      status[j] # "failed", status'[j] = "failed"
               PROVE  \E w \in Workers :
                        /\ worker[w].job = j
                        /\ \/ worker[w].code = "rejected"
                           \/ worker[w].code = "busy" /\ row[j].deferrals = MaxDeferrals
                           \/ retries[j] + lost[j] + 1 >= MaxAttempts
    OBVIOUS
  <2>1. PICK w \in Workers : worker[w].job = j /\ Holds(w) /\ GiveUp(w)
    BY DecidingSteps
  <2>2. /\ worker[w].attempts = retries[j] + lost[j] + 1
        /\ worker[w].deferrals = row[j].deferrals
    BY <2>1, HolderFacts
  <2>3. \/ worker[w].code = "rejected"
        \/ worker[w].code = "busy" /\ ~(worker[w].deferrals < MaxDeferrals)
        \/ ~(worker[w].attempts < MaxAttempts)
    BY <2>1, Decisions DEF GiveUp, IInv
  <2>4. /\ row[j].deferrals \in Nat /\ row[j].deferrals <= MaxDeferrals
        /\ retries[j] \in Nat /\ lost[j] \in Nat
    BY DEF IInv, TypeOK, RowInv, Row
  <2> QED
    BY <2>1, <2>2, <2>3, <2>4, ConstantsAssumption
<1>2. Spec => [][Next]_vars
  BY DEF Spec
<1>3. IInv /\ [Next]_vars => [A]_vars
  BY <1>1
<1> QED
  BY <1>2, <1>3, Inductive, PTL DEF NoPrematureFailure

-----------------------------------------------------------------------------
(* Refinement.                                                             *)

\* What a user sees of the jobs.
shown == [j \in Jobs |-> IF status[j] \in Pending THEN "pending" ELSE status[j]]

\* A step that leaves what users see alone is a stutter of the job lifecycle.
LEMMA Unseen ==
  ASSUME UNCHANGED <<shown, document, review>>
  PROVE  [Outcome!Next]_(Outcome!vars)
  BY DEF Outcome!vars, shown

\* A step of the system changes at most one job's shown state outside Purge.
LEMMA ShownUpdate ==
  ASSUME TypeOK, NEW j \in Jobs, NEW s, status' = [status EXCEPT ![j] = s]
  PROVE  shown' = [shown EXCEPT ![j] = IF s \in Pending THEN "pending" ELSE s]
  BY DEF shown, TypeOK

\* The index of active jobs is the abstract rule that a document has one open job.
LEMMA IndexIsSole ==
  ASSUME TypeOK, NEW j \in Jobs, NEW d
  PROVE  IndexAdmits(j, d) <=> Outcome!Sole(j, d)
<1>1. \A k \in Jobs : (IF status[k] \in Pending THEN "pending" ELSE status[k]) \in Outcome!Open
                      <=> status[k] \in Active
  BY DEF TypeOK, Statuses, Reviewable, Outcome!Open, Active, Pending
<1> QED
  BY <1>1 DEF IndexAdmits, Outcome!Sole

\* Requests are steps of the job lifecycle.
LEMMA RequestRefines ==
  ASSUME IInv, Request
  PROVE  [Outcome!Next]_(Outcome!vars)
<1>t. TypeOK
  BY DEF IInv
<1>1. ASSUME NEW j \in Jobs, Cancel(j) PROVE Outcome!Next
  <2>1. shown' = [shown EXCEPT ![j] = "cancelled"]
    BY <1>1, <1>t, ShownUpdate DEF Cancel, Pending
  <2>2. Outcome!Withdraw(j)
    BY <1>1, <2>1 DEF Cancel, Outcome!Withdraw, shown
  <2> QED
    BY <2>2 DEF Outcome!Next
<1>2. ASSUME NEW j \in Jobs, Retry(j) PROVE Outcome!Next
  <2>1. shown' = [shown EXCEPT ![j] = "pending"]
    BY <1>2, <1>t, ShownUpdate DEF Retry, Pending
  <2>2. Outcome!Reopen(j)
    BY <1>2, <1>t, <2>1, IndexIsSole DEF Retry, Outcome!Reopen, shown, Pending
  <2> QED
    BY <2>2 DEF Outcome!Next
<1>3. ASSUME NEW j \in Jobs, NEW d \in Documents, Upload(j, d) PROVE Outcome!Next
  <2>1. shown' = [shown EXCEPT ![j] = "pending"]
    BY <1>3, <1>t, ShownUpdate DEF Upload, Pending
  <2>2. Outcome!Sole(j, d)
    BY <1>3, <1>t, IndexIsSole DEF Upload, IndexAdmits
  <2>3. Outcome!Submit(j, d)
    BY <1>3, <2>1, <2>2 DEF Upload, Outcome!Submit, shown, Pending
  <2> QED
    BY <2>3 DEF Outcome!Next
<1>4. ASSUME NEW j \in Jobs, NEW s \in Reviewable, NEW r \in {"reviewed", "posted"},
             Review(j, s, r)
      PROVE  Outcome!Next
  <2>1. shown' = [shown EXCEPT ![j] = s] /\ s \in Outcome!Reviewable
    BY <1>4, <1>t, ShownUpdate DEF Review, Reviewable, Pending, Outcome!Reviewable
  <2>2. shown[j] = status[j] /\ status[j] \in Outcome!Reviewable
    BY <1>4 DEF Review, Reviewable, Pending, shown, Outcome!Reviewable
  <2>3. Outcome!Review(j, s, r)
    BY <1>4, <1>t, <2>1, <2>2, IndexIsSole DEF Review, Outcome!Review, shown
  <2> QED
    BY <2>1, <2>3 DEF Outcome!Next
<1>5. ASSUME NEW d \in Documents, Purge(d) PROVE Outcome!Next
  <2>1. shown' = [j \in Jobs |-> IF document[j] = d THEN "purged" ELSE shown[j]]
    BY <1>5 DEF Purge, shown, Pending
  <2>2. document' = [j \in Jobs |-> IF document[j] = d THEN NoDocument ELSE document[j]]
    BY <1>5 DEF Purge
  <2>3. Outcome!Purge(d)
    BY <1>5, <2>1, <2>2 DEF Purge, Outcome!Purge, shown, Pending
  <2> QED
    BY <2>3 DEF Outcome!Next
<1> QED
  BY <1>1, <1>2, <1>3, <1>4, <1>5 DEF Request

\* A worker's step decides its job or is not seen at all.
LEMMA WorkRefines ==
  ASSUME IInv, NEW w \in Workers, Work(w)
  PROVE  [Outcome!Next]_(Outcome!vars)
<1>t. TypeOK
  BY DEF IInv
<1>1. UNCHANGED <<document, review>>
  BY DEF Work, Start, DropRow, Extract, Throw, Complete, Requeue, GiveUp, Abandon, jobVars
<1>2. ASSUME NEW j \in Jobs, NEW s \in Pending, status[j] \in Pending,
             status' = [status EXCEPT ![j] = s]
      PROVE  [Outcome!Next]_(Outcome!vars)
  <2>1. shown' = shown
    BY <1>2, <1>t DEF shown, TypeOK
  <2> QED
    BY <1>1, <2>1, Unseen
<1>3. ASSUME NEW j \in Jobs, NEW s \in {"awaiting_review", "failed"}, status[j] \in Pending,
             status' = [status EXCEPT ![j] = s]
      PROVE  [Outcome!Next]_(Outcome!vars)
  <2>1. shown' = [shown EXCEPT ![j] = s]
    BY <1>3, <1>t, ShownUpdate DEF Pending
  <2>2. Outcome!Decide(j)
    BY <1>1, <1>3, <2>1 DEF Outcome!Decide, shown
  <2> QED
    BY <2>2 DEF Outcome!Next
<1>4. CASE UNCHANGED status
  BY <1>1, <1>4, Unseen DEF shown
<1>5. CASE Start(w)
  BY <1>5, <1>2, <1>4, HolderFacts DEF Start, Pending
<1>6. CASE Complete(w)
  BY <1>6, <1>3, <1>4, HolderFacts DEF Complete, Pending
<1>7. CASE Requeue(w)
  <2>1. PICK j \in Jobs : j = worker[w].job /\ status[j] \in Pending
    BY <1>7, HolderFacts DEF Requeue
  <2>2. status' = [status EXCEPT ![j] = "queued"]
    BY <1>7, <1>t, <2>1 DEF Requeue, Pending, TypeOK
  <2> QED
    BY <1>2, <2>1, <2>2 DEF Pending
<1>8. CASE GiveUp(w)
  <2>1. PICK j \in Jobs : j = worker[w].job /\ status[j] \in Pending
    BY <1>8, HolderFacts DEF GiveUp
  <2>2. CASE status[j] = "processing"
    BY <1>8, <1>3, <2>1, <2>2 DEF GiveUp
  <2>3. CASE status[j] # "processing"
    BY <1>8, <1>t, <1>4, <2>1, <2>3 DEF GiveUp, TypeOK
  <2> QED
    BY <2>2, <2>3
<1> QED
  BY <1>4, <1>5, <1>6, <1>7, <1>8
     DEF Work, DropRow, Extract, Throw, Abandon, jobVars

\* The queue implements the job lifecycle: users never see leases, retries or crashes.
THEOREM Refinement == Spec => ImplementsJobLifecycle
<1>1. Init => Outcome!Init
  BY DEF Init, Outcome!Init, Pending
<1>2. IInv /\ [Next]_vars => [Outcome!Next]_(Outcome!vars)
  <2>1. CASE UNCHANGED vars
    BY <2>1, Unseen DEF vars, jobVars, shown
  <2>2. ASSUME IInv, Next PROVE [Outcome!Next]_(Outcome!vars)
    <3>1. CASE Request
      BY <2>2, <3>1, RequestRefines
    <3>2. CASE \E w \in Workers : Work(w)
      BY <2>2, <3>2, WorkRefines
    <3>3. CASE UNCHANGED jobVars
      BY <3>3, Unseen DEF jobVars, shown
    <3> QED
      BY <2>2, <3>1, <3>2, <3>3
         DEF Next, Stop, Abort, Crash, Restart, NewProcess, Claim, Lapse, BecomeReady
  <2> QED
    BY <2>1, <2>2
<1> QED
  BY <1>1, <1>2, Inductive, PTL DEF Spec, ImplementsJobLifecycle, Outcome!Spec
=============================================================================
