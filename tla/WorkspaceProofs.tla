-------------------------- MODULE WorkspaceProofs --------------------------
(***************************************************************************)
(* Proofs about the books of an office's workspace: the monitor of its     *)
(* reports, for any number of workers, offices, wakes and faults; the      *)
(* calendar of the reports that the monitor evaluates, for any finite set  *)
(* of documents; and the cash ledger, for any number of notices,           *)
(* transactions, marks and periods, any terms and any dates.               *)
(***************************************************************************)
EXTENDS ReportMonitor, ReportObligations, CashLedger, FiniteSetTheorems, TLAPS

\* Induction over finite sets without an operator: a set of subsets has a minimal one.
LEMMA Minimal ==
  ASSUME NEW S, IsFiniteSet(S), NEW T \in SUBSET (SUBSET S), T # {}
  PROVE  \E x \in T : \A y \in T : y \subseteq x => y = x
<1>1. IsWellFoundedOn(StrictSubsetOrdering(S), SUBSET S)
  BY FS_StrictSubsetOrderingWellFounded, FS_FiniteSubsetsOfFinite
<1>2. \E x \in T : \A y \in T : <<y, x>> \notin StrictSubsetOrdering(S)
  BY <1>1, WFMin
<1> QED
  BY <1>2 DEF StrictSubsetOrdering

-----------------------------------------------------------------------------
(* The monitor.                                                            *)

\* A claim knows a generation its office has had; if the office still has it, an evaluation
\* under the claim has left no wake unanswered.
ClaimKnows(w) ==
  worker[w].pc # "idle" =>
    /\ worker[w].generation <= row[worker[w].office].generation
    /\ worker[w].pc = "evaluated" /\ worker[w].generation = row[worker[w].office].generation =>
         ~pending[worker[w].office]

\* An office without a row has had no generation.
Absent(o) == row[o].run = "absent" => row[o].generation = 0

MonitorIInv ==
  /\ TypeOK /\ WakesKept
  /\ \A o \in Offices : Absent(o)
  /\ \A w \in Workers : ClaimKnows(w)

-----------------------------------------------------------------------------
(* Rows and claims.                                                        *)

LEMMA WrittenTypes ==
  /\ NoRow \in Row /\ FirstRow \in Row /\ FirstRow.run = "due" /\ FirstRow.generation = 1
  /\ Idle.pc = "idle" /\ Idle.office = NoOffice /\ Idle \in Claims
<1>1. NoRow \in Row
  BY DEF NoRow, Row
<1>2. FirstRow \in Row /\ FirstRow.run = "due" /\ FirstRow.generation = 1
  BY <1>1 DEF FirstRow, Row
<1> QED
  BY <1>1, <1>2 DEF Idle, Claims

\* What a wake makes of a row that is there.
LEMMA ScheduledRow ==
  ASSUME NEW r \in Row, r.run # "absent"
  PROVE  /\ Scheduled(r) \in Row
         /\ Scheduled(r).run = "due" /\ Scheduled(r).generation = r.generation + 1
<1>1. r.generation \in Nat /\ r.generation + 1 \in Nat
  BY DEF Row
<1>2. Scheduled(r) = [r EXCEPT !.run = "due", !.generation = r.generation + 1]
  BY DEF Scheduled
<1>3. [r EXCEPT !.run = "due", !.generation = r.generation + 1] \in Row
  BY <1>1 DEF Row
<1> QED
  BY <1>1, <1>2, <1>3 DEF Row

\* The office of an iteration that is under way.
LEMMA BusyOffice ==
  ASSUME TypeOK, NEW w \in Workers, worker[w].pc # "idle"
  PROVE  worker[w].office \in Offices
  BY DEF TypeOK, Claims

LEMMA MonitorInitially == Init => MonitorIInv
  BY WrittenTypes, ConstantsAssumption
     DEF Init, MonitorIInv, TypeOK, WakesKept, ClaimKnows, Absent, NoRow

\* A step that only moves a worker on, or ends its iteration.
LEMMA MoveStep ==
  ASSUME MonitorIInv, NEW w \in Workers, NEW pc \in {"failed", "stopped"},
         Leave(w) \/ (worker[w].pc # "idle" /\ Move(w, pc)),
         UNCHANGED <<row, stale, pending>>, faults' \in 0 .. MaxFaults,
         stopping' \in [Workers -> BOOLEAN]
  PROVE  MonitorIInv'
<1>1. /\ worker' \in [Workers -> Claims]
      /\ \A v \in Workers : worker'[v].pc = "idle" <=> worker'[v].office = NoOffice
      /\ \A v \in Workers \ {w} : worker'[v] = worker[v]
      /\ worker'[w].pc = "idle" \/ /\ worker[w].pc # "idle" /\ worker'[w].pc = pc
                                   /\ worker'[w].office = worker[w].office
                                   /\ worker'[w].generation = worker[w].generation
  BY WrittenTypes DEF MonitorIInv, TypeOK, Move, Leave, Claims
<1> QED
  BY <1>1 DEF MonitorIInv, TypeOK, WakesKept, ClaimKnows, Absent

\* A row that is rewritten keeps what the others say, and the claims on it.
LEMMA RowStep ==
  ASSUME MonitorIInv, NEW o \in Offices, NEW r \in Row, row' = [row EXCEPT ![o] = r],
         UNCHANGED <<worker, stopping, faults>>,
         NEW b \in BOOLEAN, NEW c \in BOOLEAN,
         stale' = [stale EXCEPT ![o] = b], pending' = [pending EXCEPT ![o] = c],
         r.run # "absent", r.generation >= row[o].generation,
         c => r.run = "due" /\ r.generation > row[o].generation
  PROVE  MonitorIInv'
<1>1. /\ row' \in [Offices -> Row] /\ row'[o] = r
      /\ \A p \in Offices \ {o} : row'[p] = row[p] /\ pending'[p] = pending[p]
      /\ pending'[o] = c
  BY DEF MonitorIInv, TypeOK
<1>2. TypeOK' /\ WakesKept' /\ \A p \in Offices : Absent(p)'
  BY <1>1 DEF MonitorIInv, TypeOK, WakesKept, Absent
<1>3. ASSUME NEW w \in Workers PROVE ClaimKnows(w)'
  <2>1. CASE worker[w].pc = "idle"
    BY <2>1 DEF ClaimKnows
  <2>2. CASE worker[w].pc # "idle" /\ worker[w].office # o
    BY <1>1, <2>2, BusyOffice DEF MonitorIInv, ClaimKnows
  <2>3. CASE worker[w].pc # "idle" /\ worker[w].office = o
    <3>1. worker[w].generation \in Nat /\ row[o].generation \in Nat /\ r.generation \in Nat
      BY DEF MonitorIInv, TypeOK, Claims, Row
    <3>2. worker[w].generation <= row[o].generation
      BY <2>3 DEF MonitorIInv, ClaimKnows
    <3> QED
      BY <1>1, <2>3, <3>1, <3>2 DEF ClaimKnows
  <2> QED
    BY <2>1, <2>2, <2>3
<1> QED
  BY <1>2, <1>3 DEF MonitorIInv

\* The requests.
LEMMA RequestStep ==
  ASSUME MonitorIInv, NEW o \in Offices, Change(o) \/ View(o) \/ Save(o)
  PROVE  MonitorIInv'
<1>1. CASE Change(o)
  BY <1>1 DEF Change, MonitorIInv, TypeOK, WakesKept, ClaimKnows, Absent
<1>2. CASE View(o)
  <2> DEFINE r == IF row[o].run = "absent" THEN FirstRow ELSE row[o]
  <2>1. /\ r \in Row /\ r.run # "absent"
        /\ row[o].generation \in Nat /\ r.generation >= row[o].generation
    BY WrittenTypes DEF MonitorIInv, TypeOK, Row, Absent
  <2>2. row' = [row EXCEPT ![o] = r]
    BY <1>2 DEF View
  <2> HIDE DEF r
  <2> QED
    BY <1>2, <2>1, <2>2, RowStep DEF View, Evaluated
<1>3. CASE Save(o)
  <2> DEFINE r == Scheduled(row[o])
  <2>1. row[o] \in Row /\ row[o].generation \in Nat
    BY DEF MonitorIInv, TypeOK, Row
  <2>2. r \in Row /\ r.run = "due" /\ r.generation = row[o].generation + 1
    <3>1. CASE row[o].run = "absent"
      BY <3>1, WrittenTypes DEF Scheduled, MonitorIInv, Absent
    <3>2. CASE row[o].run # "absent"
      BY <2>1, <3>2, ScheduledRow
    <3> QED
      BY <3>1, <3>2
  <2>3. row' = [row EXCEPT ![o] = r]
    BY <1>3 DEF Save
  <2>4. r.run # "absent" /\ r.generation > row[o].generation
    BY <2>1, <2>2
  <2> HIDE DEF r
  <2>5. /\ stale' = [stale EXCEPT ![o] = FALSE] /\ pending' = [pending EXCEPT ![o] = TRUE]
        /\ UNCHANGED <<worker, stopping, faults>>
    BY <1>3 DEF Save
  <2>6. TRUE \in BOOLEAN /\ FALSE \in BOOLEAN /\ r.generation >= row[o].generation
    BY <2>1, <2>2
  <2> QED
    BY <2>2, <2>3, <2>4, <2>5, <2>6, RowStep
<1> QED
  BY <1>1, <1>2, <1>3

-----------------------------------------------------------------------------
(* The workers, time and faults.                                           *)

LEMMA ClaimStep ==
  ASSUME MonitorIInv, NEW w \in Workers, NEW o \in Offices, Claim(w, o)
  PROVE  MonitorIInv'
<1>1. row[o] \in Row /\ row[o].generation \in Nat /\ o # NoOffice
  BY ConstantsAssumption DEF MonitorIInv, TypeOK, Row
<1>2. /\ row' \in [Offices -> Row]
      /\ \A p \in Offices : row'[p].run = row[p].run /\ row'[p].generation = row[p].generation
                            /\ row'[p].error = row[p].error
  BY <1>1 DEF Claim, MonitorIInv, TypeOK, Row
<1>3. /\ worker' \in [Workers -> Claims]
      /\ worker'[w] = [pc |-> "claimed", office |-> o, generation |-> row[o].generation]
      /\ \A v \in Workers \ {w} : worker'[v] = worker[v]
  BY <1>1 DEF Claim, MonitorIInv, TypeOK, Claims
<1>4. TypeOK' /\ WakesKept' /\ \A p \in Offices : Absent(p)'
  BY <1>1, <1>2, <1>3 DEF Claim, MonitorIInv, TypeOK, WakesKept, Absent
<1>5. ClaimKnows(w)'
  BY <1>1, <1>2, <1>3 DEF ClaimKnows
<1>6. ASSUME NEW v \in Workers \ {w} PROVE ClaimKnows(v)'
  BY <1>2, <1>3, BusyOffice DEF Claim, MonitorIInv, ClaimKnows
<1> QED
  BY <1>4, <1>5, <1>6 DEF MonitorIInv

LEMMA ReconcileStep == ASSUME MonitorIInv, NEW w \in Workers, Reconcile(w) PROVE MonitorIInv'
<1>1. worker[w].office \in Offices /\ worker[w] \in Claims
  BY BusyOffice DEF Reconcile, MonitorIInv, TypeOK
<1>2. /\ worker' \in [Workers -> Claims]
      /\ worker'[w].pc = "evaluated" /\ worker'[w].office = worker[w].office
      /\ worker'[w].generation = worker[w].generation
      /\ \A v \in Workers \ {w} : worker'[v] = worker[v]
  BY <1>1 DEF Reconcile, Move, MonitorIInv, TypeOK, Claims
<1>3. /\ pending' \in [Offices -> BOOLEAN] /\ stale' \in [Offices -> BOOLEAN]
      /\ ~pending'[worker[w].office]
      /\ \A o \in Offices : pending'[o] => pending[o]
  BY <1>1, Zenon DEF Reconcile, Evaluated, MonitorIInv, TypeOK
<1>4. TypeOK' /\ WakesKept' /\ \A p \in Offices : Absent(p)'
  BY <1>2, <1>3 DEF Reconcile, MonitorIInv, TypeOK, WakesKept, Absent
<1>5. ClaimKnows(w)'
  BY <1>2, <1>3 DEF Reconcile, MonitorIInv, ClaimKnows
<1>6. ASSUME NEW v \in Workers \ {w} PROVE ClaimKnows(v)'
  BY <1>2, <1>3, BusyOffice DEF Reconcile, MonitorIInv, ClaimKnows
<1> QED
  BY <1>4, <1>5, <1>6 DEF MonitorIInv

\* The completion of the claim that is on the row: with the generation of the claim no wake
\* is left, so the office may wait.
LEMMA FinishStep == ASSUME MonitorIInv, NEW w \in Workers, Finish(w) PROVE MonitorIInv'
<1> DEFINE o == worker[w].office
           r == Completed(w)
<1>1. o \in Offices /\ worker[w] \in Claims /\ row[o] \in Row
  BY BusyOffice DEF Finish, MonitorIInv, TypeOK
<1>2. /\ worker' \in [Workers -> Claims]
      /\ \A v \in Workers : worker'[v].pc = "idle" <=> worker'[v].office = NoOffice
      /\ worker'[w].pc = "idle" /\ \A v \in Workers \ {w} : worker'[v] = worker[v]
  BY WrittenTypes DEF Finish, Leave, MonitorIInv, TypeOK
<1>3. CASE ~Holds(w)
  BY <1>2, <1>3 DEF Finish, MonitorIInv, TypeOK, WakesKept, ClaimKnows, Absent
<1>4. CASE Holds(w)
  <2>1. /\ r \in Row /\ r.generation = row[o].generation
        /\ r.run = IF StaysDue(w) THEN "due" ELSE "later"
        /\ worker[w].pc = "failed" => r.error = "failed"
    BY <1>1 DEF Completed, Row
  <2>2. row' = [row EXCEPT ![o] = r]
    BY <1>4 DEF Finish
  <2> HIDE DEF r
  <2>3. /\ row' \in [Offices -> Row] /\ row'[o] = r
        /\ \A p \in Offices \ {o} : row'[p] = row[p]
    BY <1>1, <2>1, <2>2 DEF MonitorIInv, TypeOK
  <2>4. ~StaysDue(w) /\ pending[o] => worker[w].pc = "failed"
    BY DEF Finish, StaysDue, MonitorIInv, ClaimKnows
  <2>5. TypeOK'
    BY <1>2, <2>3 DEF Finish, MonitorIInv, TypeOK
  <2>6. WakesKept' /\ \A p \in Offices : Absent(p)'
    BY <2>1, <2>3, <2>4 DEF Finish, MonitorIInv, WakesKept, Absent
  <2>7. \A v \in Workers : ClaimKnows(v)'
    BY <1>2, <2>1, <2>3, BusyOffice DEF Finish, MonitorIInv, ClaimKnows
  <2> QED
    BY <2>5, <2>6, <2>7 DEF MonitorIInv
<1> QED
  BY <1>3, <1>4

\* Leases and delays that end.
LEMMA TimeStep ==
  ASSUME MonitorIInv, NEW o \in Offices, Lapse(o) \/ ComeDue(o)
  PROVE  MonitorIInv'
<1>1. row[o] \in Row
  BY DEF MonitorIInv, TypeOK
<1>2. PICK r \in Row :
        /\ row' = [row EXCEPT ![o] = r] /\ r.generation = row[o].generation
        /\ r.error = row[o].error
        /\ r.run = row[o].run \/ r.run = "due"
  <2>1. CASE Lapse(o)
    <3>1. [row[o] EXCEPT !.lease = "lapsed"] \in Row
      BY <1>1 DEF Row
    <3> QED
      BY <1>1, <2>1, <3>1 DEF Lapse, Row
  <2>2. CASE ComeDue(o)
    <3>1. [row[o] EXCEPT !.run = "due"] \in Row
      BY <1>1 DEF Row
    <3> QED
      BY <1>1, <2>2, <3>1 DEF ComeDue, Row
  <2> QED
    BY <2>1, <2>2
<1>3. /\ row' \in [Offices -> Row] /\ row'[o] = r
      /\ \A p \in Offices \ {o} : row'[p] = row[p]
  BY <1>2 DEF MonitorIInv, TypeOK
<1>4. faults' \in 0 .. MaxFaults
  BY ConstantsAssumption DEF Lapse, ComeDue, Spend, MonitorIInv, TypeOK
<1>5. UNCHANGED <<worker, stopping, stale, pending>>
  BY DEF Lapse, ComeDue
<1> QED
  BY <1>2, <1>3, <1>4, <1>5, BusyOffice DEF MonitorIInv, TypeOK, WakesKept, ClaimKnows, Absent

LEMMA MonitorSteps == MonitorIInv /\ [Next]_vars => MonitorIInv'
<1> SUFFICES ASSUME MonitorIInv, [Next]_vars PROVE MonitorIInv'
  OBVIOUS
<1>1. CASE UNCHANGED vars
  BY <1>1 DEF vars, MonitorIInv, TypeOK, WakesKept, ClaimKnows, Absent
<1>s. Spend => faults' \in 0 .. MaxFaults
  BY ConstantsAssumption DEF Spend, MonitorIInv, TypeOK
<1>t. /\ faults \in 0 .. MaxFaults
      /\ \A w \in Workers, b \in BOOLEAN :
           [stopping EXCEPT ![w] = b] \in [Workers -> BOOLEAN]
      /\ stopping \in [Workers -> BOOLEAN]
  BY DEF MonitorIInv, TypeOK
<1>2. ASSUME NEW w \in Workers, Decline(w) \/ ReconcileFails(w) PROVE MonitorIInv'
  <2>1. /\ worker[w].pc # "idle" /\ UNCHANGED <<row, stale, pending, stopping>>
        /\ faults' \in 0 .. MaxFaults
    BY <1>2, <1>s, <1>t DEF Decline, ReconcileFails
  <2>2. Move(w, "stopped") \/ Move(w, "failed")
    BY <1>2 DEF Decline, ReconcileFails
  <2> QED
    BY <1>t, <2>1, <2>2, MoveStep
<1>3. ASSUME NEW w \in Workers, Crash(w) PROVE MonitorIInv'
  <2>1. UNCHANGED <<row, stale, pending>> /\ Leave(w) /\ faults' \in 0 .. MaxFaults
    BY <1>3, <1>s DEF Crash
  <2>2. stopping' \in [Workers -> BOOLEAN]
    BY <1>3, <1>t DEF Crash
  <2> QED
    BY <2>1, <2>2, MoveStep
<1>4. ASSUME NEW w \in Workers, Stop(w) \/ Restart(w) PROVE MonitorIInv'
  <2>1. stopping' \in [Workers -> BOOLEAN] /\ faults' \in 0 .. MaxFaults
    BY <1>4, <1>s, <1>t DEF Stop, Restart
  <2>2. UNCHANGED <<row, worker, stale, pending>>
    BY <1>4 DEF Stop, Restart
  <2> QED
    BY <2>1, <2>2 DEF MonitorIInv, TypeOK, WakesKept, ClaimKnows, Absent
<1> QED
  BY <1>1, <1>2, <1>3, <1>4, RequestStep, ClaimStep, ReconcileStep, FinishStep, TimeStep
     DEF Next, Work

-----------------------------------------------------------------------------
(* The theorems.                                                           *)

\* The strengthened invariant: claims against the generations of their offices.
THEOREM MonitorInductive == Spec => []MonitorIInv
  BY MonitorInitially, MonitorSteps, PTL DEF Spec

\* Rows and claims keep their types.
THEOREM MonitorTypes == Spec => []TypeOK
<1>1. MonitorIInv => TypeOK
  BY DEF MonitorIInv
<1> QED
  BY <1>1, MonitorInductive, PTL

\* "Completion detects a concurrent wake and leaves that office immediately due": for any
\* number of monitors, offices, wakes and crashes.
THEOREM NoWakeIsLost == Spec => []WakesKept
<1>1. MonitorIInv => WakesKept
  BY DEF MonitorIInv
<1> QED
  BY <1>1, MonitorInductive, PTL

-----------------------------------------------------------------------------
(* The calendar.                                                           *)

MatchStates == {"none", "matched", "revoked"}
Receipts == [Docs -> [match : MatchStates, supersedes : Docs \cup {NoDoc}]]
Evidence == [disposition : Dispositions, matches : [Docs -> MatchStates]]
Issues == [status : {"none", "open", "snoozed", "resolved", "waived"}, active : BOOLEAN,
           waking : BOOLEAN, evidence : Evidence]

\* Only a report that is overdue makes the issue active, with the evidence there is.
IssueKnows ==
  /\ issue.active =>
       phase = "overdue" /\ issue.evidence = EvidenceOf(receipts, disposition)
  /\ issue.status = "none" => ~issue.active

\* A document that was not matched is no revision of any other, nor superseded by any.
OnlyReceiptsAreLinked ==
  \A d \in Docs :
    /\ receipts[d].match = "none" => receipts[d].supersedes = NoDoc
    /\ receipts[d].supersedes # NoDoc => receipts[receipts[d].supersedes].match # "none"

\* No set of receipts supersedes itself.
NoCircle(rs) == \A S \in SUBSET Docs : S # {} => \E x \in S : rs[x].supersedes \notin S

CalendarIInv ==
  /\ receipts \in Receipts /\ disposition \in Dispositions
  /\ phase \in {"upcoming", "due", "overdue"} /\ issue \in Issues /\ dismissed \in Evidence
  /\ IssueKnows /\ DismissedKnowingly /\ ReceiptsAreCounted
  /\ OnlyReceiptsAreLinked /\ NoCircle(receipts)

-----------------------------------------------------------------------------
(* Revisions.                                                              *)

Closed(rs, S) == \A x \in S : rs[x].supersedes \in S \cup {NoDoc}

LEMMA AncestryIsLeast ==
  ASSUME NEW rs, NEW d \in Docs
  PROVE  /\ \A S \in SUBSET Docs : d \in S /\ Closed(rs, S) => Ancestry(rs, d) \subseteq S
         /\ d \in Ancestry(rs, d) /\ Ancestry(rs, d) \subseteq Docs
         /\ \A e \in Docs : (\A S \in SUBSET Docs : d \in S /\ Closed(rs, S) => e \in S)
                             => e \in Ancestry(rs, d)
  BY DEF Ancestry, Closed

LEMMA AncestryIsClosed ==
  ASSUME NoDoc \notin Docs, NEW rs \in Receipts, NEW d \in Docs
  PROVE  Closed(rs, Ancestry(rs, d))
<1> SUFFICES ASSUME NEW x \in Ancestry(rs, d), rs[x].supersedes # NoDoc
             PROVE  rs[x].supersedes \in Ancestry(rs, d)
  BY DEF Closed
<1>1. x \in Docs /\ rs[x].supersedes \in Docs
  BY AncestryIsLeast DEF Receipts
<1>2. ASSUME NEW S \in SUBSET Docs, d \in S, Closed(rs, S)
      PROVE  rs[x].supersedes \in S
  <2>1. x \in S
    BY <1>2, AncestryIsLeast
  <2> QED
    BY <1>1, <1>2, <2>1 DEF Closed
<1> QED
  BY <1>1, <1>2, AncestryIsLeast

LEMMA AncestryIsTransitive ==
  ASSUME NoDoc \notin Docs, NEW rs \in Receipts, NEW d \in Docs, NEW e \in Ancestry(rs, d)
  PROVE  e \in Docs /\ Ancestry(rs, e) \subseteq Ancestry(rs, d)
<1>1. e \in Docs /\ Ancestry(rs, d) \in SUBSET Docs
  BY AncestryIsLeast
<1> QED
  BY <1>1, AncestryIsLeast, AncestryIsClosed

\* What a receipt supersedes indirectly, the receipt it supersedes does or is.
LEMMA AncestryBegins ==
  ASSUME NoDoc \notin Docs, NEW rs \in Receipts, NEW d \in Docs, NEW e \in Ancestry(rs, d),
         e # d
  PROVE  /\ rs[d].supersedes \in Docs
         /\ e \in Ancestry(rs, rs[d].supersedes)
<1>1. rs[d].supersedes \in Docs \cup {NoDoc}
  BY DEF Receipts
<1>2. CASE rs[d].supersedes = NoDoc
  <2>1. Closed(rs, {d})
    BY <1>2 DEF Closed
  <2> QED
    BY <2>1, AncestryIsLeast
<1>3. CASE rs[d].supersedes \in Docs
  <2> DEFINE s == rs[d].supersedes
             S == {d} \cup Ancestry(rs, s)
  <2>1. s \in Ancestry(rs, s) /\ S \in SUBSET Docs
    BY <1>3, AncestryIsLeast
  <2>2. Closed(rs, Ancestry(rs, s))
    BY <1>3, AncestryIsClosed
  <2>3. Closed(rs, S)
    BY <2>1, <2>2 DEF Closed
  <2>4. e \in S
    BY <2>1, <2>3, AncestryIsLeast
  <2> QED
    BY <1>3, <2>4
<1> QED
  BY <1>1, <1>2, <1>3

LEMMA AncestryIsAntisymmetric ==
  ASSUME NoDoc \notin Docs, NEW rs \in Receipts, NoCircle(rs), NEW d \in Docs,
         NEW e \in Ancestry(rs, d), e # d
  PROVE  d \notin Ancestry(rs, e)
<1> SUFFICES ASSUME d \in Ancestry(rs, e) PROVE FALSE
  OBVIOUS
<1>1. e \in Docs /\ e \in Ancestry(rs, e)
  BY AncestryIsLeast
<1> DEFINE S == {x \in Docs : e \in Ancestry(rs, x) /\ x \in Ancestry(rs, e)}
<1>2. PICK x \in S : rs[x].supersedes \notin S
  BY <1>1 DEF NoCircle
<1> DEFINE s == rs[x].supersedes
<1>3. x \in Docs /\ e \in Ancestry(rs, x) /\ x \in Ancestry(rs, e)
  OBVIOUS
<1>4. s \in Docs /\ e \in Ancestry(rs, s)
  <2>1. CASE x # e
    BY <1>3, <2>1, AncestryBegins
  <2>2. CASE x = e
    <3>1. s \in Docs /\ d \in Ancestry(rs, s)
      BY <1>1, <2>2, AncestryBegins
    <3>2. Ancestry(rs, d) \subseteq Ancestry(rs, s)
      BY <3>1, AncestryIsTransitive
    <3> QED
      BY <3>1, <3>2
  <2> QED
    BY <2>1, <2>2
<1>5. s \in Ancestry(rs, e)
  BY <1>1, <1>3, <1>4, AncestryIsClosed DEF Closed
<1> QED
  BY <1>2, <1>4, <1>5

\* Among matched receipts whose supersessions run in no circle one is superseded by none.
LEMMA SomeIsCurrent ==
  ASSUME IsFiniteSet(Docs), NoDoc \notin Docs, NEW rs \in Receipts, NoCircle(rs),
         Matched(rs) # {}
  PROVE  Current(rs) # {}
<1> DEFINE Rest(d) == Docs \ Ancestry(rs, d)
           T == {Rest(d) : d \in Matched(rs)}
<1>0. T # {} /\ T \in SUBSET (SUBSET Docs)
  OBVIOUS
<1> HIDE DEF T
<1>1. PICK r \in T : \A y \in T : y \subseteq r => y = r
  BY <1>0, Minimal
<1>2. PICK d \in Matched(rs) : r = Rest(d)
  BY <1>1 DEF T
<1>3. d \in Docs /\ Matched(rs) \subseteq Docs
  BY DEF Matched
<1>4. ASSUME NEW e \in Matched(rs), d \in Ancestry(rs, e), d # e PROVE FALSE
  <2>1. Ancestry(rs, d) \subseteq Ancestry(rs, e)
    BY <1>3, <1>4, AncestryIsTransitive
  <2>2. Rest(e) = Rest(d)
    <3>1. Rest(e) \in T /\ Rest(e) \subseteq Rest(d)
      BY <2>1 DEF T
    <3> QED
      BY <1>1, <1>2, <3>1
  <2>3. e \in Ancestry(rs, d)
    BY <1>3, <2>2, AncestryIsLeast
  <2> QED
    BY <1>3, <1>4, <2>3, AncestryIsAntisymmetric
<1> QED
  BY <1>4 DEF Current, Superseded

-----------------------------------------------------------------------------
(* The evaluation.                                                         *)

LEMMA EvidenceTypes ==
  ASSUME NEW rs \in Receipts, NEW disp \in Dispositions
  PROVE  EvidenceOf(rs, disp) \in Evidence
  BY DEF EvidenceOf, Evidence, Receipts

LEMMA StatusOf ==
  ASSUME NEW rs, NEW disp \in Dispositions, phase \in {"upcoming", "due", "overdue"}
  PROVE  LET s == DeliveryStatus(rs, disp) IN
         /\ s \in {"upcoming", "due", "overdue", "received", "received_late",
                   "waived", "cancelled"}
         /\ s \in {"upcoming", "due", "overdue"} => s = phase
  BY DEF DeliveryStatus, Dispositions

\* What an evaluation makes of an issue.  It is left alone but for its waking before the
\* grace period has ended; after it, it is active as long as the report is overdue.
LEMMA EvaluatedIssues ==
  ASSUME CalendarIInv, NEW rs \in Receipts, NEW disp \in Dispositions, NEW i \in Issues
  PROVE  LET s == DeliveryStatus(rs, disp)
             e == EvidenceOf(rs, disp)
             j == EvaluatedIssue(rs, disp, i)
         IN  /\ j \in Issues
             /\ s \in {"upcoming", "due"} => j.active = i.active /\ j.evidence = i.evidence
             /\ s \notin {"upcoming", "due"} /\ j.status # "none" =>
                  (j.active <=> s = "overdue") /\ j.evidence = e
             /\ j.active /\ j.status \in {"resolved", "waived"} /\ s = "overdue" =>
                  i.active /\ i.evidence = e /\ i.status = j.status
             /\ j.status = "none" => j = i
             /\ s = "received_late" => j.status # "none"
             /\ s \notin {"upcoming", "due", "overdue"} => j.status \notin {"open", "snoozed"}
<1> DEFINE s == DeliveryStatus(rs, disp)
           e == EvidenceOf(rs, disp)
           k == IF s \in {"upcoming", "due"} THEN i
                ELSE Signalled(i, s = "overdue", s = "received_late", e)
           j == Woken(k)
<1>1. EvaluatedIssue(rs, disp, i) = j
  BY DEF EvaluatedIssue
<1>2. e \in Evidence
  BY EvidenceTypes
<1> HIDE DEF s, e
<1>3. /\ k \in Issues
      /\ s \in {"upcoming", "due"} => k = i
      /\ s \notin {"upcoming", "due"} /\ k.status # "none" =>
           (k.active <=> s = "overdue") /\ k.evidence = e
      /\ s \notin {"upcoming", "due"} /\ k.active /\ k.status \in {"resolved", "waived"} =>
           s = "overdue" /\ i.active /\ i.evidence = e /\ i.status = k.status
      /\ k.status = "none" => k = i
      /\ s = "received_late" => k.status # "none"
      /\ s \notin {"upcoming", "due", "overdue"} => k.status \notin {"open", "snoozed"}
  BY <1>2 DEF Signalled, SourceReopens, Issues
<1> HIDE DEF k
<1>4. /\ j \in Issues /\ j.active = k.active /\ j.evidence = k.evidence
      /\ j.active /\ j.status \in {"resolved", "waived"} => k.status = j.status
      /\ j.status = "none" => j = k
      /\ j.status \in {"open", "snoozed"} => k.status \in {"open", "snoozed"}
      /\ j.status = "none" <=> k.status = "none"
  BY <1>3 DEF Woken, Issues
<1> HIDE DEF j
<1> QED
  BY <1>1, <1>3, <1>4 DEF s, e

\* Every mutation evaluates: of what it makes of the receipts, the disposition and the issue
\* the invariant follows.
LEMMA Evaluates ==
  ASSUME CalendarIInv,
         NEW i \in Issues, i.active = issue.active, i.evidence = issue.evidence,
         i.status = "none" <=> issue.status = "none",
         receipts' \in Receipts, disposition' \in Dispositions, phase' = phase,
         issue' = EvaluatedIssue(receipts', disposition', i),
         dismissed' \in Evidence,
         i.active /\ i.status \in {"resolved", "waived"} => dismissed' = i.evidence,
         OnlyReceiptsAreLinked', NoCircle(receipts')
  PROVE  CalendarIInv'
<1> DEFINE s == DeliveryStatus(receipts', disposition')
           e == EvidenceOf(receipts', disposition')
<1>1. /\ issue' \in Issues
      /\ s \in {"upcoming", "due"} => issue'.active = i.active /\ issue'.evidence = i.evidence
      /\ s \notin {"upcoming", "due"} /\ issue'.status # "none" =>
           (issue'.active <=> s = "overdue") /\ issue'.evidence = e
      /\ issue'.active /\ issue'.status \in {"resolved", "waived"} /\ s = "overdue" =>
           i.active /\ i.evidence = e /\ i.status = issue'.status
      /\ issue'.status = "none" => issue' = i
      /\ s = "received_late" => issue'.status # "none"
      /\ s \notin {"upcoming", "due", "overdue"} => issue'.status \notin {"open", "snoozed"}
  BY EvaluatedIssues
<1>2. /\ s \in {"upcoming", "due", "overdue", "received", "received_late",
                "waived", "cancelled"}
      /\ s \in {"upcoming", "due", "overdue"} => s = phase
  BY StatusOf DEF CalendarIInv
<1>3. /\ DeliveryStatus(receipts, disposition)' = s
      /\ EvidenceOf(receipts, disposition)' = e
      /\ (Matched(receipts) # {})' => (Current(receipts) # {})'
  <2>1. Matched(receipts') # {} => Current(receipts') # {}
    BY SomeIsCurrent, CalendarAssumption
  <2>2. Matched(receipts)' = Matched(receipts')
    BY DEF Matched
  <2>3. Current(receipts)' = Current(receipts')
    BY DEF Current, Superseded, Ancestry, Matched
  <2>4. DeliveryStatus(receipts, disposition)' = s
    BY DEF DeliveryStatus, Matched
  <2>5. EvidenceOf(receipts, disposition)' = e
    BY DEF EvidenceOf
  <2> QED
    BY <2>1, <2>2, <2>3, <2>4, <2>5
<1> HIDE DEF s, e
<1>4. /\ i.active => phase = "overdue"
      /\ i.status = "none" => ~i.active
  BY DEF CalendarIInv, IssueKnows
<1>5. issue'.active => s = "overdue" /\ issue'.evidence = e /\ issue'.status # "none"
  BY <1>1, <1>2, <1>4
<1>6. IssueKnows' /\ DismissedKnowingly'
  BY <1>1, <1>2, <1>3, <1>4, <1>5 DEF IssueKnows, DismissedKnowingly
<1>7. ReceiptsAreCounted'
  BY <1>1, <1>3 DEF ReceiptsAreCounted
<1> QED
  BY <1>1, <1>6, <1>7 DEF CalendarIInv

LEMMA CalendarInitially == CalendarInit => CalendarIInv
<1> SUFFICES ASSUME CalendarInit PROVE CalendarIInv
  OBVIOUS
<1>1. /\ receipts \in Receipts /\ disposition \in Dispositions
      /\ phase = "upcoming" /\ disposition = "none"
      /\ \A d \in Docs : receipts[d].match = "none" /\ receipts[d].supersedes = NoDoc
  BY DEF CalendarInit, Receipts, Dispositions, MatchStates
<1>2. /\ issue \in Issues /\ dismissed \in Evidence
      /\ issue.status = "none" /\ issue.active = FALSE
  <2>1. NoEvidence \in Evidence
    BY DEF NoEvidence, Evidence, Dispositions, MatchStates
  <2> QED
    BY <2>1 DEF CalendarInit, NoIssue, Issues
<1>3. Matched(receipts) = {}
  BY <1>1 DEF Matched
<1>4. DeliveryStatus(receipts, disposition) = "upcoming"
  BY <1>1, <1>3 DEF DeliveryStatus
<1>5. OnlyReceiptsAreLinked /\ NoCircle(receipts)
  BY <1>1, CalendarAssumption DEF OnlyReceiptsAreLinked, NoCircle
<1> QED
  BY <1>1, <1>2, <1>3, <1>4, <1>5
     DEF CalendarIInv, IssueKnows, DismissedKnowingly, ReceiptsAreCounted

-----------------------------------------------------------------------------
(* The mutations.                                                          *)

\* MatchStates and links of a receipt that is there change without its supersession.
LEMMA MarkedReceipt ==
  ASSUME CalendarIInv, NEW d \in Docs, receipts[d].match # "none",
         NEW m \in {"matched", "revoked"}, receipts' = [receipts EXCEPT ![d].match = m]
  PROVE  receipts' \in Receipts /\ OnlyReceiptsAreLinked' /\ NoCircle(receipts')
<1>1. /\ receipts' \in Receipts
      /\ \A x \in Docs : /\ receipts'[x].supersedes = receipts[x].supersedes
                         /\ receipts'[x].match = "none" <=> receipts[x].match = "none"
  BY DEF CalendarIInv, Receipts, MatchStates
<1>2. \A x \in Docs : receipts[x].supersedes \in Docs \cup {NoDoc}
  BY DEF CalendarIInv, Receipts
<1>3. OnlyReceiptsAreLinked'
  BY <1>1, <1>2 DEF CalendarIInv, OnlyReceiptsAreLinked
<1>4. NoCircle(receipts')
  BY <1>1 DEF CalendarIInv, NoCircle
<1> QED
  BY <1>1, <1>3, <1>4

LEMMA MatchStep ==
  ASSUME CalendarIInv, NEW d \in Docs, NEW s \in Docs \cup {NoDoc},
         Match(d, s)
  PROVE  CalendarIInv'
<1> DEFINE r == [match |-> "matched", supersedes |-> s]
<1>1. receipts[d].match = "none" /\ receipts' = [receipts EXCEPT ![d] = r]
  BY DEF Match, SaveReceipts
<1>2. s # NoDoc => receipts[s].match # "none" /\ s # d
  BY <1>1 DEF Match, Supersedable, Current, Matched
<1>3. /\ receipts' \in Receipts
      /\ receipts'[d].match = "matched" /\ receipts'[d].supersedes = s
      /\ \A x \in Docs \ {d} : receipts'[x] = receipts[x]
  BY <1>1 DEF CalendarIInv, Receipts, MatchStates
<1>4. OnlyReceiptsAreLinked'
  BY <1>1, <1>2, <1>3 DEF CalendarIInv, OnlyReceiptsAreLinked, Receipts
<1>5. NoCircle(receipts')
  <2> SUFFICES ASSUME NEW S \in SUBSET Docs, S # {}
               PROVE  \E x \in S : receipts'[x].supersedes \notin S
    BY DEF NoCircle
  <2>1. CASE S = {d}
    BY <1>2, <1>3, <2>1, CalendarAssumption
  <2>2. CASE S # {d}
    <3>1. PICK x \in S \ {d} : receipts[x].supersedes \notin S \ {d}
      BY <2>2 DEF CalendarIInv, NoCircle
    <3>2. receipts[x].supersedes # d
      BY <1>1, <3>1, CalendarAssumption DEF CalendarIInv, OnlyReceiptsAreLinked
    <3> QED
      BY <1>3, <3>1, <3>2
  <2> QED
    BY <2>1, <2>2
<1> QED
  BY <1>3, <1>4, <1>5, Evaluates
     DEF Match, SaveReceipts, CalendarIInv, IssueKnows, DismissedKnowingly

LEMMA MarkStep ==
  ASSUME CalendarIInv, NEW d \in Docs,
         Revoke(d) \/ Reinstate(d)
  PROVE  CalendarIInv'
<1>1. receipts' \in Receipts /\ OnlyReceiptsAreLinked' /\ NoCircle(receipts')
  BY MarkedReceipt DEF Revoke, Reinstate, SaveReceipts
<1> QED
  BY <1>1, Evaluates
     DEF Revoke, Reinstate, SaveReceipts, CalendarIInv, IssueKnows,
         DismissedKnowingly

LEMMA SameReceipts ==
  ASSUME CalendarIInv, receipts' = receipts
  PROVE  receipts' \in Receipts /\ OnlyReceiptsAreLinked' /\ NoCircle(receipts')
  BY DEF CalendarIInv, OnlyReceiptsAreLinked, NoCircle

LEMMA DisposeStep ==
  ASSUME CalendarIInv,
         \/ Evaluate
         \/ \E disp \in Dispositions : Dispose(disp)
  PROVE  CalendarIInv'
  BY SameReceipts, Evaluates
     DEF Evaluate, Dispose, CalendarIInv, IssueKnows, DismissedKnowingly

LEMMA ActStep ==
  ASSUME CalendarIInv,
         \/ Snooze \/ Reopen
         \/ \E status \in {"resolved", "waived"} : Dismiss(status)
  PROVE  CalendarIInv'
<1>1. \E status \in {"open", "snoozed", "resolved", "waived"} :
        \E dis \in {dismissed, EvidenceOf(receipts, disposition)} :
          /\ Act([issue EXCEPT !.status = status, !.waking = FALSE], dis)
          /\ status \in {"resolved", "waived"} => dis = EvidenceOf(receipts, disposition)
  BY DEF Snooze, Reopen, Dismiss
<1> SUFFICES ASSUME NEW status \in {"open", "snoozed", "resolved", "waived"},
                    NEW dis \in {dismissed, EvidenceOf(receipts, disposition)},
                    Act([issue EXCEPT !.status = status, !.waking = FALSE], dis),
                    status \in {"resolved", "waived"} =>
                      dis = EvidenceOf(receipts, disposition)
             PROVE  CalendarIInv'
  BY <1>1
<1> DEFINE i == [issue EXCEPT !.status = status, !.waking = FALSE]
<1>2. /\ i \in Issues /\ i.active = issue.active /\ i.evidence = issue.evidence
      /\ i.status = status
  BY DEF CalendarIInv, Issues
<1>3. /\ issue.status # "none" /\ issue' = EvaluatedIssue(receipts, disposition, i)
      /\ dismissed' = dis /\ UNCHANGED <<receipts, disposition, phase>>
  BY DEF Act
<1> HIDE DEF i
<1>4. dis \in Evidence
  BY EvidenceTypes DEF CalendarIInv
<1>5. i.active /\ i.status \in {"resolved", "waived"} => dis = i.evidence
  BY <1>2 DEF CalendarIInv, IssueKnows
<1>6. issue' = EvaluatedIssue(receipts', disposition', i)
  BY <1>3
<1> QED
  BY <1>2, <1>3, <1>4, <1>5, <1>6, SameReceipts, Evaluates DEF CalendarIInv

LEMMA PhaseStep ==
  ASSUME CalendarIInv, Tick \/ SnoozeEnds
  PROVE  CalendarIInv'
<1>1. /\ issue' \in Issues /\ issue'.active = issue.active /\ issue'.evidence = issue.evidence
      /\ issue'.status = issue.status
      /\ phase' \in {"upcoming", "due", "overdue"} /\ (phase = "overdue" => phase' = phase)
      /\ UNCHANGED <<receipts, disposition, dismissed>>
  BY DEF Tick, SnoozeEnds, CalendarIInv, Issues
<1>2. LET s == DeliveryStatus(receipts, disposition) IN
      \/ DeliveryStatus(receipts, disposition)' = s
      \/ DeliveryStatus(receipts, disposition)' \in {"upcoming", "due", "overdue"}
  BY <1>1 DEF DeliveryStatus, Matched
<1>3. /\ EvidenceOf(receipts, disposition)' = EvidenceOf(receipts, disposition)
      /\ Matched(receipts)' = Matched(receipts)
      /\ Current(receipts)' = Current(receipts)
  BY <1>1 DEF EvidenceOf, Matched, Current, Superseded,
              Ancestry
<1>4. IssueKnows' /\ DismissedKnowingly'
  BY <1>1, <1>3 DEF CalendarIInv, IssueKnows, DismissedKnowingly
<1>5. ReceiptsAreCounted'
  BY <1>1, <1>2, <1>3 DEF CalendarIInv, ReceiptsAreCounted
<1> QED
  BY <1>1, <1>4, <1>5, SameReceipts DEF CalendarIInv

LEMMA CalendarSteps ==
  ASSUME CalendarIInv, [CalendarNext]_calendarVars
  PROVE  CalendarIInv'
<1>1. CASE UNCHANGED calendarVars
  BY <1>1 DEF calendarVars, CalendarIInv, IssueKnows, OnlyReceiptsAreLinked, NoCircle,
              DismissedKnowingly, ReceiptsAreCounted, DeliveryStatus,
              EvidenceOf, Matched, Current, Superseded,
              Ancestry
<1> QED
  BY <1>1, MatchStep, MarkStep, DisposeStep, ActStep, PhaseStep DEF CalendarNext

\* The inductive invariant of the calendar: no receipts supersede each other in a circle, and
\* an active issue carries the evidence there is.
THEOREM CalendarInductive == CalendarSpec => []CalendarIInv
<1>1. CalendarInit => CalendarIInv
  BY CalendarInitially
<1>2. CalendarIInv /\ [CalendarNext]_calendarVars => CalendarIInv'
  BY CalendarSteps
<1> QED
  BY <1>1, <1>2, PTL DEF CalendarSpec

\* An issue whose gap is open stays dismissed only for the evidence that was dismissed
\* (lib/server/report-obligations-store.ts, saveReportObligations).
THEOREM CalendarDismissals == CalendarSpec => []DismissedKnowingly
<1>1. CalendarIInv => DismissedKnowingly
  BY DEF CalendarIInv
<1> QED
  BY <1>1, CalendarInductive, PTL

\* As long as a match stands there is a current revision, whatever chains of revisions were
\* made; a report that came late keeps its issue, and one that came leaves no issue open
\* (lib/server/report-obligations-store.ts and lib/report-obligations.ts).
THEOREM CalendarReceipts == CalendarSpec => []ReceiptsAreCounted
<1>1. CalendarIInv => ReceiptsAreCounted
  BY DEF CalendarIInv
<1> QED
  BY <1>1, CalendarInductive, PTL


-----------------------------------------------------------------------------
(* The cash ledger.                                                        *)

\* A live transaction with a notice is one its notice still asks for.
AllocationsMatch ==
  \A t \in Txs : (Live(t) /\ txs[t].notice # None) =>
    Active(txs[t].notice) /\ Matches(txs[t].notice, t)

\* The cash balance is its row of the latest date.
LatestRow ==
  /\ cashRows[dated["cash"]] = value["cash"]
  /\ \A d \in Dates : d > dated["cash"] => cashRows[d] = -1

\* A reconciled period knows the part of the log that was there.
PeriodsSeen == \A p \in coverage : p.seen <= Len(log)

\* The fund carries the date of its latest mark.
FundDated ==
  /\ \A i \in FundMarks : log[i].date <= dated["fund"]
  /\ \E i \in FundMarks : log[i].date = dated["fund"]

\* Every settlement in the log is that of a transaction, on the holdings it posts to; only a
\* reversal undid it.
SettledEntries ==
  \A i \in DOMAIN log : log[i].type = "settled" =>
    /\ log[i].tx \in Txs
    /\ txs[log[i].tx].status \in {"settled", "reversed"}
    /\ log[i].on = PostsTo(txs[log[i].tx])

SettledLogged ==
  \A t \in Txs : txs[t].status = "settled" => \E i \in DOMAIN log : SettledAt(i, t)

\* What was settled after a mark was recorded is not dated before it.
AfterMarks ==
  \A i, j \in DOMAIN log :
    (j < i /\ IsMark(j, "fund") /\ log[i].type = "settled" /\ "fund" \in log[i].on)
      => log[i].date >= log[j].date

LatestMark(i) ==
  /\ i \in FundMarks
  /\ \A j \in FundMarks : log[j].date < log[i].date \/ (log[j].date = log[i].date /\ j <= i)

Capital(date) == SumFunction([t \in SettledSince(date) |-> FundDelta(txs[t])])

NoticesInv == AllocationsMatch /\ SimilarNoticesPayOnce /\ PreparedHasNoTwin
CoverageInv == LatestRow /\ PeriodsSeen /\ CoverageHolds
CapitalInv == FundDated /\ SettledEntries /\ SettledLogged /\ AfterMarks /\ MarkPlusCapital

-----------------------------------------------------------------------------
(* Types.                                                                  *)

LEMMA AmountsAreNumbers == \A a \in Amounts : a \in Int /\ a > 0
<1>1. Amounts \subseteq Nat /\ 0 \notin Amounts
  BY LedgerAssumption, Zenon
<1> QED
  BY <1>1

\* A transaction that was recorded is a typed record.
LEMMA RecordedTx ==
  ASSUME LedgerTypeOK, NEW t \in Txs, txs[t].status # "none"
  PROVE  txs[t] \in TxRecords
  BY DEF LedgerTypeOK, NoTx

LEMMA RegisteredNotice ==
  ASSUME LedgerTypeOK, NEW n \in Notices, Active(n)
  PROVE  notices[n] \in NoticeRecords
  BY DEF LedgerTypeOK, NoNotice, Active

LEMMA LiveTx ==
  ASSUME LedgerTypeOK, NEW t \in Txs, Live(t)
  PROVE  txs[t] \in TxRecords
  BY RecordedTx DEF Live

LEMMA InitTypes == LedgerInit => LedgerTypeOK
<1> SUFFICES ASSUME LedgerInit PROVE LedgerTypeOK
  OBVIOUS
<1>1. PICK v \in [Holdings -> MarkValues] :
        /\ value = v
        /\ cashRows = [d \in Dates |-> IF d = OpeningDate THEN v["cash"] ELSE -1]
        /\ log = << [type |-> "mark", tx |-> None, on |-> {"cash"},
                     date |-> OpeningDate, value |-> v["cash"]],
                    [type |-> "mark", tx |-> None, on |-> {"fund"},
                     date |-> OpeningDate, value |-> v["fund"]] >>
  BY DEF LedgerInit
<1>2. v["cash"] \in 0 .. MaxValue /\ v["fund"] \in 0 .. MaxValue
  BY LedgerAssumption DEF Holdings
<1>3. value \in [Holdings -> 0 .. MaxValue] /\ cashRows \in [Dates -> Int]
  BY <1>1, <1>2, LedgerAssumption DEF Holdings
<1>4. log \in Seq(Entries)
  BY <1>1, <1>2, LedgerAssumption DEF Entries, Holdings
<1> QED
  BY <1>3, <1>4, LedgerAssumption DEF LedgerInit, LedgerTypeOK, Holdings, NoNotice, NoTx

\* A posting keeps balances, dates, rows and the log typed.
LEMMA PostTypes ==
  ASSUME LedgerTypeOK, NEW t \in Txs, Live(t), NEW type \in {"settled", "reversed"},
         NEW date \in Dates, NEW sign \in {1, -1}, Post(t, type, date, sign)
  PROVE  /\ value' \in [Holdings -> 0 .. MaxValue]
         /\ dated' \in [Holdings -> Dates]
         /\ cashRows' \in [Dates -> Int]
         /\ log' \in Seq(Entries)
         /\ txs' \in [Txs -> TxRecords \cup {NoTx}]
<1>1. txs[t] \in TxRecords
  BY LiveTx
<1>2. PostsTo(txs[t]) \subseteq Holdings /\ "cash" \in PostsTo(txs[t])
  BY DEF PostsTo, Holdings
<1>3. value' \in [Holdings -> 0 .. MaxValue]
  <2>1. \A h \in PostsTo(txs[t]) : value[h] + sign * Delta(txs[t], h) \in 0 .. MaxValue
    BY DEF Post, MayPost
  <2>2. value' = [h \in Holdings |->
           IF h \in PostsTo(txs[t]) THEN value[h] + sign * Delta(txs[t], h) ELSE value[h]]
    BY DEF Post
  <2> QED
    BY <2>1, <2>2 DEF LedgerTypeOK
<1>4. dated' \in [Holdings -> Dates]
  BY DEF Post, LedgerTypeOK, Holdings
<1>5. cashRows' \in [Dates -> Int]
  <2>1. CashDelta(txs[t]) \in Int
    <3>1. txs[t].amount \in Amounts
      BY <1>1 DEF TxRecords
    <3>2. txs[t].amount \in Int
      BY <3>1, AmountsAreNumbers
    <3> QED
      BY <3>2 DEF CashDelta
  <2>2. value["cash"] \in Int
    BY LedgerAssumption DEF LedgerTypeOK, Holdings
  <2>3. value["cash"] + sign * CashDelta(txs[t]) \in Int
    BY <2>1, <2>2
  <2> QED
    BY <2>3 DEF Post, LedgerTypeOK
<1>6. log' \in Seq(Entries)
  <2>1. [type |-> type, tx |-> t, on |-> PostsTo(txs[t]), date |-> date, value |-> 0]
          \in Entries
    BY <1>2 DEF Entries
  <2> QED
    BY <2>1 DEF Post, LedgerTypeOK
<1>7. txs' \in [Txs -> TxRecords \cup {NoTx}]
  <2>1. [txs[t] EXCEPT !.status = type] \in TxRecords
    BY <1>1 DEF TxRecords
  <2>2. txs' = [txs EXCEPT ![t] = [txs[t] EXCEPT !.status = type]]
    BY DEF Post
  <2> QED
    BY <2>1, <2>2 DEF LedgerTypeOK
<1> QED
  BY <1>3, <1>4, <1>5, <1>6, <1>7

LEMMA NoticeTypes ==
  ASSUME LedgerTypeOK, NEW n \in Notices, NoticeStep(n)
  PROVE  LedgerTypeOK'
<1>1. ASSUME NEW kind \in Kinds \cap NoticeKinds, NEW terms \in Terms,
             AcceptNotice(n, kind, terms) \/ RegisterLegacyNotice(n, kind, terms)
      PROVE  LedgerTypeOK'
  <2>1. [state |-> "active", kind |-> kind, terms |-> terms, revision |-> 0]
          \in NoticeRecords
    BY DEF NoticeRecords
  <2>2. notices' \in [Notices -> NoticeRecords \cup {NoNotice}]
    BY <1>1, <2>1 DEF AcceptNotice, RegisterLegacyNotice, PutNotice, LedgerTypeOK
  <2>3. accepted' \subseteq NoticeKeys
    BY <1>1 DEF AcceptNotice, RegisterLegacyNotice, NoticeKeys, LedgerTypeOK
  <2> QED
    BY <1>1, <2>2, <2>3
       DEF AcceptNotice, RegisterLegacyNotice, LedgerTypeOK, balanceVars
<1>2. ASSUME NEW terms \in Terms, AmendObligation(n, terms)
      PROVE  LedgerTypeOK'
  <2>1. notices[n] \in NoticeRecords
    BY <1>2, RegisteredNotice DEF AmendObligation, Unallocated
  <2>2. [notices[n] EXCEPT !.terms = terms, !.revision = @ + 1] \in NoticeRecords
    <3>1. notices[n].revision + 1 \in Nat
      BY <2>1 DEF NoticeRecords
    <3> QED
      BY <2>1, <3>1 DEF NoticeRecords
  <2>3. notices' \in [Notices -> NoticeRecords \cup {NoNotice}]
    BY <1>2, <2>2 DEF AmendObligation, LedgerTypeOK
  <2> QED
    BY <1>2, <2>3 DEF AmendObligation, LedgerTypeOK, balanceVars
<1>3. ASSUME CancelObligation(n)
      PROVE  LedgerTypeOK'
  <2>1. notices[n] \in NoticeRecords
    BY <1>3, RegisteredNotice DEF CancelObligation, Unallocated
  <2>2. [notices[n] EXCEPT !.state = "cancelled"] \in NoticeRecords
    BY <2>1 DEF NoticeRecords
  <2>3. notices' \in [Notices -> NoticeRecords \cup {NoNotice}]
    BY <1>3, <2>2 DEF CancelObligation, LedgerTypeOK
  <2> QED
    BY <1>3, <2>3 DEF CancelObligation, LedgerTypeOK, balanceVars
<1>4. ASSUME NEW m \in Notices, ConfirmDistinct(n, m)
      PROVE  LedgerTypeOK'
  <2>1. notices[n] \in NoticeRecords /\ notices[m] \in NoticeRecords
    BY <1>4, RegisteredNotice DEF ConfirmDistinct, Related
  <2>2. <<n, m, notices[n].revision, notices[m].revision>> \in Attestations
    BY <2>1 DEF Attestations, NoticeRecords
  <2> QED
    BY <1>4, <2>2 DEF ConfirmDistinct, LedgerTypeOK, balanceVars
<1> QED
  BY <1>1, <1>2, <1>3, <1>4 DEF NoticeStep

LEMMA TxTypes ==
  ASSUME LedgerTypeOK, NEW t \in Txs, TxStep(t)
  PROVE  LedgerTypeOK'
<1>1. ASSUME NEW kind \in Kinds, NEW amount \in Amounts, NEW moved \in Amounts \cup {0},
             NEW due \in Dates, NEW n \in Notices \cup {None},
             RecordTransaction(t, kind, amount, moved, due, n)
      PROVE  LedgerTypeOK'
  <2>1. [status |-> "reviewed", kind |-> kind, amount |-> amount, moved |-> moved,
         due |-> due, notice |-> n, linked |-> FALSE] \in TxRecords
    BY LedgerAssumption DEF TxRecords
  <2>2. txs' \in [Txs -> TxRecords \cup {NoTx}]
    BY <1>1, <2>1 DEF RecordTransaction, LedgerTypeOK
  <2> QED
    BY <1>1, <2>2 DEF RecordTransaction, LedgerTypeOK, noticeVars, balanceVars
<1>2. ASSUME NEW n \in Notices, LinkTransaction(t, n)
      PROVE  LedgerTypeOK'
  <2>1. txs[t] \in TxRecords
    BY <1>2, LiveTx DEF LinkTransaction
  <2>2. [txs[t] EXCEPT !.notice = n, !.linked = TRUE] \in TxRecords
    BY <2>1 DEF TxRecords
  <2>3. txs' \in [Txs -> TxRecords \cup {NoTx}]
    BY <1>2, <2>2 DEF LinkTransaction, LedgerTypeOK
  <2> QED
    BY <1>2, <2>3 DEF LinkTransaction, LedgerTypeOK, noticeVars, balanceVars
<1>3. ASSUME NEW date \in Dates, SettleTransaction(t, date)
      PROVE  LedgerTypeOK'
  BY <1>3, PostTypes DEF SettleTransaction, Live, LedgerTypeOK, noticeVars
<1>4. ASSUME NEW date \in Dates, ReverseTransaction(t, date)
      PROVE  LedgerTypeOK'
  BY <1>4, PostTypes DEF ReverseTransaction, Live, LedgerTypeOK, noticeVars
<1>5. ASSUME VoidTransaction(t)
      PROVE  LedgerTypeOK'
  <2>1. txs[t] \in TxRecords
    BY <1>5, RecordedTx DEF VoidTransaction
  <2>2. [txs[t] EXCEPT !.status = "voided"] \in TxRecords
    BY <2>1 DEF TxRecords
  <2>3. txs' \in [Txs -> TxRecords \cup {NoTx}]
    BY <1>5, <2>2 DEF VoidTransaction, LedgerTypeOK
  <2> QED
    BY <1>5, <2>3 DEF VoidTransaction, LedgerTypeOK, noticeVars, balanceVars
<1> QED
  BY <1>1, <1>2, <1>3, <1>4, <1>5 DEF TxStep

LEMMA MarkTypes ==
  ASSUME LedgerTypeOK, NEW h \in Holdings, NEW date \in Dates, NEW v \in MarkValues,
         RecordValuation(h, date, v)
  PROVE  LedgerTypeOK'
<1>1. v \in 0 .. MaxValue /\ v \in Int
  BY LedgerAssumption
<1>2. value' \in [Holdings -> 0 .. MaxValue] /\ dated' \in [Holdings -> Dates]
  BY <1>1 DEF RecordValuation, LedgerTypeOK
<1>3. cashRows' \in [Dates -> Int]
  BY <1>1 DEF RecordValuation, LedgerTypeOK
<1>4. log' \in Seq(Entries)
  <2>1. [type |-> "mark", tx |-> None, on |-> {h}, date |-> date, value |-> v] \in Entries
    BY <1>1 DEF Entries
  <2> QED
    BY <2>1 DEF RecordValuation, LedgerTypeOK
<1> QED
  BY <1>2, <1>3, <1>4 DEF RecordValuation, LedgerTypeOK, noticeVars

LEMMA PeriodTypes ==
  ASSUME LedgerTypeOK, NEW to \in Dates, ReconcilePeriod(to)
  PROVE  LedgerTypeOK'
<1>1. value["cash"] \in Int /\ Len(log) \in Nat
  BY LedgerAssumption DEF LedgerTypeOK, Holdings
<1>2. [to |-> to, closing |-> value["cash"], seen |-> Len(log)] \in Periods
  BY <1>1 DEF Periods
<1> QED
  BY <1>2 DEF ReconcilePeriod, LedgerTypeOK, noticeVars, balanceVars

LEMMA StepTypes == LedgerTypeOK /\ [LedgerNext]_ledgerVars => LedgerTypeOK'
<1> SUFFICES ASSUME LedgerTypeOK, [LedgerNext]_ledgerVars PROVE LedgerTypeOK'
  OBVIOUS
<1>1. CASE UNCHANGED ledgerVars
  BY <1>1 DEF ledgerVars, LedgerTypeOK
<1> QED
  BY <1>1, NoticeTypes, TxTypes, MarkTypes, PeriodTypes DEF LedgerNext

\* The variables of the ledger keep their types: balances stay within the bounds that
\* applyPostings checks, whatever is posted, reversed and marked.
THEOREM LedgerTypes == LedgerSpec => []LedgerTypeOK
  BY InitTypes, StepTypes, PTL DEF LedgerSpec

-----------------------------------------------------------------------------
(* Notices and their payments.                                             *)

\* A step in which transactions only leave the live ones, and notices stay, keeps what is
\* said of both.
LEMMA FewerLive ==
  ASSUME NoticesInv, UNCHANGED <<notices, distinct>>,
         \A t \in Txs : Live(t)' =>
           /\ Live(t)
           /\ txs'[t].notice = txs[t].notice /\ txs'[t].linked = txs[t].linked
           /\ txs'[t].kind = txs[t].kind /\ txs'[t].due = txs[t].due
  PROVE  NoticesInv'
<1>1. AllocationsMatch'
  BY DEF NoticesInv, AllocationsMatch, Active, Matches, TermsOf
<1>2. \A n \in Notices : Allocations(n)' \subseteq Allocations(n)
  BY DEF Allocations
<1>3. \A n, m \in Notices : Related(n, m)' => Related(n, m)
  BY DEF Related, Active, Attested, TermsOf
<1>4. SimilarNoticesPayOnce'
  BY <1>2, <1>3 DEF NoticesInv, SimilarNoticesPayOnce
<1>5. PreparedHasNoTwin'
  BY DEF NoticesInv, PreparedHasNoTwin, UnlinkedMatches, Matches, TermsOf
<1> QED
  BY <1>1, <1>4, <1>5 DEF NoticesInv

\* A step in which only notices without live transactions change, and attestations are only
\* added, keeps it too.
LEMMA IdleNoticesChange ==
  ASSUME LedgerTypeOK, NoticesInv, txs' = txs, distinct \subseteq distinct',
         \A n \in Notices : notices'[n] = notices[n] \/ Allocations(n) = {}
  PROVE  NoticesInv'
<1>1. \A n : Allocations(n)' = Allocations(n)
  BY DEF Allocations, Live
<1>2. \A t \in Txs : Live(t)' <=> Live(t)
  BY DEF Live
<1>3. ASSUME NEW t \in Txs, Live(t), txs[t].notice # None
      PROVE  notices'[txs[t].notice] = notices[txs[t].notice]
  <2>1. txs[t].notice \in Notices
    BY <1>3, LiveTx DEF TxRecords
  <2>2. t \in Allocations(txs[t].notice)
    BY <1>3 DEF Allocations
  <2> QED
    BY <2>1, <2>2
<1>4. AllocationsMatch'
  BY <1>2, <1>3 DEF NoticesInv, AllocationsMatch, Active, Matches, TermsOf
<1>5. SimilarNoticesPayOnce'
  <2> SUFFICES ASSUME NEW n \in Notices, NEW m \in Notices, Related(n, m)',
                      Allocations(n) # {}, Allocations(m) # {}
               PROVE  FALSE
    BY <1>1 DEF SimilarNoticesPayOnce
  <2>1. notices'[n] = notices[n] /\ notices'[m] = notices[m]
    OBVIOUS
  <2>2. Related(n, m)
    BY <2>1 DEF Related, Active, Attested, TermsOf
  <2> QED
    BY <2>2 DEF NoticesInv, SimilarNoticesPayOnce
<1>6. PreparedHasNoTwin'
  BY <1>2, <1>3 DEF NoticesInv, PreparedHasNoTwin, UnlinkedMatches, Live, Matches, TermsOf
<1> QED
  BY <1>4, <1>5, <1>6 DEF NoticesInv

LEMMA RelatedBothWays ==
  ASSUME NEW n \in Notices, NEW m \in Notices, Related(n, m)
  PROVE  Related(m, n)
  BY DEF Related, Attested, Similar

\* Reserving a complete notice: no other notice is like it.
LEMMA AllocateTo ==
  ASSUME LedgerTypeOK, NoticesInv, NEW t \in Txs, NEW n \in Notices,
         UNCHANGED <<notices, distinct>>, Complete(n), Active(n),
         txs'[t].notice = n, Matches(n, t)',
         ~Live(t) \/ txs[t].notice = None,
         \A u \in Txs : u # t => txs'[u] = txs[u],
         Live(t)' => txs'[t].linked \/ UnlinkedMatches(n) = {}
  PROVE  NoticesInv'
<1>1. \A u \in Txs : u # t => (Live(u)' <=> Live(u))
  BY DEF Live
<1>2. AllocationsMatch'
  BY <1>1 DEF NoticesInv, AllocationsMatch, Active, Matches, TermsOf
<1>3. SimilarNoticesPayOnce'
  <2> SUFFICES ASSUME NEW i \in Notices, NEW m \in Notices, Related(i, m)'
               PROVE  Allocations(i)' = {} \/ Allocations(m)' = {}
    BY DEF SimilarNoticesPayOnce
  <2>1. Related(i, m) /\ Related(m, i)
    BY RelatedBothWays DEF Related, Active, Attested, TermsOf
  <2>2. i # n /\ m # n
    BY <2>1 DEF Complete
  <2>3. ASSUME NEW k \in Notices, k # n
        PROVE  Allocations(k)' \subseteq Allocations(k)
    BY <1>1, <2>3 DEF Allocations
  <2> QED
    BY <2>1, <2>2, <2>3 DEF NoticesInv, SimilarNoticesPayOnce
<1>4. PreparedHasNoTwin'
  <2> SUFFICES ASSUME NEW u \in Txs,
                      (Live(u) /\ txs[u].notice # None /\ ~txs[u].linked)'
               PROVE  (UnlinkedMatches(txs[u].notice) = {})'
    BY DEF PreparedHasNoTwin
  <2>1. PICK k : k = txs'[u].notice
    OBVIOUS
  <2>2. UnlinkedMatches(k) = {}
    <3>1. CASE u = t
      BY <2>1, <3>1
    <3>2. CASE u # t
      BY <1>1, <2>1, <3>2 DEF NoticesInv, PreparedHasNoTwin
    <3> QED
      BY <3>1, <3>2
  <2>3. n # None
    BY LedgerAssumption
  <2>4. UnlinkedMatches(k)' \subseteq UnlinkedMatches(k)
    BY <1>1, <2>3 DEF UnlinkedMatches, Matches, TermsOf
  <2> QED
    BY <2>1, <2>2, <2>4 DEF UnlinkedMatches, Matches, TermsOf
<1> QED
  BY <1>2, <1>3, <1>4 DEF NoticesInv

LEMMA RecordKeepsNotices ==
  ASSUME LedgerTypeOK, NoticesInv, NEW t \in Txs, NEW kind \in Kinds, NEW amount \in Amounts,
         NEW moved \in Amounts \cup {0}, NEW due \in Dates, NEW n \in Notices \cup {None},
         RecordTransaction(t, kind, amount, moved, due, n)
  PROVE  NoticesInv'
<1>1. /\ UNCHANGED <<notices, distinct>>
      /\ ~Live(t)
      /\ \A u \in Txs : u # t => txs'[u] = txs[u]
  BY DEF RecordTransaction, noticeVars, LedgerTypeOK, Live, NoTx
<1>2. txs'[t] = [status |-> "reviewed", kind |-> kind, amount |-> amount, moved |-> moved,
                 due |-> due, notice |-> n, linked |-> FALSE]
  BY DEF RecordTransaction, LedgerTypeOK
<1>3. CASE n # None
  <2>1. Active(n) /\ Complete(n) /\ UnlinkedMatches(n) = {}
    BY <1>3 DEF RecordTransaction, MayAllocate
  <2>2. Matches(n, t)'
    BY <1>1, <1>2, <1>3 DEF RecordTransaction, MayAllocate, Matches, TermsOf
  <2> QED
    BY <1>1, <1>2, <1>3, <2>1, <2>2, AllocateTo
<1>4. CASE n = None
  <2>1. NoNoticeAsks(kind, due)
    BY <1>4 DEF RecordTransaction
  <2>2. \A u \in Txs : u # t => (Live(u)' <=> Live(u))
    BY <1>1 DEF Live
  <2>3. txs'[t].notice = None
    BY <1>2, <1>4
  <2>4. AllocationsMatch'
    BY <1>1, <2>2, <2>3 DEF NoticesInv, AllocationsMatch, Active, Matches, TermsOf
  <2>5. ASSUME NEW k \in Notices
        PROVE  Allocations(k)' \subseteq Allocations(k)
    <3>1. k # None
      BY LedgerAssumption
    <3> QED
      BY <1>1, <2>2, <2>3, <3>1 DEF Allocations
  <2>6. SimilarNoticesPayOnce'
    <3>1. \A i, m \in Notices : Related(i, m)' => Related(i, m)
      BY <1>1 DEF Related, Active, Attested, TermsOf
    <3> QED
      BY <2>5, <3>1 DEF NoticesInv, SimilarNoticesPayOnce
  <2>7. PreparedHasNoTwin'
    <3> SUFFICES ASSUME NEW u \in Txs,
                        (Live(u) /\ txs[u].notice # None /\ ~txs[u].linked)'
                 PROVE  (UnlinkedMatches(txs[u].notice) = {})'
      BY DEF PreparedHasNoTwin
    <3>1. u # t /\ txs'[u] = txs[u] /\ Live(u)
      BY <1>1, <2>2, <2>3
    <3>2. PICK k : k = txs[u].notice
      OBVIOUS
    <3>3. UnlinkedMatches(k) = {} /\ Active(k)
      BY <3>1, <3>2 DEF NoticesInv, PreparedHasNoTwin, AllocationsMatch
    <3>4. k \in Notices
      BY <3>1, <3>2, LiveTx DEF TxRecords
    <3>5. ~Matches(k, t)'
      BY <1>1, <1>2, <2>1, <3>3, <3>4 DEF NoNoticeAsks, Matches, TermsOf
    <3>6. UnlinkedMatches(k)' \subseteq UnlinkedMatches(k)
      BY <1>1, <2>2, <3>5 DEF UnlinkedMatches, Matches, TermsOf
    <3> QED
      BY <3>1, <3>2, <3>3, <3>6 DEF UnlinkedMatches, Matches, TermsOf
  <2> QED
    BY <2>4, <2>6, <2>7 DEF NoticesInv
<1> QED
  BY <1>3, <1>4

LEMMA TxKeepsNotices ==
  ASSUME LedgerTypeOK, NoticesInv, NEW t \in Txs, TxStep(t)
  PROVE  NoticesInv'
<1>1. ASSUME NEW n \in Notices, LinkTransaction(t, n)
      PROVE  NoticesInv'
  <2>1. /\ UNCHANGED <<notices, distinct>>
        /\ txs[t].notice = None
        /\ \A u \in Txs : u # t => txs'[u] = txs[u]
    BY <1>1 DEF LinkTransaction, noticeVars, LedgerTypeOK
  <2>2. txs[t] \in TxRecords
    BY <1>1, LiveTx DEF LinkTransaction
  <2>3. /\ txs'[t].notice = n /\ txs'[t].linked
        /\ txs'[t].kind = txs[t].kind /\ txs'[t].due = txs[t].due
    BY <1>1, <2>2 DEF LinkTransaction, LedgerTypeOK, TxRecords
  <2>4. Active(n) /\ Complete(n)
    BY <1>1 DEF LinkTransaction, MayAllocate
  <2>5. Matches(n, t)'
    BY <1>1, <2>1, <2>3 DEF LinkTransaction, MayAllocate, Matches, TermsOf
  <2> QED
    BY <2>1, <2>3, <2>4, <2>5, AllocateTo
<1>2. ASSUME NEW status \in {"settled", "reversed", "voided"}, Live(t),
             UNCHANGED noticeVars, txs' = [txs EXCEPT ![t].status = status]
      PROVE  NoticesInv'
  <2>1. txs[t] \in TxRecords
    BY <1>2, LiveTx
  <2>2. /\ \A u \in Txs : u # t => txs'[u] = txs[u]
        /\ txs'[t].notice = txs[t].notice /\ txs'[t].linked = txs[t].linked
        /\ txs'[t].kind = txs[t].kind /\ txs'[t].due = txs[t].due
    BY <1>2, <2>1 DEF LedgerTypeOK, TxRecords
  <2>3. \A u \in Txs : Live(u)' => Live(u)
    BY <1>2, <2>2 DEF Live
  <2> QED
    BY <1>2, <2>2, <2>3, FewerLive DEF noticeVars
<1>3. ASSUME NEW date \in Dates, SettleTransaction(t, date) \/ ReverseTransaction(t, date)
      PROVE  NoticesInv'
  BY <1>2, <1>3 DEF SettleTransaction, ReverseTransaction, Post, Live
<1>4. ASSUME VoidTransaction(t)
      PROVE  NoticesInv'
  BY <1>2, <1>4 DEF VoidTransaction, Live
<1> QED
  BY <1>1, <1>3, <1>4, RecordKeepsNotices DEF TxStep

\* Only notices without live transactions change.
LEMMA NoticeStepIdle ==
  ASSUME LedgerTypeOK, NoticesInv, NEW n \in Notices, NoticeStep(n)
  PROVE  /\ txs' = txs /\ distinct \subseteq distinct'
         /\ \A m \in Notices : notices'[m] = notices[m] \/ Allocations(m) = {}
<1>1. ASSUME notices[n] = NoNotice
      PROVE  Allocations(n) = {}
  <2>1. ~Active(n) /\ n # None
    BY <1>1, LedgerAssumption DEF Active, NoNotice
  <2> QED
    BY <2>1 DEF NoticesInv, AllocationsMatch, Allocations
<1>2. CASE \E kind \in NoticeKinds, terms \in Terms :
             AcceptNotice(n, kind, terms) \/ RegisterLegacyNotice(n, kind, terms)
  BY <1>1, <1>2 DEF AcceptNotice, RegisterLegacyNotice, PutNotice, LedgerTypeOK
<1>3. CASE (\E terms \in Terms : AmendObligation(n, terms)) \/ CancelObligation(n)
  BY <1>3 DEF AmendObligation, CancelObligation, Unallocated, LedgerTypeOK
<1>4. CASE \E m \in Notices : ConfirmDistinct(n, m)
  BY <1>4 DEF ConfirmDistinct
<1> QED
  BY <1>2, <1>3, <1>4 DEF NoticeStep

LEMMA NoticeKeepsNotices ==
  ASSUME LedgerTypeOK, NoticesInv, NEW n \in Notices, NoticeStep(n)
  PROVE  NoticesInv'
  BY NoticeStepIdle, IdleNoticesChange

LEMMA StepNotices == LedgerTypeOK /\ NoticesInv /\ [LedgerNext]_ledgerVars => NoticesInv'
<1> SUFFICES ASSUME LedgerTypeOK, NoticesInv, [LedgerNext]_ledgerVars PROVE NoticesInv'
  OBVIOUS
<1>1. CASE UNCHANGED ledgerVars
  BY <1>1, IdleNoticesChange DEF ledgerVars
<1>2. ASSUME NEW h \in Holdings, NEW date \in Dates, NEW v \in MarkValues,
             RecordValuation(h, date, v)
      PROVE  NoticesInv'
  BY <1>2, IdleNoticesChange DEF RecordValuation, noticeVars
<1>3. ASSUME NEW to \in Dates, ReconcilePeriod(to)
      PROVE  NoticesInv'
  BY <1>3, IdleNoticesChange DEF ReconcilePeriod, noticeVars
<1> QED
  BY <1>1, <1>2, <1>3, NoticeKeepsNotices, TxKeepsNotices DEF LedgerNext

LEMMA InitNotices == LedgerInit => NoticesInv
<1> SUFFICES ASSUME LedgerInit PROVE NoticesInv
  OBVIOUS
<1>1. \A t \in Txs : ~Live(t)
  BY DEF LedgerInit, Live, NoTx
<1> QED
  BY <1>1 DEF NoticesInv, AllocationsMatch, SimilarNoticesPayOnce, PreparedHasNoTwin,
              Allocations

\* No payment is live twice, for any number of notices, amendments and attestations: two
\* similar notices never both carry live transactions, and a transaction prepared from its
\* notice has no live twin without one (lib/ledger.ts, validateObligationAllocation).
THEOREM SinglePayments == LedgerSpec => []PaidOnce
<1>1. LedgerInit => LedgerTypeOK /\ NoticesInv
  BY InitTypes, InitNotices
<1>2. (LedgerTypeOK /\ NoticesInv) /\ [LedgerNext]_ledgerVars => (LedgerTypeOK /\ NoticesInv)'
  BY StepTypes, StepNotices
<1>3. NoticesInv => PaidOnce
  BY DEF NoticesInv, PaidOnce
<1> QED
  BY <1>1, <1>2, <1>3, PTL DEF LedgerSpec

-----------------------------------------------------------------------------
(* Reconciled periods.                                                     *)

\* What the end of a period shows.
ShowsClosing(p) ==
  \E d \in Dates :
    /\ d <= p.to
    /\ cashRows[d] = p.closing
    /\ \A e \in Dates : (d < e /\ e <= p.to) => cashRows[e] = -1

\* A row written together with an entry of the log is either outside a period, or the
\* period no longer counts as covered.
LEMMA RowWritten ==
  ASSUME LedgerTypeOK, PeriodsSeen, CoverageHolds, coverage' = coverage,
         NEW entry \in Entries, log' = Append(log, entry),
         \A d \in Dates : cashRows'[d] = cashRows[d] \/ ("cash" \in entry.on /\ d = entry.date)
  PROVE  PeriodsSeen' /\ CoverageHolds'
<1>1. /\ log \in Seq(Entries) /\ Len(log) \in Nat /\ Len(log') = Len(log) + 1
      /\ DOMAIN log = 1 .. Len(log) /\ DOMAIN log' = 1 .. Len(log) + 1
      /\ log'[Len(log) + 1] = entry
      /\ \A i \in DOMAIN log : log'[i] = log[i]
  BY DEF LedgerTypeOK
<1>2. \A p \in coverage : p.seen \in Nat /\ p.to \in Nat
  BY LedgerAssumption DEF LedgerTypeOK, Periods
<1>3. \A d \in Dates : d \in Nat
  BY LedgerAssumption
<1>4. PeriodsSeen'
  BY <1>1, <1>2 DEF PeriodsSeen
<1>5. ASSUME NEW p \in coverage, CoverageCurrent(p)'
      PROVE  ShowsClosing(p)'
  <2>1. CoverageCurrent(p)
    BY <1>1, <1>5 DEF CoverageCurrent
  <2>2. ~("cash" \in entry.on /\ entry.date <= p.to)
    <3>1. Len(log) + 1 > p.seen
      BY <1>1, <1>2 DEF PeriodsSeen
    <3> QED
      BY <1>1, <1>5, <3>1 DEF CoverageCurrent
  <2>3. \A d \in Dates : d <= p.to => cashRows'[d] = cashRows[d]
    BY <2>2
  <2>4. ShowsClosing(p)
    BY <2>1 DEF CoverageHolds, ShowsClosing
  <2> QED
    BY <2>3, <2>4 DEF ShowsClosing
<1> QED
  BY <1>4, <1>5 DEF CoverageHolds, ShowsClosing

LEMMA PostKeepsCoverage ==
  ASSUME LedgerTypeOK, CoverageInv, coverage' = coverage, NEW t \in Txs, Live(t),
         NEW type \in {"settled", "reversed"}, NEW date \in Dates, NEW sign \in {1, -1},
         Post(t, type, date, sign)
  PROVE  CoverageInv'
<1>1. "cash" \in PostsTo(txs[t]) /\ PostsTo(txs[t]) \subseteq Holdings
  BY DEF PostsTo, Holdings
<1>2. date >= dated["cash"]
  BY <1>1 DEF Post, MayPost
<1>3. \A d \in Dates : d \in Nat
  BY LedgerAssumption
<1>4. dated["cash"] \in Nat /\ dated'["cash"] = date
  BY <1>3 DEF Post, LedgerTypeOK, Holdings
<1>5. value'["cash"] = value["cash"] + sign * CashDelta(txs[t])
  BY <1>1 DEF Post, Delta, Holdings
<1>6. cashRows' = [cashRows EXCEPT ![date] = value["cash"] + sign * CashDelta(txs[t])]
  BY DEF Post
<1>7. LatestRow'
  <2>1. cashRows'[dated'["cash"]] = value'["cash"]
    BY <1>4, <1>5, <1>6 DEF LedgerTypeOK
  <2>2. ASSUME NEW d \in Dates, d > dated'["cash"]
        PROVE  cashRows'[d] = -1
    <3>1. d # date /\ d > dated["cash"]
      BY <1>2, <1>3, <1>4, <2>2
    <3> QED
      BY <1>6, <3>1 DEF CoverageInv, LatestRow, LedgerTypeOK
  <2> QED
    BY <2>1, <2>2 DEF LatestRow
<1>8. PeriodsSeen' /\ CoverageHolds'
  <2>1. PICK entry : entry = [type |-> type, tx |-> t, on |-> PostsTo(txs[t]),
                              date |-> date, value |-> 0]
    OBVIOUS
  <2>2. entry \in Entries /\ entry.on = PostsTo(txs[t]) /\ entry.date = date
    BY <1>1, <2>1 DEF Entries
  <2>3. log' = Append(log, entry)
    BY <2>1 DEF Post
  <2>4. \A d \in Dates : cashRows'[d] = cashRows[d] \/ ("cash" \in entry.on /\ d = entry.date)
    BY <1>1, <1>6, <2>2 DEF LedgerTypeOK
  <2> QED
    BY <2>2, <2>3, <2>4, RowWritten DEF CoverageInv
<1> QED
  BY <1>7, <1>8 DEF CoverageInv

LEMMA MarkKeepsCoverage ==
  ASSUME LedgerTypeOK, CoverageInv, NEW h \in Holdings, NEW date \in Dates, NEW v \in MarkValues,
         RecordValuation(h, date, v)
  PROVE  CoverageInv'
<1>1. \A d \in Dates : d \in Nat
  BY LedgerAssumption
<1>2. dated["cash"] \in Nat
  BY <1>1 DEF LedgerTypeOK, Holdings
<1>3. LatestRow'
  <2>1. CASE h # "cash"
    BY <2>1 DEF RecordValuation, CoverageInv, LatestRow, LedgerTypeOK, Holdings
  <2>2. CASE h = "cash" /\ date >= dated["cash"]
    <3>1. value'["cash"] = v /\ dated'["cash"] = date /\ cashRows' = [cashRows EXCEPT ![date] = v]
      BY <2>2 DEF RecordValuation, LedgerTypeOK, Holdings
    <3>2. ASSUME NEW d \in Dates, d > date
          PROVE  cashRows'[d] = -1
      <4>1. d # date /\ d > dated["cash"]
        BY <1>1, <1>2, <2>2, <3>2
      <4> QED
        BY <3>1, <4>1 DEF CoverageInv, LatestRow, LedgerTypeOK
    <3> QED
      BY <3>1, <3>2 DEF LatestRow, LedgerTypeOK
  <2>3. CASE h = "cash" /\ ~(date >= dated["cash"])
    <3>1. UNCHANGED <<value, dated>> /\ cashRows' = [cashRows EXCEPT ![date] = v]
      BY <2>3 DEF RecordValuation
    <3>2. \A d \in Dates : d >= dated["cash"] => cashRows'[d] = cashRows[d]
      BY <1>1, <1>2, <2>3, <3>1 DEF LedgerTypeOK
    <3>3. dated["cash"] \in Dates /\ dated["cash"] >= dated["cash"]
      BY <1>2 DEF LedgerTypeOK, Holdings
    <3>4. \A d \in Dates : d > dated["cash"] => d >= dated["cash"]
      BY <1>1, <1>2
    <3> QED
      BY <3>1, <3>2, <3>3, <3>4 DEF CoverageInv, LatestRow
  <2> QED
    BY <2>1, <2>2, <2>3
<1>4. PeriodsSeen' /\ CoverageHolds'
  <2>1. PICK entry : entry = [type |-> "mark", tx |-> None, on |-> {h}, date |-> date,
                              value |-> v]
    OBVIOUS
  <2>2. v \in Int
    BY LedgerAssumption
  <2>3. entry \in Entries /\ entry.on = {h} /\ entry.date = date
    BY <2>1, <2>2 DEF Entries
  <2>4. log' = Append(log, entry) /\ coverage' = coverage
    BY <2>1 DEF RecordValuation
  <2>5. \A d \in Dates : cashRows'[d] = cashRows[d] \/ ("cash" \in entry.on /\ d = entry.date)
    BY <2>3 DEF RecordValuation, LedgerTypeOK
  <2> QED
    BY <2>3, <2>4, <2>5, RowWritten DEF CoverageInv
<1> QED
  BY <1>3, <1>4 DEF CoverageInv

LEMMA ReconcileKeepsCoverage ==
  ASSUME LedgerTypeOK, CoverageInv, NEW to \in Dates, ReconcilePeriod(to)
  PROVE  CoverageInv'
<1>1. UNCHANGED <<log, value, dated, cashRows>>
  BY DEF ReconcilePeriod, balanceVars
<1>2. PICK q : q = [to |-> to, closing |-> value["cash"], seen |-> Len(log)]
  OBVIOUS
<1>3. coverage' = coverage \cup {q} /\ q.to = to /\ q.closing = value["cash"] /\ q.seen = Len(log)
  BY <1>2 DEF ReconcilePeriod
<1>4. ShowsClosing(q)
  <2>1. dated["cash"] \in Dates /\ dated["cash"] <= to
    BY DEF ReconcilePeriod, LedgerTypeOK, Holdings
  <2>2. \A e \in Dates : dated["cash"] < e => cashRows[e] = -1
    BY <2>1, LedgerAssumption DEF CoverageInv, LatestRow
  <2> QED
    BY <1>3, <2>1, <2>2 DEF ShowsClosing, CoverageInv, LatestRow
<1>5. PeriodsSeen'
  <2>1. Len(log) \in Nat
    BY DEF LedgerTypeOK
  <2> QED
    BY <1>1, <1>3, <2>1 DEF CoverageInv, PeriodsSeen
<1>6. ASSUME NEW p \in coverage', CoverageCurrent(p)'
      PROVE  ShowsClosing(p)'
  <2>1. CoverageCurrent(p)
    BY <1>1, <1>6 DEF CoverageCurrent
  <2>2. ShowsClosing(p)
    BY <1>3, <1>4, <1>6, <2>1 DEF CoverageInv, CoverageHolds, ShowsClosing
  <2> QED
    BY <1>1, <2>2 DEF ShowsClosing
<1> QED
  BY <1>1, <1>5, <1>6 DEF CoverageInv, LatestRow, CoverageHolds, ShowsClosing

LEMMA StepCoverage == LedgerTypeOK /\ CoverageInv /\ [LedgerNext]_ledgerVars => CoverageInv'
<1> SUFFICES ASSUME LedgerTypeOK, CoverageInv, [LedgerNext]_ledgerVars PROVE CoverageInv'
  OBVIOUS
<1>1. ASSUME UNCHANGED <<log, value, dated, cashRows, coverage>>
      PROVE  CoverageInv'
  BY <1>1 DEF CoverageInv, LatestRow, PeriodsSeen, CoverageHolds, CoverageCurrent
<1>2. ASSUME NEW n \in Notices, NoticeStep(n)
      PROVE  CoverageInv'
  BY <1>1, <1>2 DEF NoticeStep, AcceptNotice, RegisterLegacyNotice, AmendObligation,
                    CancelObligation, ConfirmDistinct, balanceVars
<1>3. ASSUME NEW t \in Txs, NEW date \in Dates,
             SettleTransaction(t, date) \/ ReverseTransaction(t, date)
      PROVE  CoverageInv'
  BY <1>3, PostKeepsCoverage DEF SettleTransaction, ReverseTransaction, Live
<1>4. ASSUME NEW t \in Txs, TxStep(t)
      PROVE  CoverageInv'
  BY <1>1, <1>3, <1>4 DEF TxStep, RecordTransaction, LinkTransaction, VoidTransaction,
                          balanceVars
<1> QED
  BY <1>1, <1>2, <1>4, MarkKeepsCoverage, ReconcileKeepsCoverage DEF LedgerNext, ledgerVars

LEMMA InitCoverage == LedgerInit => CoverageInv
<1> SUFFICES ASSUME LedgerInit PROVE CoverageInv
  OBVIOUS
<1>1. PICK v \in [Holdings -> MarkValues] :
        /\ value = v
        /\ cashRows = [d \in Dates |-> IF d = OpeningDate THEN v["cash"] ELSE -1]
  BY DEF LedgerInit
<1>2. dated["cash"] = OpeningDate
  BY DEF LedgerInit, Holdings
<1>3. LatestRow
  BY <1>1, <1>2, LedgerAssumption DEF LatestRow
<1> QED
  BY <1>3 DEF LedgerInit, CoverageInv, PeriodsSeen, CoverageHolds

\* While a reconciled period counts as covered, the history shows at its end the balance of
\* the statement, whatever was posted and marked since, for any dates and number of periods.
THEOREM CoveredPeriods == LedgerSpec => []CoverageHolds
<1>1. LedgerInit => LedgerTypeOK /\ CoverageInv
  BY InitTypes, InitCoverage
<1>2. (LedgerTypeOK /\ CoverageInv) /\ [LedgerNext]_ledgerVars => (LedgerTypeOK /\ CoverageInv)'
  BY StepTypes, StepCoverage
<1>3. CoverageInv => CoverageHolds
  BY DEF CoverageInv
<1> QED
  BY <1>1, <1>2, <1>3, PTL DEF LedgerSpec

-----------------------------------------------------------------------------
(* Sums over finite sets.                                                  *)

First(s) == CHOOSE x \in s : TRUE

\* The recursion that sums are defined by.
SumsUp(g, f, S) ==
  g = [s \in SUBSET S |-> IF s = {} THEN 0 ELSE f[First(s)] + g[s \ {First(s)}]]

LEMMA FirstIsIn == ASSUME NEW s, s # {} PROVE First(s) \in s
  BY DEF First

\* A sum is what the recursion makes of it, when there is a function that satisfies it.
LEMMA SumUnfolds ==
  ASSUME NEW f, NEW S, NEW h, SumsUp(h, f, S)
  PROVE  \E g : SumsUp(g, f, S) /\ SumFunctionOnSet(f, S) = g[S]
<1> DEFINE g == CHOOSE g : SumsUp(g, f, S)
<1>1. SumsUp(g, f, S)
  BY Zenon
<1>2. SumFunctionOnSet(f, S) = g[S]
  BY DEF SumFunctionOnSet, FoldFunctionOnSet, MapThenFoldSet, SumsUp, First
<1> QED
  BY <1>1, <1>2

LEMMA SumIsUnique ==
  ASSUME NEW f, NEW S, IsFiniteSet(S), NEW g, NEW h, SumsUp(g, f, S), SumsUp(h, f, S)
  PROVE  \A s \in SUBSET S : g[s] = h[s]
<1> DEFINE T == {s \in SUBSET S : g[s] # h[s]}
<1> SUFFICES ASSUME T # {} PROVE FALSE
  OBVIOUS
<1>0. T \in SUBSET (SUBSET S)
  OBVIOUS
<1> HIDE DEF T
<1>1. PICK s \in T : \A y \in T : y \subseteq s => y = s
  BY <1>0, Minimal
<1>2. s \in SUBSET S /\ g[s] # h[s]
  BY DEF T
<1>3. \A y \in SUBSET S : y \subseteq s /\ y # s => g[y] = h[y]
  BY <1>1 DEF T
<1>4. /\ g[s] = IF s = {} THEN 0 ELSE f[First(s)] + g[s \ {First(s)}]
      /\ h[s] = IF s = {} THEN 0 ELSE f[First(s)] + h[s \ {First(s)}]
  BY <1>2 DEF SumsUp
<1>5. s # {} => g[s \ {First(s)}] = h[s \ {First(s)}]
  BY <1>2, <1>3, FirstIsIn
<1> QED
  BY <1>2, <1>4, <1>5

\* What the sum over a finite set is.
LEMMA SumOf ==
  ASSUME NEW f, NEW S, IsFiniteSet(S)
  PROVE  \A s \in SUBSET S : SumFunctionOnSet(f, s) =
           IF s = {} THEN 0 ELSE f[First(s)] + SumFunctionOnSet(f, s \ {First(s)})
<1> DEFINE SumHolds(s) == SumFunctionOnSet(f, s) =
             IF s = {} THEN 0 ELSE f[First(s)] + SumFunctionOnSet(f, s \ {First(s)})
           T == {s \in SUBSET S : ~SumHolds(s)}
<1> SUFFICES ASSUME T # {} PROVE FALSE
  OBVIOUS
<1> HIDE DEF SumHolds
<1>0. T \in SUBSET (SUBSET S)
  OBVIOUS
<1> HIDE DEF T
<1>1. PICK s \in T : \A y \in T : y \subseteq s => y = s
  BY <1>0, Minimal
<1>2. s \in SUBSET S /\ ~SumHolds(s) /\ IsFiniteSet(s)
  BY FS_Subset DEF T
<1>3. \A y \in SUBSET s : y # s => SumHolds(y)
  BY <1>1, <1>2 DEF T
<1> DEFINE h == [u \in SUBSET s |->
                   IF u = s THEN IF s = {} THEN 0
                                 ELSE f[First(s)] + SumFunctionOnSet(f, s \ {First(s)})
                   ELSE SumFunctionOnSet(f, u)]
<1>4. \A u \in SUBSET s : h[u] = IF u = {} THEN 0 ELSE f[First(u)] + h[u \ {First(u)}]
  <2> SUFFICES ASSUME NEW u \in SUBSET s
               PROVE  h[u] = IF u = {} THEN 0 ELSE f[First(u)] + h[u \ {First(u)}]
    OBVIOUS
  <2>1. u # {} => u \ {First(u)} \in SUBSET s /\ u \ {First(u)} # s
    BY FirstIsIn
  <2>2. u # {} => h[u \ {First(u)}] = SumFunctionOnSet(f, u \ {First(u)})
    BY <2>1
  <2>3. CASE u = s
    BY <2>2, <2>3
  <2>4. CASE u # s
    <3>1. h[u] = SumFunctionOnSet(f, u) /\ SumHolds(u)
      BY <1>3, <2>4
    <3> QED
      BY <2>2, <3>1 DEF SumHolds
  <2> QED
    BY <2>3, <2>4
<1>5. h[s] = IF s = {} THEN 0 ELSE f[First(s)] + SumFunctionOnSet(f, s \ {First(s)})
  OBVIOUS
<1>6. SumsUp(h, f, s)
  <2>1. h = [u \in SUBSET s |-> h[u]]
    OBVIOUS
  <2> HIDE DEF h
  <2> QED
    BY <1>4, <2>1 DEF SumsUp
<1> HIDE DEF h
<1>7. PICK g : SumsUp(g, f, s) /\ SumFunctionOnSet(f, s) = g[s]
  BY <1>6, SumUnfolds
<1>8. g[s] = h[s]
  BY <1>2, <1>6, <1>7, SumIsUnique
<1> QED
  BY <1>2, <1>5, <1>7, <1>8 DEF SumHolds

\* Any member of the set may be taken first.
LEMMA SumWith ==
  ASSUME NEW f, NEW S, IsFiniteSet(S), \A x \in S : f[x] \in Int
  PROVE  /\ SumFunctionOnSet(f, S) \in Int
         /\ \A x \in S : SumFunctionOnSet(f, S) = f[x] + SumFunctionOnSet(f, S \ {x})
<1> DEFINE SumHolds(s) == /\ SumFunctionOnSet(f, s) \in Int
                          /\ \A x \in s : SumFunctionOnSet(f, s) =
                                           f[x] + SumFunctionOnSet(f, s \ {x})
           T == {s \in SUBSET S : ~SumHolds(s)}
<1> SUFFICES ASSUME T # {} PROVE FALSE
  OBVIOUS
<1> HIDE DEF SumHolds
<1>0. T \in SUBSET (SUBSET S)
  OBVIOUS
<1> HIDE DEF T
<1>1. PICK s \in T : \A y \in T : y \subseteq s => y = s
  BY <1>0, Minimal
<1>2. s \in SUBSET S /\ ~SumHolds(s)
  BY DEF T
<1>3. \A y \in SUBSET s : y # s => SumHolds(y)
  BY <1>1, <1>2 DEF T
<1>4. SumFunctionOnSet(f, s) =
        IF s = {} THEN 0 ELSE f[First(s)] + SumFunctionOnSet(f, s \ {First(s)})
  BY <1>2, SumOf
<1>5. CASE s = {}
  BY <1>2, <1>4, <1>5 DEF SumHolds
<1>6. CASE s # {}
  <2> DEFINE c == First(s)
  <2>1. c \in s
    BY <1>6, FirstIsIn
  <2> HIDE DEF c
  <2>2. SumHolds(s \ {c}) /\ SumFunctionOnSet(f, s) = f[c] + SumFunctionOnSet(f, s \ {c})
    BY <1>3, <1>4, <1>6, <2>1 DEF c
  <2>3. SumFunctionOnSet(f, s) \in Int
    BY <1>2, <2>1, <2>2 DEF SumHolds
  <2>4. ASSUME NEW x \in s PROVE SumFunctionOnSet(f, s) = f[x] + SumFunctionOnSet(f, s \ {x})
    <3>1. CASE x = c
      BY <2>2, <3>1
    <3>2. CASE x # c
      <4>1. SumHolds(s \ {x}) /\ x \in s \ {c} /\ c \in s \ {x}
        BY <1>3, <2>1, <3>2
      <4>2. SumFunctionOnSet(f, s \ {c}) = f[x] + SumFunctionOnSet(f, (s \ {c}) \ {x})
        BY <2>2, <4>1 DEF SumHolds
      <4>3. SumFunctionOnSet(f, s \ {x}) = f[c] + SumFunctionOnSet(f, (s \ {x}) \ {c})
        BY <4>1 DEF SumHolds
      <4>4. (s \ {c}) \ {x} = (s \ {x}) \ {c}
        OBVIOUS
      <4>5. SumHolds((s \ {x}) \ {c})
        <5>1. (s \ {x}) \ {c} \in SUBSET s /\ (s \ {x}) \ {c} # s
          BY <2>1
        <5> QED
          BY <1>3, <5>1
      <4>6. SumFunctionOnSet(f, (s \ {x}) \ {c}) \in Int /\ f[x] \in Int /\ f[c] \in Int
        BY <1>2, <2>1, <4>5 DEF SumHolds
      <4>7. SumFunctionOnSet(f, s) = f[c] + (f[x] + SumFunctionOnSet(f, (s \ {x}) \ {c}))
        BY <2>2, <4>2, <4>4
      <4>8. \A a, b, m \in Int : a + (b + m) = b + (a + m)
        OBVIOUS
      <4> QED
        BY <4>3, <4>6, <4>7, <4>8
    <3> QED
      BY <3>1, <3>2
  <2> QED
    BY <1>2, <2>3, <2>4 DEF SumHolds
<1> QED
  BY <1>5, <1>6

\* Sums depend on the values at the members only.
LEMMA SumSame ==
  ASSUME NEW f, NEW g, NEW S, IsFiniteSet(S), \A x \in S : f[x] = g[x]
  PROVE  SumFunctionOnSet(f, S) = SumFunctionOnSet(g, S)
<1> DEFINE T == {s \in SUBSET S : SumFunctionOnSet(f, s) # SumFunctionOnSet(g, s)}
<1> SUFFICES ASSUME T # {} PROVE FALSE
  OBVIOUS
<1>0. T \in SUBSET (SUBSET S)
  OBVIOUS
<1> HIDE DEF T
<1>1. PICK s \in T : \A y \in T : y \subseteq s => y = s
  BY <1>0, Minimal
<1>2. s \in SUBSET S /\ SumFunctionOnSet(f, s) # SumFunctionOnSet(g, s)
  BY DEF T
<1>3. /\ SumFunctionOnSet(f, s) =
           IF s = {} THEN 0 ELSE f[First(s)] + SumFunctionOnSet(f, s \ {First(s)})
      /\ SumFunctionOnSet(g, s) =
           IF s = {} THEN 0 ELSE g[First(s)] + SumFunctionOnSet(g, s \ {First(s)})
  BY <1>2, SumOf
<1>4. s # {} => /\ f[First(s)] = g[First(s)]
                /\ SumFunctionOnSet(f, s \ {First(s)}) = SumFunctionOnSet(g, s \ {First(s)})
  BY <1>1, <1>2, FirstIsIn DEF T
<1> QED
  BY <1>2, <1>3, <1>4

LEMMA EmptySum == ASSUME NEW f, DOMAIN f = {} PROVE SumFunction(f) = 0
<1>1. SumFunctionOnSet(f, {}) = 0
  BY SumOf, FS_EmptySet
<1> QED
  BY <1>1 DEF SumFunction

LEMMA EqualSums ==
  ASSUME NEW f, NEW g, IsFiniteSet(DOMAIN f), DOMAIN g = DOMAIN f,
         \A x \in DOMAIN f : f[x] = g[x]
  PROVE  SumFunction(f) = SumFunction(g)
  BY SumSame DEF SumFunction

\* One summand more.
LEMMA SumAndOne ==
  ASSUME NEW f, NEW g, NEW x, IsFiniteSet(DOMAIN g), \A y \in DOMAIN g : g[y] \in Int,
         x \in DOMAIN g, DOMAIN f = DOMAIN g \ {x}, \A y \in DOMAIN f : f[y] = g[y]
  PROVE  SumFunction(g) = g[x] + SumFunction(f) /\ SumFunction(f) \in Int
<1>1. IsFiniteSet(DOMAIN f)
  BY FS_Subset
<1>2. SumFunction(g) = g[x] + SumFunctionOnSet(g, DOMAIN f)
  BY SumWith DEF SumFunction
<1>3. SumFunctionOnSet(g, DOMAIN f) = SumFunction(f)
  BY <1>1, SumSame DEF SumFunction
<1>4. SumFunction(f) \in Int
  BY <1>1, SumWith DEF SumFunction
<1> QED
  BY <1>2, <1>3, <1>4

-----------------------------------------------------------------------------
(* What notices reserve.                                                   *)

LEMMA AllocationsSum ==
  ASSUME LedgerTypeOK, NEW n
  PROVE  /\ IsFiniteSet(Allocations(n))
         /\ \A t \in Allocations(n) : txs[t].amount \in Int /\ txs[t].amount > 0
<1>1. IsFiniteSet(Allocations(n))
  BY LedgerAssumption, FS_Subset DEF Allocations
<1>2. ASSUME NEW t \in Allocations(n) PROVE txs[t].amount \in Int /\ txs[t].amount > 0
  <2>1. txs[t].amount \in Amounts
    BY <1>2, LiveTx DEF Allocations, TxRecords
  <2> QED
    BY <2>1, AmountsAreNumbers
<1> QED
  BY <1>1, <1>2

\* A step that leaves the allocations of a notice alone leaves their sum alone.
LEMMA AllocatedKept ==
  ASSUME LedgerTypeOK, NEW n, Allocations(n)' = Allocations(n),
         \A t \in Allocations(n) : txs'[t].amount = txs[t].amount
  PROVE  Allocated(n)' = Allocated(n)
<1> DEFINE f == [t \in Allocations(n) |-> txs[t].amount]
           g == [t \in Allocations(n)' |-> txs'[t].amount]
<1>1. f = g
  OBVIOUS
<1> QED
  BY <1>1 DEF Allocated

\* A transaction that is no longer live, or that joins the allocations of a notice, changes
\* what the notice reserves by its amount.
LEMMA AllocatedChanges ==
  ASSUME LedgerTypeOK, LedgerTypeOK', NEW n, NEW t \in Txs, \A u \in Txs \ {t} : txs'[u] = txs[u]
  PROVE  /\ t \in Allocations(n) /\ t \notin Allocations(n)' =>
              Allocated(n) = txs[t].amount + Allocated(n)' /\ Allocated(n)' \in Int
         /\ t \notin Allocations(n) /\ t \in Allocations(n)' =>
              Allocated(n)' = txs'[t].amount + Allocated(n) /\ Allocated(n) \in Int
<1> DEFINE f == [u \in Allocations(n) |-> txs[u].amount]
           g == [u \in Allocations(n)' |-> txs'[u].amount]
<1>1. Allocated(n) = SumFunction(f) /\ Allocated(n)' = SumFunction(g)
  BY DEF Allocated
<1>2. \A u \in Txs \ {t} : u \in Allocations(n)' <=> u \in Allocations(n)
  BY DEF Allocations, Live
<1>3. Allocations(n) \subseteq Txs /\ Allocations(n)' \subseteq Txs
  BY DEF Allocations
<1>4. /\ IsFiniteSet(Allocations(n)) /\ \A u \in Allocations(n) : txs[u].amount \in Int
      /\ IsFiniteSet(Allocations(n)') /\ \A u \in Allocations(n)' : txs'[u].amount \in Int
  <2>1. IsFiniteSet(Allocations(n)')
    BY <1>3, LedgerAssumption, FS_Subset
  <2>2. ASSUME NEW u \in Allocations(n)' PROVE txs'[u].amount \in Int
    <3>1. txs'[u] \in TxRecords
      BY <2>2 DEF Allocations, Live, LedgerTypeOK, NoTx
    <3>2. txs'[u].amount \in Amounts
      BY <3>1 DEF TxRecords
    <3> QED
      BY <3>2, AmountsAreNumbers
  <2> QED
    BY <2>1, <2>2, AllocationsSum
<1>5. /\ DOMAIN f = Allocations(n) /\ \A u \in Allocations(n) : f[u] = txs[u].amount
      /\ DOMAIN g = Allocations(n)' /\ \A u \in Allocations(n)' : g[u] = txs'[u].amount
  OBVIOUS
<1> HIDE DEF f, g
<1>6. CASE t \in Allocations(n) /\ t \notin Allocations(n)'
  <2>1. Allocations(n)' = Allocations(n) \ {t}
    BY <1>2, <1>3, <1>6
  <2>2. \A u \in DOMAIN g : g[u] = f[u]
    BY <1>3, <1>5, <2>1
  <2>3. SumFunction(f) = f[t] + SumFunction(g) /\ SumFunction(g) \in Int
    BY <1>4, <1>5, <1>6, <2>1, <2>2, SumAndOne
  <2> QED
    BY <1>1, <1>5, <1>6, <2>3
<1>7. CASE t \notin Allocations(n) /\ t \in Allocations(n)'
  <2>1. Allocations(n) = Allocations(n)' \ {t}
    BY <1>2, <1>3, <1>7
  <2>2. \A u \in DOMAIN f : f[u] = g[u]
    BY <1>3, <1>5, <2>1
  <2>3. SumFunction(g) = g[t] + SumFunction(f) /\ SumFunction(f) \in Int
    BY <1>4, <1>5, <1>7, <2>1, <2>2, SumAndOne
  <2> QED
    BY <1>1, <1>5, <1>7, <2>3
<1> QED
  BY <1>6, <1>7

\* Notices change only where nothing is reserved.
LEMMA IdleNoticesReserve ==
  ASSUME LedgerTypeOK, LedgerTypeOK', NoticesNotOverpaid, txs' = txs,
         \A n \in Notices : notices'[n] = notices[n] \/ Allocations(n) = {}
  PROVE  NoticesNotOverpaid'
<1> SUFFICES ASSUME NEW n \in Notices, Active(n)'
             PROVE  (Allocated(n) <= TermsOf(n).amount)'
  BY DEF NoticesNotOverpaid
<1>1. Allocations(n)' = Allocations(n) /\ Allocated(n)' = Allocated(n)
  BY AllocatedKept DEF Allocations, Live
<1>2. CASE notices'[n] = notices[n]
  BY <1>1, <1>2 DEF NoticesNotOverpaid, Active, TermsOf
<1>3. CASE Allocations(n) = {}
  <2>1. Allocated(n) = 0
    BY <1>3, EmptySum DEF Allocated
  <2>2. notices'[n] \in NoticeRecords
    BY DEF LedgerTypeOK, NoNotice, Active
  <2>3. TermsOf(n)'.amount \in Nat
    BY <2>2, LedgerAssumption DEF NoticeRecords, TermsOf
  <2> QED
    BY <1>1, <2>1, <2>3 DEF TermsOf
<1> QED
  BY <1>2, <1>3

\* A transaction that takes up a notice was examined against what is reserved already; any
\* other change of one transaction reserves nothing more.
LEMMA OneTxReserves ==
  ASSUME LedgerTypeOK, LedgerTypeOK', NoticesNotOverpaid, notices' = notices, NEW t \in Txs,
         \A u \in Txs \ {t} : txs'[u] = txs[u],
         \A n \in Notices : t \in Allocations(n)' =>
           \/ t \in Allocations(n) /\ txs'[t].amount = txs[t].amount
           \/ t \notin Allocations(n) /\ Allocated(n) + txs'[t].amount <= TermsOf(n).amount
  PROVE  NoticesNotOverpaid'
<1> SUFFICES ASSUME NEW n \in Notices, Active(n)
             PROVE  Allocated(n)' <= TermsOf(n).amount
  BY DEF NoticesNotOverpaid, Active, TermsOf
<1>1. Allocated(n) <= TermsOf(n).amount
  BY DEF NoticesNotOverpaid
<1>2. \A u \in Txs \ {t} : u \in Allocations(n)' <=> u \in Allocations(n)
  BY DEF Allocations, Live
<1>3. TermsOf(n).amount \in Nat
  BY RegisteredNotice, LedgerAssumption DEF NoticeRecords, TermsOf
<1>4. CASE t \in Allocations(n) <=> t \in Allocations(n)'
  <2>1. Allocations(n)' = Allocations(n)
    BY <1>2, <1>4 DEF Allocations
  <2>2. \A u \in Allocations(n) : txs'[u].amount = txs[u].amount
    BY <1>4 DEF Allocations
  <2> QED
    BY <1>1, <2>1, <2>2, AllocatedKept
<1>5. CASE t \in Allocations(n) /\ t \notin Allocations(n)'
  <2>1. Allocated(n) = txs[t].amount + Allocated(n)' /\ Allocated(n)' \in Int
    BY <1>5, AllocatedChanges
  <2>2. txs[t].amount \in Int /\ txs[t].amount > 0
    BY <1>5, AllocationsSum
  <2> QED
    BY <1>1, <1>3, <2>1, <2>2
<1>6. CASE t \notin Allocations(n) /\ t \in Allocations(n)'
  <2>1. Allocated(n)' = txs'[t].amount + Allocated(n) /\ Allocated(n) \in Int
    BY <1>6, AllocatedChanges
  <2>2. Allocated(n) + txs'[t].amount <= TermsOf(n).amount
    BY <1>6
  <2>3. txs'[t].amount \in Int
    <3>1. txs'[t] \in TxRecords
      BY <1>6 DEF Allocations, Live, LedgerTypeOK, NoTx
    <3>2. txs'[t].amount \in Amounts
      BY <3>1 DEF TxRecords
    <3> QED
      BY <3>2, AmountsAreNumbers
  <2> QED
    BY <1>3, <2>1, <2>2, <2>3
<1> QED
  BY <1>4, <1>5, <1>6

LEMMA TxReserves ==
  ASSUME LedgerTypeOK, LedgerTypeOK', NoticesNotOverpaid, NEW t \in Txs, TxStep(t)
  PROVE  NoticesNotOverpaid'
<1>1. ASSUME NEW kind \in Kinds, NEW amount \in Amounts, NEW moved \in Amounts \cup {0},
             NEW due \in Dates, NEW n \in Notices \cup {None},
             RecordTransaction(t, kind, amount, moved, due, n)
      PROVE  NoticesNotOverpaid'
  <2>1. /\ notices' = notices /\ ~Live(t)
        /\ \A u \in Txs \ {t} : txs'[u] = txs[u]
        /\ txs'[t].notice = n /\ txs'[t].amount = amount
    BY <1>1 DEF RecordTransaction, noticeVars, LedgerTypeOK, Live, NoTx
  <2>2. n # None => Allocated(n) + amount <= TermsOf(n).amount
    BY <1>1 DEF RecordTransaction, MayAllocate
  <2>3. \A m \in Notices : t \in Allocations(m)' => m = n /\ m # None
    BY <2>1, LedgerAssumption DEF Allocations
  <2>4. \A m : t \notin Allocations(m)
    BY <2>1 DEF Allocations
  <2> QED
    BY <2>1, <2>2, <2>3, <2>4, OneTxReserves
<1>2. ASSUME NEW n \in Notices, LinkTransaction(t, n)
      PROVE  NoticesNotOverpaid'
  <2>1. txs[t] \in TxRecords
    BY <1>2, LiveTx DEF LinkTransaction
  <2>2. /\ notices' = notices /\ txs[t].notice = None
        /\ \A u \in Txs \ {t} : txs'[u] = txs[u]
        /\ txs'[t].notice = n /\ txs'[t].amount = txs[t].amount
    BY <1>2, <2>1 DEF LinkTransaction, noticeVars, LedgerTypeOK, TxRecords
  <2>3. Allocated(n) + txs[t].amount <= TermsOf(n).amount
    BY <1>2 DEF LinkTransaction, MayAllocate
  <2>4. \A m \in Notices : t \notin Allocations(m) /\ (t \in Allocations(m)' => m = n)
    BY <2>2, LedgerAssumption DEF Allocations
  <2> QED
    BY <2>2, <2>3, <2>4, OneTxReserves
<1>3. ASSUME NEW status \in {"settled", "reversed", "voided"}, Live(t),
             UNCHANGED noticeVars, txs' = [txs EXCEPT ![t].status = status]
      PROVE  NoticesNotOverpaid'
  <2>1. txs[t] \in TxRecords
    BY <1>3, LiveTx
  <2>2. /\ notices' = notices
        /\ \A u \in Txs \ {t} : txs'[u] = txs[u]
        /\ txs'[t].notice = txs[t].notice /\ txs'[t].amount = txs[t].amount
    BY <1>3, <2>1 DEF noticeVars, LedgerTypeOK, TxRecords
  <2>3. \A m : t \in Allocations(m)' => t \in Allocations(m)
    BY <1>3, <2>2 DEF Allocations
  <2> QED
    BY <2>2, <2>3, OneTxReserves
<1>4. ASSUME NEW date \in Dates, SettleTransaction(t, date) \/ ReverseTransaction(t, date)
      PROVE  NoticesNotOverpaid'
  BY <1>3, <1>4 DEF SettleTransaction, ReverseTransaction, Post, Live
<1>5. CASE VoidTransaction(t)
  BY <1>3, <1>5 DEF VoidTransaction, Live
<1> QED
  BY <1>1, <1>2, <1>4, <1>5 DEF TxStep

LEMMA StepReserves ==
  ASSUME LedgerTypeOK, NoticesInv, NoticesNotOverpaid, [LedgerNext]_ledgerVars
  PROVE  NoticesNotOverpaid'
<1>1. LedgerTypeOK'
  BY StepTypes
<1>2. CASE UNCHANGED <<notices, txs>>
  BY <1>1, <1>2, IdleNoticesReserve
<1>3. ASSUME NEW n \in Notices, NoticeStep(n) PROVE NoticesNotOverpaid'
  BY <1>1, <1>3, NoticeStepIdle, IdleNoticesReserve
<1>4. ASSUME NEW t \in Txs, TxStep(t) PROVE NoticesNotOverpaid'
  BY <1>1, <1>4, TxReserves
<1> QED
  BY <1>2, <1>3, <1>4 DEF LedgerNext, ledgerVars, RecordValuation, ReconcilePeriod, noticeVars

\* Live transactions never reserve or pay more than their notice reports, for any number of
\* transactions and any amounts (lib/ledger.ts, validateObligationAllocation).
THEOREM NoOverpayment == LedgerSpec => []NoticesNotOverpaid
<1>1. LedgerInit => LedgerTypeOK /\ NoticesInv /\ NoticesNotOverpaid
  <2>1. LedgerInit => NoticesNotOverpaid
    BY DEF LedgerInit, NoticesNotOverpaid, Active, NoNotice
  <2> QED
    BY <2>1, InitTypes, InitNotices
<1>2. (LedgerTypeOK /\ NoticesInv /\ NoticesNotOverpaid) /\ [LedgerNext]_ledgerVars
        => (LedgerTypeOK /\ NoticesInv /\ NoticesNotOverpaid)'
  BY StepTypes, StepNotices, StepReserves
<1> QED
  BY <1>1, <1>2, PTL DEF LedgerSpec
-----------------------------------------------------------------------------
(* The fund is its latest mark plus the capital settled since.             *)

LEMMA LogDates ==
  ASSUME LedgerTypeOK
  PROVE  /\ \A i \in DOMAIN log : log[i] \in Entries /\ log[i].date \in Nat
         /\ \A h \in Holdings : dated[h] \in Nat
         /\ \A d \in Dates : d \in Nat
         /\ \A i \in DOMAIN log : i \in Nat
         /\ "fund" \in Holdings
<1>1. \A d \in Dates : d \in Nat
  BY LedgerAssumption
<1>2. \A i \in DOMAIN log : log[i] \in Entries
  BY DEF LedgerTypeOK
<1>3. \A i \in DOMAIN log : log[i].date \in Dates
  BY <1>2 DEF Entries
<1>4. DOMAIN log = 1 .. Len(log) /\ Len(log) \in Nat
  BY DEF LedgerTypeOK
<1> QED
  BY <1>1, <1>2, <1>3, <1>4 DEF LedgerTypeOK, Holdings

LEMMA LatestDate ==
  ASSUME LedgerTypeOK, FundDated, NEW i, LatestMark(i)
  PROVE  i \in DOMAIN log /\ log[i].date = dated["fund"]
<1>1. PICK j \in FundMarks : log[j].date = dated["fund"]
  BY DEF FundDated
<1>2. i \in FundMarks /\ log[i].date <= dated["fund"] /\ log[j].date <= log[i].date
  BY <1>1, LogDates DEF FundDated, LatestMark, FundMarks
<1> QED
  BY <1>1, <1>2, LogDates DEF FundMarks

LEMMA MarkPlusCapitalHere ==
  ASSUME LedgerTypeOK, FundDated, MarkPlusCapital, NEW i, LatestMark(i)
  PROVE  value["fund"] = log[i].value + Capital(dated["fund"])
  BY LatestDate DEF MarkPlusCapital, LatestMark, Capital

LEMMA MarkPlusCapitalNext ==
  ASSUME NEW d,
         \A i : LatestMark(i)' =>
                  log'[i].date = d /\ value'["fund"] = log'[i].value + Capital(d)'
  PROVE  MarkPlusCapital'
<1> SUFFICES ASSUME NEW i \in FundMarks', LatestMark(i)'
             PROVE  (value["fund"] = log[i].value
                       + SumFunction([t \in SettledSince(log[i].date) |-> FundDelta(txs[t])]))'
  BY DEF MarkPlusCapital, LatestMark
<1> QED
  BY DEF Capital

LEMMA CapitalTypes ==
  ASSUME LedgerTypeOK, NEW d
  PROVE  /\ IsFiniteSet(SettledSince(d))
         /\ \A t \in Txs : Live(t) => FundDelta(txs[t]) \in Int
<1>1. IsFiniteSet(SettledSince(d))
  BY LedgerAssumption, FS_Subset DEF SettledSince
<1>2. ASSUME NEW t \in Txs, Live(t) PROVE FundDelta(txs[t]) \in Int
  <2>1. txs[t].moved \in Amounts \cup {0}
    BY <1>2, LiveTx DEF TxRecords
  <2>2. txs[t].moved \in Int
    BY <2>1, AmountsAreNumbers
  <2> QED
    BY <2>2 DEF FundDelta
<1> QED
  BY <1>1, <1>2

\* How the capital since a date moves with the transactions settled since then.
LEMMA CapitalChanges ==
  ASSUME LedgerTypeOK, LedgerTypeOK', NEW d,
         \A u \in SettledSince(d) \cup SettledSince(d)' : FundDelta(txs'[u]) = FundDelta(txs[u])
  PROVE  /\ SettledSince(d)' = SettledSince(d) => Capital(d)' = Capital(d)
         /\ \A t \in SettledSince(d) :
              SettledSince(d)' = SettledSince(d) \ {t} =>
                Capital(d) = FundDelta(txs[t]) + Capital(d)' /\ Capital(d)' \in Int
         /\ \A t \in SettledSince(d)' :
              SettledSince(d) = SettledSince(d)' \ {t} =>
                Capital(d)' = FundDelta(txs[t]) + Capital(d) /\ Capital(d) \in Int
<1> DEFINE f == [u \in SettledSince(d) |-> FundDelta(txs[u])]
           g == [u \in SettledSince(d)' |-> FundDelta(txs'[u])]
<1>1. Capital(d) = SumFunction(f) /\ Capital(d)' = SumFunction(g)
  BY DEF Capital
<1>2. /\ IsFiniteSet(SettledSince(d))
      /\ \A u \in SettledSince(d) : FundDelta(txs[u]) \in Int
  BY CapitalTypes DEF SettledSince, Live
<1>3. IsFiniteSet(SettledSince(d)')
  BY LedgerAssumption, FS_Subset DEF SettledSince
<1>4. \A u \in SettledSince(d)' : FundDelta(txs[u]) \in Int
  <2> SUFFICES ASSUME NEW u \in SettledSince(d)' PROVE FundDelta(txs'[u]) \in Int
    OBVIOUS
  <2>1. u \in Txs /\ txs'[u].status = "settled"
    BY DEF SettledSince
  <2>2. txs'[u].moved \in Amounts \cup {0}
    BY <2>1 DEF LedgerTypeOK, TxRecords, NoTx
  <2>3. txs'[u].moved \in Int
    BY <2>2, AmountsAreNumbers
  <2> QED
    BY <2>3 DEF FundDelta
<1>5. /\ DOMAIN f = SettledSince(d) /\ DOMAIN g = SettledSince(d)'
      /\ \A u \in SettledSince(d) : f[u] = FundDelta(txs[u])
      /\ \A u \in SettledSince(d)' : g[u] = FundDelta(txs[u])
  OBVIOUS
<1> HIDE DEF f, g
<1>6. SettledSince(d)' = SettledSince(d) => SumFunction(f) = SumFunction(g)
  BY <1>2, <1>5, EqualSums
<1>7. ASSUME NEW t \in SettledSince(d), SettledSince(d)' = SettledSince(d) \ {t}
      PROVE  SumFunction(f) = FundDelta(txs[t]) + SumFunction(g) /\ SumFunction(g) \in Int
  <2>1. \A u \in DOMAIN g : g[u] = f[u]
    BY <1>5, <1>7
  <2> QED
    BY <1>2, <1>5, <1>7, <2>1, SumAndOne
<1>8. ASSUME NEW t \in SettledSince(d)', SettledSince(d) = SettledSince(d)' \ {t}
      PROVE  SumFunction(g) = FundDelta(txs[t]) + SumFunction(f) /\ SumFunction(f) \in Int
  <2>1. \A u \in DOMAIN f : f[u] = g[u]
    BY <1>5, <1>8
  <2> QED
    BY <1>3, <1>4, <1>5, <1>8, <2>1, SumAndOne
<1> QED
  BY <1>1, <1>6, <1>7, <1>8

\* Steps that neither post nor mark.
LEMMA CapitalFrame ==
  ASSUME LedgerTypeOK, LedgerTypeOK', CapitalInv, UNCHANGED <<log, value, dated>>,
         \A t \in Txs :
           (\/ txs[t].status \in {"settled", "reversed"}
            \/ txs'[t].status \in {"settled", "reversed"}) =>
             /\ txs'[t].status = txs[t].status
             /\ txs'[t].kind = txs[t].kind /\ txs'[t].moved = txs[t].moved
  PROVE  CapitalInv'
<1>1. FundDated' /\ AfterMarks'
  BY DEF CapitalInv, FundDated, AfterMarks, FundMarks, IsMark
<1>2. SettledEntries'
  BY DEF CapitalInv, SettledEntries, PostsTo
<1>3. SettledLogged'
  BY DEF CapitalInv, SettledLogged, SettledAt
<1>4. \A d : SettledSince(d)' = SettledSince(d)
  BY DEF SettledSince, SettledAt
<1>5. \A d : \A u \in SettledSince(d) : FundDelta(txs'[u]) = FundDelta(txs[u])
  BY DEF SettledSince, FundDelta
<1>6. \A d : Capital(d)' = Capital(d)
  BY <1>4, <1>5, CapitalChanges
<1>7. MarkPlusCapital'
  <2>1. \A i : LatestMark(i)' => LatestMark(i)
    BY DEF LatestMark, FundMarks, IsMark
  <2>2. \A i : LatestMark(i) =>
          log[i].date = dated["fund"] /\ value["fund"] = log[i].value + Capital(dated["fund"])
    BY LatestDate, MarkPlusCapitalHere DEF CapitalInv
  <2>3. PICK d : d = dated["fund"]
    OBVIOUS
  <2>4. \A i : LatestMark(i)' =>
          log'[i].date = d /\ value'["fund"] = log'[i].value + Capital(d)'
    BY <1>6, <2>1, <2>2, <2>3
  <2> QED
    BY <2>4, MarkPlusCapitalNext
<1> QED
  BY <1>1, <1>2, <1>3, <1>7 DEF CapitalInv

\* What an entry that is no mark of the fund leaves as it was.
LEMMA EntryAdded ==
  ASSUME LedgerTypeOK, NEW e \in Entries, log' = Append(log, e)
  PROVE  /\ DOMAIN log' = DOMAIN log \cup {Len(log) + 1}
         /\ Len(log) + 1 \notin DOMAIN log /\ Len(log) + 1 \in Nat
         /\ \A i \in DOMAIN log : log'[i] = log[i] /\ i < Len(log) + 1
         /\ log'[Len(log) + 1] = e
         /\ ~(e.type = "mark" /\ "fund" \in e.on) =>
              /\ FundMarks' = FundMarks
              /\ \A i : LatestMark(i)' <=> LatestMark(i)
<1>1. Len(log) \in Nat /\ DOMAIN log = 1 .. Len(log) /\ DOMAIN log' = 1 .. (Len(log) + 1)
  BY DEF LedgerTypeOK
<1>2. /\ DOMAIN log' = DOMAIN log \cup {Len(log) + 1}
      /\ Len(log) + 1 \notin DOMAIN log /\ Len(log) + 1 \in Nat
      /\ \A i \in DOMAIN log : i < Len(log) + 1
  BY <1>1
<1>3. log'[Len(log) + 1] = e /\ \A i \in DOMAIN log : log'[i] = log[i]
  BY DEF LedgerTypeOK
<1>4. ASSUME ~(e.type = "mark" /\ "fund" \in e.on)
      PROVE  FundMarks' = FundMarks /\ \A i : LatestMark(i)' <=> LatestMark(i)
  <2>1. FundMarks' = FundMarks
    BY <1>2, <1>3, <1>4 DEF FundMarks, IsMark
  <2>2. \A i \in FundMarks : log'[i] = log[i]
    BY <1>3 DEF FundMarks
  <2> QED
    BY <2>1, <2>2 DEF LatestMark
<1> QED
  BY <1>2, <1>3, <1>4
\* What the entry of a posting leaves as it was, and what it adds.
LEMMA PostEntry ==
  ASSUME LedgerTypeOK, LedgerTypeOK', NEW t \in Txs, NEW type \in {"settled", "reversed"},
         NEW date \in Dates, NEW sign \in {1, -1}, Post(t, type, date, sign), Live(t)
  PROVE  /\ DOMAIN log' = DOMAIN log \cup {Len(log) + 1}
         /\ Len(log) + 1 \notin DOMAIN log
         /\ \A i \in DOMAIN log : log'[i] = log[i] /\ i < Len(log) + 1
         /\ log'[Len(log) + 1].type = type /\ log'[Len(log) + 1].tx = t
         /\ log'[Len(log) + 1].on = PostsTo(txs[t]) /\ log'[Len(log) + 1].date = date
         /\ FundMarks' = FundMarks
         /\ \A i : LatestMark(i)' <=> LatestMark(i)
         /\ dated'["fund"] = dated["fund"]
         /\ \A u \in Txs \ {t} : txs'[u] = txs[u]
         /\ txs'[t].status = type
         /\ \A u \in Txs : PostsTo(txs'[u]) = PostsTo(txs[u])
                           /\ FundDelta(txs'[u]) = FundDelta(txs[u])
<1>1. PICK e : e = [type |-> type, tx |-> t, on |-> PostsTo(txs[t]), date |-> date, value |-> 0]
  OBVIOUS
<1>2. /\ e \in Entries /\ e.type = type /\ e.tx = t /\ e.on = PostsTo(txs[t]) /\ e.date = date
      /\ log' = Append(log, e)
  BY <1>1 DEF Entries, PostsTo, Holdings, Post
<1>3. ~(e.type = "mark" /\ "fund" \in e.on)
  BY <1>2
<1>4. txs[t] \in TxRecords
  BY LiveTx
<1>5. /\ \A u \in Txs \ {t} : txs'[u] = txs[u]
      /\ txs'[t].status = type /\ txs'[t].kind = txs[t].kind /\ txs'[t].moved = txs[t].moved
  BY <1>4 DEF Post, LedgerTypeOK, TxRecords
<1>6. \A u \in Txs : PostsTo(txs'[u]) = PostsTo(txs[u])
                     /\ FundDelta(txs'[u]) = FundDelta(txs[u])
  BY <1>5 DEF PostsTo, FundDelta
<1>7. dated'["fund"] = dated["fund"]
  BY DEF Post, LedgerTypeOK, Holdings
<1> QED
  BY <1>2, <1>3, <1>5, <1>6, <1>7, EntryAdded

\* What a posting adds to the log keeps its shape.
LEMMA PostKeepsLog ==
  ASSUME LedgerTypeOK, LedgerTypeOK', CapitalInv,
         NEW t \in Txs, NEW type \in {"settled", "reversed"},
         NEW date \in Dates, NEW sign \in {1, -1}, Post(t, type, date, sign),
         txs[t].status = IF type = "settled" THEN "reviewed" ELSE "settled"
  PROVE  FundDated' /\ SettledEntries' /\ SettledLogged' /\ AfterMarks'
<1> DEFINE k == Len(log) + 1
<1>1. /\ DOMAIN log' = DOMAIN log \cup {k} /\ k \notin DOMAIN log
      /\ \A i \in DOMAIN log : log'[i] = log[i] /\ i < k
      /\ log'[k].type = type /\ log'[k].tx = t
      /\ log'[k].on = PostsTo(txs[t]) /\ log'[k].date = date
      /\ FundMarks' = FundMarks /\ dated'["fund"] = dated["fund"]
      /\ \A u \in Txs \ {t} : txs'[u] = txs[u]
      /\ txs'[t].status = type
      /\ \A u \in Txs : PostsTo(txs'[u]) = PostsTo(txs[u])
  BY PostEntry DEF Live
<1> HIDE DEF k
<1>2. FundDated'
  BY <1>1 DEF CapitalInv, FundDated, FundMarks
<1>3. SettledEntries'
  <2> SUFFICES ASSUME NEW i \in DOMAIN log', log'[i].type = "settled"
               PROVE  /\ log'[i].tx \in Txs
                      /\ txs'[log'[i].tx].status \in {"settled", "reversed"}
                      /\ log'[i].on = PostsTo(txs'[log'[i].tx])
    BY DEF SettledEntries
  <2>1. CASE i = k
    BY <1>1, <2>1
  <2>2. CASE i \in DOMAIN log
    <3>1. /\ log[i].tx \in Txs /\ txs[log[i].tx].status \in {"settled", "reversed"}
          /\ log[i].on = PostsTo(txs[log[i].tx]) /\ log'[i] = log[i]
      BY <1>1, <2>2 DEF CapitalInv, SettledEntries
    <3>2. txs'[log[i].tx].status \in {"settled", "reversed"}
      BY <1>1, <3>1
    <3> QED
      BY <1>1, <3>1, <3>2
  <2> QED
    BY <1>1, <2>1, <2>2
<1>4. SettledLogged'
  <2> SUFFICES ASSUME NEW u \in Txs, txs'[u].status = "settled"
               PROVE  \E i \in DOMAIN log' : SettledAt(i, u)'
    BY DEF SettledLogged
  <2>1. CASE u = t
    BY <1>1, <2>1 DEF SettledAt
  <2>2. CASE u # t
    <3>1. PICK i \in DOMAIN log : SettledAt(i, u)
      BY <1>1, <2>2 DEF CapitalInv, SettledLogged
    <3> QED
      BY <1>1, <3>1 DEF SettledAt
  <2> QED
    BY <2>1, <2>2
<1>5. AfterMarks'
  <2> SUFFICES ASSUME NEW i \in DOMAIN log', NEW j \in DOMAIN log', j < i, IsMark(j, "fund")',
                      log'[i].type = "settled", "fund" \in log'[i].on
               PROVE  log'[i].date >= log'[j].date
    BY DEF AfterMarks
  <2>1. j \in FundMarks /\ j \in DOMAIN log /\ IsMark(j, "fund") /\ log'[j] = log[j]
    <3>1. j \in FundMarks
      BY <1>1 DEF FundMarks
    <3> QED
      BY <1>1, <3>1 DEF FundMarks
  <2>2. CASE i = k
    <3>1. date >= dated["fund"] /\ log'[i].date = date
      BY <1>1, <2>2 DEF Post, MayPost
    <3>2. log[j].date <= dated["fund"]
      BY <2>1 DEF CapitalInv, FundDated
    <3> QED
      BY <2>1, <3>1, <3>2, LogDates
  <2>3. CASE i \in DOMAIN log
    BY <1>1, <2>1, <2>3 DEF CapitalInv, AfterMarks
  <2> QED
    BY <1>1, <2>2, <2>3
<1> QED
  BY <1>2, <1>3, <1>4, <1>5

\* A settlement moves the fund and the capital settled since its mark alike.
LEMMA SettleKeepsCapital ==
  ASSUME LedgerTypeOK, LedgerTypeOK', CapitalInv, NEW t \in Txs, NEW date \in Dates,
         SettleTransaction(t, date)
  PROVE  CapitalInv'
<1> DEFINE k == Len(log) + 1
<1>1. txs[t].status = "reviewed" /\ Post(t, "settled", date, 1)
  BY DEF SettleTransaction
<1>2. FundDated' /\ SettledEntries' /\ SettledLogged' /\ AfterMarks'
  BY <1>1, PostKeepsLog
<1>3. /\ DOMAIN log' = DOMAIN log \cup {k} /\ k \notin DOMAIN log
      /\ \A i \in DOMAIN log : log'[i] = log[i]
      /\ log'[k].type = "settled" /\ log'[k].tx = t
      /\ log'[k].on = PostsTo(txs[t]) /\ log'[k].date = date
      /\ \A i : LatestMark(i)' <=> LatestMark(i)
      /\ \A u \in Txs \ {t} : txs'[u] = txs[u]
      /\ txs'[t].status = "settled"
      /\ \A u \in Txs : FundDelta(txs'[u]) = FundDelta(txs[u])
  BY <1>1, PostEntry DEF Live
<1> HIDE DEF k
<1>4. PICK d : d = dated["fund"]
  OBVIOUS
<1>5. \A u \in Txs \ {t} : u \in SettledSince(d)' <=> u \in SettledSince(d)
  BY <1>3 DEF SettledSince, SettledAt
<1>6. t \notin SettledSince(d)
  BY <1>1 DEF SettledSince
<1>7. \A i \in DOMAIN log : ~SettledAt(i, t)
  BY <1>1 DEF CapitalInv, SettledEntries, SettledAt
<1>8. t \in SettledSince(d)' <=> "fund" \in PostsTo(txs[t])
  <2>1. "fund" \in PostsTo(txs[t]) => date >= d
    BY <1>1, <1>4 DEF Post, MayPost
  <2> QED
    BY <1>3, <1>7, <2>1 DEF SettledSince, SettledAt
<1>9. value'["fund"] = IF "fund" \in PostsTo(txs[t])
                       THEN value["fund"] + 1 * FundDelta(txs[t]) ELSE value["fund"]
  BY <1>1 DEF Post, Delta, Holdings
<1>10. \A u \in SettledSince(d) \cup SettledSince(d)' : FundDelta(txs'[u]) = FundDelta(txs[u])
  BY <1>3 DEF SettledSince
<1>11. SettledSince(d) \subseteq Txs /\ SettledSince(d)' \subseteq Txs
  BY DEF SettledSince
<1>12. FundDelta(txs[t]) \in Int
  BY <1>1, CapitalTypes DEF Live
<1>13. ASSUME NEW i, LatestMark(i)'
       PROVE  log'[i].date = d /\ value'["fund"] = log'[i].value + Capital(d)'
  <2>1. /\ LatestMark(i) /\ i \in DOMAIN log /\ log[i].date = d
        /\ value["fund"] = log[i].value + Capital(d) /\ log'[i] = log[i]
    BY <1>3, <1>4, <1>13, LatestDate, MarkPlusCapitalHere DEF CapitalInv
  <2>2. log[i].value \in Int
    BY <2>1, LogDates DEF Entries
  <2>3. CASE "fund" \in PostsTo(txs[t])
    <3>1. SettledSince(d) = SettledSince(d)' \ {t}
      BY <1>5, <1>6, <1>11
    <3>2. Capital(d)' = FundDelta(txs[t]) + Capital(d) /\ Capital(d) \in Int
      BY <1>8, <1>10, <2>3, <3>1, CapitalChanges
    <3> QED
      BY <1>9, <1>12, <2>1, <2>2, <2>3, <3>2
  <2>4. CASE "fund" \notin PostsTo(txs[t])
    <3>1. SettledSince(d)' = SettledSince(d)
      BY <1>5, <1>6, <1>8, <1>11, <2>4
    <3>2. Capital(d)' = Capital(d)
      BY <1>10, <3>1, CapitalChanges
    <3> QED
      BY <1>9, <2>1, <2>4, <3>2
  <2> QED
    BY <2>3, <2>4
<1> QED
  BY <1>2, <1>13, MarkPlusCapitalNext DEF CapitalInv

\* A reversal takes back what its settlement added: no mark lies between them.
LEMMA ReverseKeepsCapital ==
  ASSUME LedgerTypeOK, LedgerTypeOK', CapitalInv, NEW t \in Txs, NEW date \in Dates,
         ReverseTransaction(t, date)
  PROVE  CapitalInv'
<1> DEFINE k == Len(log) + 1
<1>1. txs[t].status = "settled" /\ Post(t, "reversed", date, -1)
  BY DEF ReverseTransaction
<1>2. FundDated' /\ SettledEntries' /\ SettledLogged' /\ AfterMarks'
  BY <1>1, PostKeepsLog
<1>3. /\ DOMAIN log' = DOMAIN log \cup {k} /\ k \notin DOMAIN log
      /\ \A i \in DOMAIN log : log'[i] = log[i]
      /\ log'[k].type = "reversed"
      /\ \A i : LatestMark(i)' <=> LatestMark(i)
      /\ \A u \in Txs \ {t} : txs'[u] = txs[u]
      /\ txs'[t].status = "reversed"
      /\ \A u \in Txs : FundDelta(txs'[u]) = FundDelta(txs[u])
  BY <1>1, PostEntry DEF Live
<1> HIDE DEF k
<1>4. PICK d : d = dated["fund"]
  OBVIOUS
<1>5. \A u \in Txs \ {t} : u \in SettledSince(d)' <=> u \in SettledSince(d)
  BY <1>3 DEF SettledSince, SettledAt
<1>6. t \notin SettledSince(d)'
  BY <1>3 DEF SettledSince
<1>7. t \in SettledSince(d) <=> "fund" \in PostsTo(txs[t])
  <2>1. ASSUME "fund" \in PostsTo(txs[t]) PROVE t \in SettledSince(d)
    <3>1. PICK i \in DOMAIN log : SettledAt(i, t)
      BY <1>1 DEF CapitalInv, SettledLogged
    <3>2. log[i].type = "settled" /\ "fund" \in log[i].on
      BY <2>1, <3>1 DEF CapitalInv, SettledEntries, SettledAt
    <3>3. PICK j \in FundMarks : log[j].date = d
      BY <1>4 DEF CapitalInv, FundDated
    <3>4. j \in DOMAIN log /\ IsMark(j, "fund") /\ j # i
      BY <3>2, <3>3 DEF FundMarks, IsMark
    <3>5. ~(j > i)
      BY <3>1, <3>2, <3>4 DEF ReverseTransaction
    <3>6. j < i
      BY <3>4, <3>5, LogDates
    <3>7. log[i].date >= d
      BY <3>2, <3>3, <3>4, <3>6 DEF CapitalInv, AfterMarks
    <3> QED
      BY <1>1, <3>1, <3>2, <3>7 DEF SettledSince
  <2>2. ASSUME t \in SettledSince(d) PROVE "fund" \in PostsTo(txs[t])
    BY <2>2 DEF SettledSince, SettledAt, CapitalInv, SettledEntries
  <2> QED
    BY <2>1, <2>2
<1>8. value'["fund"] = IF "fund" \in PostsTo(txs[t])
                       THEN value["fund"] + (-1) * FundDelta(txs[t]) ELSE value["fund"]
  BY <1>1 DEF Post, Delta, Holdings
<1>9. \A u \in SettledSince(d) \cup SettledSince(d)' : FundDelta(txs'[u]) = FundDelta(txs[u])
  BY <1>3 DEF SettledSince
<1>10. SettledSince(d) \subseteq Txs /\ SettledSince(d)' \subseteq Txs
  BY DEF SettledSince
<1>11. FundDelta(txs[t]) \in Int
  BY <1>1, CapitalTypes DEF Live
<1>12. ASSUME NEW i, LatestMark(i)'
       PROVE  log'[i].date = d /\ value'["fund"] = log'[i].value + Capital(d)'
  <2>1. /\ LatestMark(i) /\ i \in DOMAIN log /\ log[i].date = d
        /\ value["fund"] = log[i].value + Capital(d) /\ log'[i] = log[i]
    BY <1>3, <1>4, <1>12, LatestDate, MarkPlusCapitalHere DEF CapitalInv
  <2>2. log[i].value \in Int
    BY <2>1, LogDates DEF Entries
  <2>3. CASE "fund" \in PostsTo(txs[t])
    <3>1. SettledSince(d)' = SettledSince(d) \ {t}
      BY <1>5, <1>6, <1>10
    <3>2. Capital(d) = FundDelta(txs[t]) + Capital(d)' /\ Capital(d)' \in Int
      BY <1>7, <1>9, <2>3, <3>1, CapitalChanges
    <3> QED
      BY <1>8, <1>11, <2>1, <2>2, <2>3, <3>2
  <2>4. CASE "fund" \notin PostsTo(txs[t])
    <3>1. SettledSince(d)' = SettledSince(d)
      BY <1>5, <1>6, <1>7, <1>10, <2>4
    <3>2. Capital(d)' = Capital(d)
      BY <1>9, <3>1, CapitalChanges
    <3> QED
      BY <1>8, <2>1, <2>4, <3>2
  <2> QED
    BY <2>3, <2>4
<1> QED
  BY <1>2, <1>12, MarkPlusCapitalNext DEF CapitalInv
\* A mark of the fund that becomes its value has no capital settled since; an older one, or
\* a mark of the cash balance, leaves the fund as it was.
LEMMA MarkKeepsCapital ==
  ASSUME LedgerTypeOK, LedgerTypeOK', CapitalInv, NEW h \in Holdings, NEW date \in Dates,
         NEW v \in MarkValues, RecordValuation(h, date, v)
  PROVE  CapitalInv'
<1> DEFINE k == Len(log) + 1
<1>1. PICK e : e = [type |-> "mark", tx |-> None, on |-> {h}, date |-> date, value |-> v]
  OBVIOUS
<1>2. /\ e \in Entries /\ e.type = "mark" /\ e.on = {h} /\ e.date = date /\ e.value = v
      /\ log' = Append(log, e) /\ txs' = txs
  <2>1. v \in Int
    BY LedgerAssumption
  <2> QED
    BY <1>1, <2>1 DEF Entries, RecordValuation
<1>3. /\ DOMAIN log' = DOMAIN log \cup {k} /\ k \notin DOMAIN log
      /\ \A i \in DOMAIN log : log'[i] = log[i] /\ i < k
      /\ log'[k] = e /\ k \in Nat
      /\ h # "fund" => \A i : LatestMark(i)' <=> LatestMark(i)
  BY <1>2, EntryAdded
<1> HIDE DEF k
<1>4. SettledEntries' /\ SettledLogged'
  BY <1>2, <1>3 DEF CapitalInv, SettledEntries, SettledLogged, SettledAt
<1>5. AfterMarks'
  <2> SUFFICES ASSUME NEW i \in DOMAIN log', NEW j \in DOMAIN log', j < i, IsMark(j, "fund")',
                      log'[i].type = "settled", "fund" \in log'[i].on
               PROVE  log'[i].date >= log'[j].date
    BY DEF AfterMarks
  <2>1. i \in DOMAIN log
    BY <1>2, <1>3
  <2>2. j \in DOMAIN log
    BY <1>3, <2>1, LogDates
  <2> QED
    BY <1>3, <2>1, <2>2 DEF CapitalInv, AfterMarks, IsMark
<1>6. FundMarks' = IF h = "fund" THEN FundMarks \cup {k} ELSE FundMarks
  BY <1>2, <1>3 DEF FundMarks, IsMark
<1>7. dated'["fund"] = (IF h = "fund" /\ date >= dated["fund"] THEN date ELSE dated["fund"])
      /\ value'["fund"] = (IF h = "fund" /\ date >= dated["fund"] THEN v ELSE value["fund"])
  BY DEF RecordValuation, LedgerTypeOK, Holdings
<1>8. \A d : SettledSince(d)' = SettledSince(d)
  BY <1>2, <1>3 DEF SettledSince, SettledAt
<1>9. \A d : Capital(d)' = Capital(d)
  BY <1>2, <1>8, CapitalChanges
<1>10. \A i \in FundMarks : i \in DOMAIN log /\ log'[i] = log[i] /\ i # k
  BY <1>3 DEF FundMarks
<1>11. PICK d : d = dated["fund"]
  OBVIOUS
<1>12. d \in Nat /\ date \in Nat
  BY <1>11, LogDates
<1>13. \A i \in FundMarks : log[i].date \in Nat /\ log[i].date <= d
  BY <1>10, <1>11, LogDates DEF CapitalInv, FundDated
<1>14. PICK j \in FundMarks : log[j].date = d
  BY <1>11 DEF CapitalInv, FundDated
<1>15. CASE h = "fund" /\ date >= dated["fund"]
  <2>1. FundDated'
    <3>1. \A i \in FundMarks : log'[i].date <= date
      BY <1>10, <1>11, <1>12, <1>13, <1>15
    <3>2. log'[k].date = date /\ date <= date
      BY <1>2, <1>3, <1>12
    <3> QED
      BY <1>6, <1>7, <1>15, <3>1, <3>2 DEF FundDated
  <2>2. ASSUME NEW i, LatestMark(i)' PROVE i = k
    <3>1. i \in FundMarks' /\ k \in FundMarks' /\ log'[k].date = date
      BY <1>2, <1>3, <1>6, <1>15, <2>2 DEF LatestMark
    <3>2. log'[k].date < log'[i].date \/ (log'[k].date = log'[i].date /\ k <= i)
      BY <2>2, <3>1 DEF LatestMark
    <3> SUFFICES ASSUME i \in FundMarks PROVE FALSE
      BY <1>6, <1>15, <3>1
    <3>3. log'[i].date <= d /\ log'[i].date \in Nat /\ i < k
      BY <1>3, <1>10, <1>13
    <3>4. i \in Nat
      BY <1>10, LogDates
    <3> QED
      BY <1>3, <1>11, <1>12, <1>15, <3>1, <3>2, <3>3, <3>4
  <2>3. SettledSince(date) = {}
    <3>1. ~Overlapped("fund", date)
      BY <1>15 DEF RecordValuation
    <3> QED
      BY <3>1 DEF Overlapped, SettledSince, SettledAt
  <2>4. Capital(date) = 0
    BY <2>3, EmptySum DEF Capital
  <2>5. v \in Int
    BY LedgerAssumption
  <2>6. \A i : LatestMark(i)' =>
          log'[i].date = date /\ value'["fund"] = log'[i].value + Capital(date)'
    BY <1>2, <1>3, <1>7, <1>9, <1>15, <2>2, <2>4, <2>5
  <2>7. MarkPlusCapital'
    BY <2>6, MarkPlusCapitalNext
  <2> QED
    BY <1>4, <1>5, <2>1, <2>7 DEF CapitalInv
<1>16. CASE ~(h = "fund" /\ date >= dated["fund"])
  <2>1. dated'["fund"] = d /\ value'["fund"] = value["fund"]
    BY <1>7, <1>11, <1>16
  <2>2. h = "fund" => log'[k].date < d /\ log'[k].date \in Nat
    BY <1>2, <1>3, <1>11, <1>12, <1>16
  <2>3. FundDated'
    <3>1. \A i \in FundMarks' : log'[i].date <= d
      BY <1>6, <1>10, <1>12, <1>13, <2>2
    <3>2. j \in FundMarks' /\ log'[j].date = d
      BY <1>6, <1>10, <1>14
    <3> QED
      BY <2>1, <3>1, <3>2 DEF FundDated
  <2>4. ASSUME NEW i, LatestMark(i)' PROVE LatestMark(i)
    <3>1. CASE h # "fund"
      BY <1>3, <2>4, <3>1
    <3>2. CASE h = "fund"
      <4>1. i \in FundMarks' /\ \A m \in FundMarks' :
              log'[m].date < log'[i].date \/ (log'[m].date = log'[i].date /\ m <= i)
        BY <2>4 DEF LatestMark
      <4>2. log'[j].date = d /\ j \in FundMarks'
        BY <1>6, <1>10, <1>14
      <4>3. i # k
        BY <1>12, <2>2, <3>2, <4>1, <4>2
      <4>4. i \in FundMarks /\ FundMarks \subseteq FundMarks'
        BY <1>6, <4>1, <4>3
      <4> QED
        BY <1>10, <4>1, <4>4 DEF LatestMark
    <3> QED
      BY <3>1, <3>2
  <2>5. ASSUME NEW i, LatestMark(i)'
        PROVE  log'[i].date = d /\ value'["fund"] = log'[i].value + Capital(d)'
    <3>1. LatestMark(i) /\ i \in DOMAIN log /\ log[i].date = d
          /\ value["fund"] = log[i].value + Capital(d)
      BY <1>11, <2>4, <2>5, LatestDate, MarkPlusCapitalHere DEF CapitalInv
    <3> QED
      BY <1>3, <1>9, <2>1, <3>1
  <2>6. MarkPlusCapital'
    BY <2>5, MarkPlusCapitalNext
  <2> QED
    BY <1>4, <1>5, <2>3, <2>6 DEF CapitalInv
<1> QED
  BY <1>15, <1>16

LEMMA StepCapital ==
  ASSUME LedgerTypeOK, CapitalInv, [LedgerNext]_ledgerVars
  PROVE  CapitalInv'
<1>1. LedgerTypeOK'
  BY StepTypes
<1>2. CASE UNCHANGED <<log, value, dated, txs>>
  BY <1>1, <1>2, CapitalFrame
<1>3. ASSUME NEW n \in Notices, NoticeStep(n) PROVE CapitalInv'
  BY <1>2, <1>3 DEF NoticeStep, AcceptNotice, RegisterLegacyNotice, AmendObligation,
                    CancelObligation, ConfirmDistinct, balanceVars
<1>4. ASSUME NEW t \in Txs, TxStep(t) PROVE CapitalInv'
  <2>1. ASSUME NEW kind \in Kinds, NEW amount \in Amounts, NEW moved \in Amounts \cup {0},
               NEW due \in Dates, NEW n \in Notices \cup {None},
               RecordTransaction(t, kind, amount, moved, due, n)
        PROVE  CapitalInv'
    <3>1. UNCHANGED <<log, value, dated>> /\ txs[t].status = "none"
      BY <2>1 DEF RecordTransaction, balanceVars, NoTx
    <3>2. txs'[t].status = "reviewed" /\ \A u \in Txs \ {t} : txs'[u] = txs[u]
      BY <2>1 DEF RecordTransaction, LedgerTypeOK
    <3> QED
      BY <1>1, <3>1, <3>2, CapitalFrame
  <2>2. ASSUME NEW n \in Notices, LinkTransaction(t, n) PROVE CapitalInv'
    <3>1. txs[t] \in TxRecords
      BY <2>2, LiveTx DEF LinkTransaction
    <3>2. /\ UNCHANGED <<log, value, dated>>
          /\ \A u \in Txs \ {t} : txs'[u] = txs[u]
          /\ txs'[t].status = txs[t].status
          /\ txs'[t].kind = txs[t].kind /\ txs'[t].moved = txs[t].moved
      BY <2>2, <3>1 DEF LinkTransaction, balanceVars, LedgerTypeOK, TxRecords
    <3> QED
      BY <1>1, <3>2, CapitalFrame
  <2>3. ASSUME VoidTransaction(t) PROVE CapitalInv'
    <3>1. UNCHANGED <<log, value, dated>> /\ txs[t].status = "reviewed"
      BY <2>3 DEF VoidTransaction, balanceVars
    <3>2. txs[t] \in TxRecords
      BY <3>1, RecordedTx
    <3>3. txs'[t].status = "voided" /\ \A u \in Txs \ {t} : txs'[u] = txs[u]
      BY <2>3, <3>2 DEF VoidTransaction, LedgerTypeOK, TxRecords
    <3> QED
      BY <1>1, <3>1, <3>3, CapitalFrame
  <2> QED
    BY <1>1, <1>4, <2>1, <2>2, <2>3, SettleKeepsCapital, ReverseKeepsCapital DEF TxStep
<1>5. ASSUME NEW h \in Holdings, NEW date \in Dates, NEW v \in MarkValues,
             RecordValuation(h, date, v)
      PROVE  CapitalInv'
  BY <1>1, <1>5, MarkKeepsCapital
<1> QED
  BY <1>2, <1>3, <1>4, <1>5 DEF LedgerNext, ledgerVars, ReconcilePeriod, balanceVars

LEMMA InitCapital == LedgerInit => CapitalInv
<1> SUFFICES ASSUME LedgerInit PROVE CapitalInv
  OBVIOUS
<1>1. PICK v \in [Holdings -> MarkValues] :
        /\ value = v
        /\ log = << [type |-> "mark", tx |-> None, on |-> {"cash"},
                     date |-> OpeningDate, value |-> v["cash"]],
                    [type |-> "mark", tx |-> None, on |-> {"fund"},
                     date |-> OpeningDate, value |-> v["fund"]] >>
  BY DEF LedgerInit
<1>2. /\ DOMAIN log = {1, 2} /\ \A i \in {1, 2} : log[i].type = "mark"
      /\ log[1].on = {"cash"} /\ log[2].on = {"fund"}
      /\ log[2].date = OpeningDate /\ log[2].value = v["fund"]
  BY <1>1
<1>3. FundMarks = {2}
  BY <1>2 DEF FundMarks, IsMark
<1>4. dated["fund"] = OpeningDate /\ OpeningDate \in Nat
  BY LedgerAssumption DEF LedgerInit, Holdings
<1>5. \A t \in Txs : txs[t].status = "none"
  BY DEF LedgerInit, NoTx
<1>6. FundDated
  BY <1>2, <1>3, <1>4 DEF FundDated
<1>7. SettledEntries /\ SettledLogged /\ AfterMarks
  BY <1>2, <1>5 DEF SettledEntries, SettledLogged, AfterMarks
<1>8. MarkPlusCapital
  <2>1. \A d : SettledSince(d) = {}
    BY <1>5 DEF SettledSince
  <2>2. Capital(OpeningDate) = 0
    BY <2>1, EmptySum DEF Capital
  <2>3. v["fund"] \in 0 .. MaxValue
    BY LedgerAssumption DEF Holdings
  <2>4. \A i \in FundMarks : value["fund"] = log[i].value + Capital(log[i].date)
    BY <1>1, <1>2, <1>3, <2>2, <2>3
  <2> QED
    BY <2>4 DEF MarkPlusCapital, Capital
<1> QED
  BY <1>6, <1>7, <1>8 DEF CapitalInv

\* The fund is worth its latest mark plus the capital settled from that date on, for any
\* number of marks, settlements and reversals and any amounts (lib/ledger.ts, applyPostings
\* and postReviewedValuation; operations/ledger-reporting.md).
THEOREM FundIsMarkPlusCapital == LedgerSpec => []MarkPlusCapital
<1>1. LedgerInit => LedgerTypeOK /\ CapitalInv
  BY InitTypes, InitCapital
<1>2. (LedgerTypeOK /\ CapitalInv) /\ [LedgerNext]_ledgerVars => (LedgerTypeOK /\ CapitalInv)'
  BY StepTypes, StepCapital
<1>3. CapitalInv => MarkPlusCapital
  BY DEF CapitalInv
<1> QED
  BY <1>1, <1>2, <1>3, PTL DEF LedgerSpec
=============================================================================
