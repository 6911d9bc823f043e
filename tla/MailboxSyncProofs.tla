-------------------------- MODULE MailboxSyncProofs --------------------------
(***************************************************************************)
(* Proofs about MailboxSync for any number of workers, messages, changes   *)
(* of the connection and faults.                                           *)
(***************************************************************************)
EXTENDS MailboxSync, TLAPS

-----------------------------------------------------------------------------
(* The inductive invariant.                                                *)

\* A cursor never points beyond the mail there is.
Bounded(c) == c.historyId <= arrived /\ c.token <= arrived

\* What the cursor of an iteration says was collected was, or is on its page.
WorkerCovered(w) ==
  /\ Bounded(worker[w].cursor)
  /\ worker[w].page \subseteq 1 .. arrived
  /\ worker[w].pc = "listing" => Behind(worker[w].cursor) \subseteq receipts
  /\ worker[w].pc = "importing" => Behind(worker[w].cursor) \subseteq receipts \cup worker[w].page

IInv ==
  /\ TypeOK
  /\ ~row.present => row = NoRow
  /\ box.status = "active" => box.generation <= MaxGeneration
  /\ Bounded(box.cursor)
  /\ CursorLeavesNothingBehind
  /\ \A w \in Workers : WorkerCovered(w)

-----------------------------------------------------------------------------
(* Pages.                                                                  *)

\* The greatest and the least number of an interval.
LEMMA Extremes ==
  ASSUME NEW a \in Nat, NEW b \in Nat, a <= b
  PROVE  Max(a .. b) = b /\ Min(a .. b) = a
<1>1. /\ b \in a .. b /\ \A y \in a .. b : b >= y
      /\ a \in a .. b /\ \A y \in a .. b : a <= y
  OBVIOUS
<1>2. \A x \in a .. b : (\A y \in a .. b : x >= y) => x = b
  BY <1>1
<1>3. \A x \in a .. b : (\A y \in a .. b : x <= y) => x = a
  BY <1>1
<1> QED
  BY <1>1, <1>2, <1>3 DEF Max, Min

\* The initial row, cursor and iteration have their types.
LEMMA WrittenTypes ==
  /\ NoRow \in Row /\ NoRow.present = FALSE /\ NoRow.owner = NoWorker /\ NoRow.lease = "none"
  /\ Ready \in Row /\ Ready.present = TRUE /\ Ready.owner = NoWorker /\ Ready.lease = "none"
  /\ [NoRow EXCEPT !.present = TRUE] \in Row
  /\ NoCursor \in Cursor /\ Idle \in Iteration
<1>1. NoRow \in Row /\ NoRow.present = FALSE /\ NoRow.owner = NoWorker /\ NoRow.lease = "none"
  BY DEF NoRow, Row
<1>2. /\ Ready \in Row /\ Ready.present = TRUE /\ Ready.owner = NoWorker /\ Ready.lease = "none"
      /\ [NoRow EXCEPT !.present = TRUE] \in Row
  BY <1>1 DEF Ready, Row
<1>3. NoCursor \in Cursor
  BY ConstantsAssumption DEF NoCursor, Cursor
<1>4. Idle \in Iteration
  BY <1>3, ConstantsAssumption DEF Idle, Iteration
<1> QED
  BY <1>1, <1>2, <1>3, <1>4

\* What an iteration is after an error, and after its end.
LEMMA FailsType ==
  ASSUME TypeOK, NEW w \in Workers, NEW error \in {"lost", "revoked", "reauth", "error"},
         Fails(w, error)
  PROVE  /\ worker' \in [Workers -> Iteration]
         /\ worker'[w].pc = "failing" /\ worker'[w].error = error
         /\ worker'[w].cursor = NoCursor /\ worker'[w].page = {}
         /\ \A v \in Workers \ {w} : worker'[v] = worker[v]
  BY WrittenTypes DEF Fails, TypeOK, Idle, Iteration

LEMMA LeaveType ==
  ASSUME TypeOK, NEW w \in Workers, Leave(w)
  PROVE  /\ worker' \in [Workers -> Iteration]
         /\ worker'[w].pc = "idle" /\ worker'[w].error = "none"
         /\ worker'[w].cursor = NoCursor /\ worker'[w].page = {}
         /\ \A v \in Workers \ {w} : worker'[v] = worker[v]
  BY WrittenTypes DEF Leave, TypeOK, Idle

-----------------------------------------------------------------------------
(* What a step leaves covered.                                             *)

\* Receipts and arrivals only grow, so an iteration that does not move stays covered.
LEMMA StaysCovered ==
  ASSUME NEW v \in Workers, TypeOK, TypeOK', WorkerCovered(v), worker'[v] = worker[v],
         arrived' >= arrived, receipts \subseteq receipts'
  PROVE  WorkerCovered(v)'
<1>1. worker[v].cursor \in Cursor /\ arrived \in Nat /\ arrived' \in Nat
  BY DEF TypeOK, Iteration
<1>2. Bounded(worker[v].cursor)'
  BY <1>1 DEF WorkerCovered, Bounded, Cursor
<1>3. worker'[v].page \subseteq 1 .. arrived'
  BY <1>1 DEF WorkerCovered
<1> QED
  BY <1>2, <1>3 DEF WorkerCovered

\* An iteration without cursor and page has nothing to cover.
LEMMA RestingCovered ==
  ASSUME NEW v \in Workers, TypeOK', worker'[v].cursor = NoCursor, worker'[v].page = {},
         worker'[v].pc \notin {"listing", "importing"}
  PROVE  WorkerCovered(v)'
<1>1. Bounded(worker[v].cursor)'
  BY DEF TypeOK, Bounded, NoCursor
<1> QED
  BY <1>1 DEF WorkerCovered

-----------------------------------------------------------------------------
(* Types, the row and the generation.                                      *)

\* The parts of the invariant about the mailbox and its row.
Scheduled ==
  /\ TypeOK
  /\ ~row.present => row = NoRow
  /\ box.status = "active" => box.generation <= MaxGeneration
  /\ \A w \in Workers : worker[w].page \subseteq 1 .. arrived

LEMMA InitScheduled == Init => Scheduled
  BY WrittenTypes, ConstantsAssumption
     DEF Init, Scheduled, TypeOK, Mailbox, Idle

\* A schedule that is stopped, by a member or by a worker.
LEMMA StoppedScheduled ==
  ASSUME Scheduled, NEW status \in {"paused", "disconnected", "reauth_required"},
         Stopped(status), box.generation <= MaxGeneration
  PROVE  /\ box' \in Mailbox /\ box'.status = status
         /\ box'.cursor \in {box.cursor, NoCursor}
         /\ row' = NoRow
<1>1. /\ box \in Mailbox /\ box.generation + 1 \in 0 .. MaxGeneration + 1
      /\ box.cursor \in Cursor /\ NoCursor \in Cursor
  BY WrittenTypes, ConstantsAssumption DEF Scheduled, TypeOK, Mailbox
<1>2. PICK c \in {box.cursor, NoCursor} :
        box' = [box EXCEPT !.status = status, !.generation = @ + 1, !.cursor = c]
  BY DEF Stopped
<1>3. box' \in Mailbox /\ box'.status = status /\ box'.cursor = c
  BY <1>1, <1>2 DEF Mailbox
<1> QED
  BY <1>2, <1>3 DEF Stopped

\* The provider and the members.
LEMMA RequestScheduled ==
  ASSUME Scheduled,
         \/ Arrive \/ Forget \/ Connect \/ Resume \/ ChangeMember
         \/ \E status \in {"paused", "disconnected"} : Stop(status)
  PROVE  Scheduled'
<1> USE ConstantsAssumption, WrittenTypes DEF Scheduled, provider
<1>1. CASE Arrive
  BY <1>1 DEF Arrive, TypeOK
<1>2. CASE Forget
  BY <1>2 DEF Forget, TypeOK
<1>3. CASE Connect
  BY <1>3 DEF Connect, TypeOK, Mailbox
<1>4. CASE Resume
  <2>1. box' \in Mailbox /\ box'.status = "active" /\ box'.generation = box.generation
    BY <1>4 DEF Resume, TypeOK, Mailbox
  <2>2. /\ row' \in Row /\ row'.present = TRUE
        /\ row'.owner = NoWorker <=> row'.lease = "none"
    <3>1. CASE row.present
      BY <1>4, <3>1 DEF Resume, TypeOK, Row
    <3>2. CASE ~row.present
      BY <1>4, <3>2 DEF Resume
    <3> QED
      BY <3>1, <3>2
  <2> QED
    BY <1>4, <2>1, <2>2 DEF Resume, TypeOK
<1>5. CASE ChangeMember
  BY <1>5 DEF ChangeMember, TypeOK
<1>6. ASSUME NEW status \in {"paused", "disconnected"}, Stop(status) PROVE Scheduled'
  BY <1>6, StoppedScheduled DEF Stop, TypeOK
<1> QED
  BY <1>1, <1>2, <1>3, <1>4, <1>5, <1>6

\* Under a live lease the mailbox is scheduled.
LEMMA HeldIsActive ==
  ASSUME Scheduled, NEW w \in Workers, Holds(w)
  PROVE  row.present /\ box.status = "active" /\ box.generation <= MaxGeneration
  BY WrittenTypes DEF Scheduled, Holds, TypeOK

\* What a page is made of.
LEMMA PageScheduled ==
  ASSUME Scheduled, NEW w \in Workers, NEW ids \in SUBSET (1 .. arrived), NEW cursor \in Cursor,
         Page(w, ids, cursor), worker[w].pc = "listing",
         UNCHANGED <<provider, box, row, receipts, member, faults>>
  PROVE  /\ Scheduled'
         /\ worker'[w].pc = "importing" /\ worker'[w].page = ids /\ worker'[w].cursor = cursor
         /\ \A v \in Workers \ {w} : worker'[v] = worker[v]
<1>1. ids \in SUBSET Mail
  BY ConstantsAssumption DEF Scheduled, TypeOK, Mail
<1>2. worker[w].error = "none"
  BY DEF Scheduled, TypeOK, Iteration
<1> QED
  BY <1>1, <1>2 DEF Page, Scheduled, TypeOK, Iteration, provider

\* An iteration that fails or ends changes nothing else of this.
LEMMA RestScheduled ==
  ASSUME Scheduled, NEW w \in Workers,
         Leave(w) \/ \E error \in {"lost", "revoked", "reauth", "error"} : Fails(w, error),
         UNCHANGED <<provider, box, row, receipts, member>>, faults' \in 0 .. MaxFaults
  PROVE  Scheduled'
<1>1. /\ worker' \in [Workers -> Iteration]
      /\ \A v \in Workers : worker'[v].pc = "failing" <=> worker'[v].error # "none"
      /\ \A v \in Workers : worker'[v].page \subseteq 1 .. arrived
  BY FailsType, LeaveType DEF Scheduled, TypeOK
<1> QED
  BY <1>1 DEF Scheduled, TypeOK, provider

LEMMA ClaimScheduled == ASSUME Scheduled, NEW w \in Workers, Claim(w) PROVE Scheduled'
<1>1. row' \in Row /\ row'.present = row.present /\ row'.owner = w /\ row'.lease = "live"
  BY DEF Claim, Scheduled, TypeOK, Row
<1>2. /\ worker' \in [Workers -> Iteration]
      /\ \A v \in Workers : /\ worker'[v].pc = "failing" <=> worker'[v].error # "none"
                            /\ worker'[v].page = worker[v].page
  BY DEF Claim, Scheduled, TypeOK, Iteration
<1> QED
  BY <1>1, <1>2, ConstantsAssumption DEF Claim, Claimable, Scheduled, TypeOK, provider

LEMMA BeginScheduled == ASSUME Scheduled, NEW w \in Workers, Begin(w) PROVE Scheduled'
<1>1. CASE Fails(w, "lost") \/ Fails(w, "revoked")
  BY <1>1, RestScheduled DEF Begin, Scheduled, TypeOK
<1>2. CASE worker' = [worker EXCEPT ![w].pc = "listing", ![w].generation = box.generation,
                                    ![w].cursor = box.cursor]
  <2>1. box.generation \in 0 .. MaxGeneration + 1 /\ box.cursor \in Cursor
    BY DEF Scheduled, TypeOK, Mailbox
  <2>2. worker[w].pc = "claimed" /\ worker[w].error = "none"
    BY DEF Begin, Scheduled, TypeOK, Iteration
  <2> DEFINE i == [worker[w] EXCEPT !.pc = "listing", !.generation = box.generation,
                                    !.cursor = box.cursor]
  <2>3. i \in Iteration /\ i.pc = "listing" /\ i.error = "none" /\ i.page = worker[w].page
    BY <2>1, <2>2 DEF Scheduled, TypeOK, Iteration
  <2>4. worker' = [worker EXCEPT ![w] = i]
    BY <1>2
  <2> HIDE DEF i
  <2>5. /\ worker' \in [Workers -> Iteration]
        /\ \A v \in Workers : /\ worker'[v].pc = "failing" <=> worker'[v].error # "none"
                              /\ worker'[v].page = worker[v].page
    BY <2>3, <2>4 DEF Scheduled, TypeOK
  <2> QED
    BY <2>5 DEF Begin, Scheduled, TypeOK, provider
<1> QED
  BY <1>1, <1>2 DEF Begin

LEMMA ProfileScheduled == ASSUME Scheduled, NEW w \in Workers, Profile(w) PROVE Scheduled'
<1>1. [stage |-> "backfill", historyId |-> arrived, token |-> 0] \in Cursor
  BY ConstantsAssumption DEF Scheduled, TypeOK, Cursor
<1> QED
  BY <1>1 DEF Profile, Scheduled, TypeOK, Iteration, provider

LEMMA ImportScheduled ==
  ASSUME Scheduled, NEW w \in Workers, NEW m \in Mail, Import(w, m) PROVE Scheduled'
<1>1. CASE UNCHANGED receipts /\ (Fails(w, "lost") \/ Fails(w, "revoked"))
  BY <1>1, RestScheduled DEF Import, Scheduled, TypeOK
<1>2. CASE /\ receipts' = receipts \cup {m}
           /\ worker' = [worker EXCEPT ![w].page = @ \ {m}]
  BY <1>2 DEF Import, Scheduled, TypeOK, Iteration, provider
<1> QED
  BY <1>1, <1>2 DEF Import

LEMMA FinishScheduled == ASSUME Scheduled, NEW w \in Workers, Finish(w) PROVE Scheduled'
<1>1. CASE UNCHANGED <<box, row>> /\ (Fails(w, "lost") \/ Fails(w, "revoked"))
  BY <1>1, RestScheduled DEF Finish, Scheduled, TypeOK
<1>2. CASE /\ Current(w) /\ box' = [box EXCEPT !.cursor = worker[w].cursor]
           /\ row' = [NoRow EXCEPT !.present = TRUE] /\ Leave(w)
  <2>1. /\ box' \in Mailbox /\ box'.status = "active" /\ box'.generation = box.generation
    BY <1>2 DEF Current, Scheduled, TypeOK, Mailbox, Iteration
  <2>2. /\ row' \in Row /\ row'.present = TRUE
        /\ row'.owner = NoWorker /\ row'.lease = "none"
    BY <1>2, WrittenTypes DEF Row
  <2>3. /\ worker' \in [Workers -> Iteration]
        /\ \A v \in Workers : worker'[v].pc = "failing" <=> worker'[v].error # "none"
        /\ \A v \in Workers : worker'[v].page \subseteq 1 .. arrived
    BY <1>2, LeaveType DEF Scheduled, TypeOK
  <2> QED
    BY <1>2, <2>1, <2>2, <2>3 DEF Finish, Current, Scheduled, TypeOK, provider
<1> QED
  BY <1>1, <1>2 DEF Finish

LEMMA ReleaseScheduled == ASSUME Scheduled, NEW w \in Workers, Release(w) PROVE Scheduled'
<1>1. /\ worker' \in [Workers -> Iteration]
      /\ \A v \in Workers : worker'[v].pc = "failing" <=> worker'[v].error # "none"
      /\ \A v \in Workers : worker'[v].page \subseteq 1 .. arrived
  BY LeaveType DEF Release, Scheduled, TypeOK
<1>2. CASE ~Holds(w)
  BY <1>2, RestScheduled DEF Release, Scheduled, TypeOK
<1>3. ASSUME Holds(w), NEW status \in {"paused", "disconnected", "reauth_required"}, Stopped(status)
      PROVE  Scheduled'
  BY <1>1, <1>3, HeldIsActive, StoppedScheduled, WrittenTypes
     DEF Release, Scheduled, TypeOK, provider
<1>4. CASE Holds(w) /\ row' = [NoRow EXCEPT !.present = TRUE] /\ UNCHANGED box
  <2>1. /\ row' \in Row /\ row'.present = TRUE
        /\ row'.owner = NoWorker /\ row'.lease = "none"
    BY <1>4, WrittenTypes DEF Row
  <2> QED
    BY <1>1, <1>4, <2>1, HeldIsActive DEF Release, Scheduled, TypeOK, provider
<1> QED
  BY <1>2, <1>3, <1>4 DEF Release

LEMMA FaultScheduled ==
  ASSUME Scheduled,
         \/ BecomeAvailable \/ Lapse \/ \E w \in Workers : Throw(w) \/ Crash(w)
  PROVE  Scheduled'
<1>s. Spend => faults' \in 0 .. MaxFaults
  BY ConstantsAssumption DEF Spend, Scheduled, TypeOK
<1>1. CASE BecomeAvailable
  BY <1>1, ConstantsAssumption DEF BecomeAvailable, Scheduled, TypeOK, Row, provider
<1>2. CASE Lapse
  <2>1. row' \in Row /\ row'.present = row.present /\ row'.lease = "lapsed" /\ row'.owner = row.owner
    BY <1>2 DEF Lapse, Scheduled, TypeOK, Row
  <2>2. faults' \in 0 .. MaxFaults
    BY <1>2, <1>s DEF Lapse, Scheduled, TypeOK
  <2> QED
    BY <1>2, <2>1, <2>2, WrittenTypes DEF Lapse, Scheduled, TypeOK, provider
<1>3. ASSUME NEW w \in Workers, Throw(w) PROVE Scheduled'
  BY <1>3, <1>s, RestScheduled DEF Throw
<1>4. ASSUME NEW w \in Workers, Crash(w) PROVE Scheduled'
  BY <1>4, <1>s, RestScheduled DEF Crash
<1> QED
  BY <1>1, <1>2, <1>3, <1>4

-----------------------------------------------------------------------------
(* What the pages cover.                                                   *)

\* The cursor of a listing iteration.
LEMMA ListingCursor ==
  ASSUME IInv, NEW w \in Workers, worker[w].pc = "listing"
  PROVE  /\ worker[w].cursor \in Cursor
         /\ worker[w].cursor.historyId \in 0 .. arrived /\ worker[w].cursor.token \in 0 .. arrived
         /\ Behind(worker[w].cursor) \subseteq receipts
         /\ arrived \in 0 .. MaxMail
<1>1. worker[w].cursor \in Cursor /\ arrived \in 0 .. MaxMail
  BY DEF IInv, TypeOK, Iteration
<1>2. /\ worker[w].cursor.historyId <= arrived /\ worker[w].cursor.token <= arrived
      /\ Behind(worker[w].cursor) \subseteq receipts
  BY DEF IInv, WorkerCovered, Bounded
<1> QED
  BY <1>1, <1>2, ConstantsAssumption DEF Cursor

\* A page of the backfill extends what is covered downwards; the last one ends at 1.
LEMMA BackfillCovers ==
  ASSUME IInv, NEW w \in Workers, Backfill(w)
  PROVE  Scheduled' /\ WorkerCovered(w)' /\ \A v \in Workers \ {w} : worker'[v] = worker[v]
<1> DEFINE c == worker[w].cursor
           b == IF c.token = 0 THEN arrived ELSE c.token - 1
           older == {m \in 1 .. arrived : c.token = 0 \/ m < c.token}
           next == [c EXCEPT !.token = b]
           last == [stage |-> "history", historyId |-> c.historyId, token |-> 0]
<1>1. /\ c \in Cursor /\ c.historyId \in 0 .. arrived /\ c.token \in 0 .. arrived
      /\ Behind(c) \subseteq receipts /\ arrived \in 0 .. MaxMail
      /\ worker[w].pc = "listing" /\ c.stage = "backfill" /\ Scheduled
  BY ListingCursor DEF Backfill, IInv, Scheduled, WorkerCovered
<1>2. older = 1 .. b /\ b \in 0 .. arrived
  BY <1>1, ConstantsAssumption
<1>3. CASE \E m, n \in older : m # n
  <2>1. b >= 2 /\ Max(older) = b
    <3>1. \E m, n \in 1 .. b : m # n
      BY <1>2, <1>3
    <3>2. b \in Nat /\ b >= 2
      BY <1>2, <3>1, ConstantsAssumption
    <3>3. Max(1 .. b) = b
      BY <3>2, Extremes
    <3> QED
      BY <1>2, <3>2, <3>3
  <2>2. Page(w, {b}, next) /\ next \in Cursor /\ {b} \in SUBSET (1 .. arrived)
    <3>1. b \in 0 .. MaxMail /\ b \in 1 .. arrived
      BY <1>1, <1>2, <2>1, ConstantsAssumption
    <3>2. next \in Cursor
      BY <1>1, <3>1 DEF Cursor
    <3>3. Page(w, {Max(older)}, [c EXCEPT !.token = Max(older)])
      BY <1>3 DEF Backfill
    <3> QED
      BY <2>1, <3>1, <3>2, <3>3
  <2>3. Behind(next) \subseteq receipts \cup {b}
    BY <1>1, <1>2, <2>1 DEF Behind, Cursor
  <2>4. /\ Scheduled' /\ worker'[w].pc = "importing" /\ worker'[w].page = {b}
        /\ worker'[w].cursor = next /\ \A v \in Workers \ {w} : worker'[v] = worker[v]
    <3> HIDE DEF next, b
    <3> QED
      BY <1>1, <2>2, PageScheduled DEF Backfill
  <2>5. next.historyId <= arrived /\ next.token <= arrived
    BY <1>1, <1>2 DEF Cursor
  <2> QED
    BY <2>2, <2>3, <2>4, <2>5 DEF Backfill, provider, WorkerCovered, Bounded
<1>4. CASE ~\E m, n \in older : m # n
  <2>1. Page(w, older, last) /\ last \in Cursor /\ older \in SUBSET (1 .. arrived)
    BY <1>1, <1>4, ConstantsAssumption DEF Backfill, Anchor, Cursor
  <2>2. Behind(last) \subseteq receipts \cup older
    BY <1>1, <1>2 DEF Behind, Cursor
  <2>3. /\ Scheduled' /\ worker'[w].pc = "importing" /\ worker'[w].page = older
        /\ worker'[w].cursor = last /\ \A v \in Workers \ {w} : worker'[v] = worker[v]
    BY <1>1, <2>1, PageScheduled DEF Backfill
  <2>4. last.historyId <= arrived /\ last.token <= arrived
    BY <1>1
  <2> QED
    BY <2>1, <2>2, <2>3, <2>4 DEF Backfill, provider, WorkerCovered, Bounded
<1> QED
  BY <1>3, <1>4

\* A page of the history extends it upwards; the last one ends with what has arrived.
LEMMA HistoryCovers ==
  ASSUME IInv, NEW w \in Workers, History(w)
  PROVE  Scheduled' /\ WorkerCovered(w)' /\ \A v \in Workers \ {w} : worker'[v] = worker[v]
<1> DEFINE c == worker[w].cursor
           from == IF c.token = 0 THEN c.historyId ELSE c.token
           newer == {m \in 1 .. arrived : m > from}
           next == [c EXCEPT !.token = from + 1]
           last == [c EXCEPT !.historyId = arrived, !.token = 0]
<1>1. /\ c \in Cursor /\ c.historyId \in 0 .. arrived /\ c.token \in 0 .. arrived
      /\ Behind(c) \subseteq receipts /\ arrived \in 0 .. MaxMail
      /\ worker[w].pc = "listing" /\ c.stage = "history" /\ Scheduled
  BY ListingCursor DEF History, IInv, Scheduled, WorkerCovered
<1>2. newer = from + 1 .. arrived /\ from \in 0 .. arrived
  BY <1>1
<1>3. CASE c.historyId < horizon
  <2>1. Page(w, {}, Restarted) /\ {} \in SUBSET (1 .. arrived)
    BY <1>3 DEF History
  <2>2. /\ Restarted \in Cursor /\ Restarted.historyId <= arrived /\ Restarted.token <= arrived
        /\ Behind(Restarted) = {}
    BY <1>1, ConstantsAssumption DEF Restarted, Cursor, Behind
  <2>3. /\ Scheduled' /\ worker'[w].pc = "importing" /\ worker'[w].page = {}
        /\ worker'[w].cursor = Restarted /\ \A v \in Workers \ {w} : worker'[v] = worker[v]
    BY <1>1, <2>1, <2>2, PageScheduled DEF History
  <2> QED
    BY <2>2, <2>3 DEF History, provider, WorkerCovered, Bounded
<1>4. CASE ~(c.historyId < horizon) /\ \E m, n \in newer : m # n
  <2>1. from + 1 < arrived /\ Min(newer) = from + 1
    <3>1. \E m, n \in from + 1 .. arrived : m # n
      BY <1>2, <1>4
    <3>2. from + 1 \in Nat /\ arrived \in Nat /\ from + 1 < arrived
      BY <1>1, <1>2, <3>1, ConstantsAssumption
    <3>3. Min(from + 1 .. arrived) = from + 1
      <4> HIDE DEF from
      <4> QED
        BY <3>2, Extremes
    <3> QED
      BY <1>2, <3>2, <3>3
  <2>2. Page(w, {from + 1}, next) /\ next \in Cursor /\ {from + 1} \in SUBSET (1 .. arrived)
    <3>1. from + 1 \in 0 .. MaxMail /\ from + 1 \in 1 .. arrived
      BY <1>1, <1>2, <2>1, ConstantsAssumption
    <3>2. next \in Cursor
      BY <1>1, <3>1 DEF Cursor
    <3>3. Page(w, {Min(newer)}, [c EXCEPT !.token = Min(newer)])
      BY <1>4 DEF History
    <3> QED
      BY <2>1, <3>1, <3>2, <3>3
  <2>3. Behind(next) \subseteq receipts \cup {from + 1}
    BY <1>1, <1>2, <2>1 DEF Behind, Cursor
  <2>4. /\ Scheduled' /\ worker'[w].pc = "importing" /\ worker'[w].page = {from + 1}
        /\ worker'[w].cursor = next /\ \A v \in Workers \ {w} : worker'[v] = worker[v]
    BY <1>1, <2>2, PageScheduled DEF History
  <2>5. next.historyId <= arrived /\ next.token <= arrived
    BY <1>1, <1>2, <2>1 DEF Cursor
  <2> QED
    BY <2>2, <2>3, <2>4, <2>5 DEF History, provider, WorkerCovered, Bounded
<1>5. CASE ~(c.historyId < horizon) /\ ~\E m, n \in newer : m # n
  <2>1. Page(w, newer, last) /\ last \in Cursor /\ newer \in SUBSET (1 .. arrived)
    <3>1. last \in Cursor
      <4>1. arrived \in 0 .. MaxMail /\ 0 \in 0 .. MaxMail
        BY <1>1, ConstantsAssumption
      <4> QED
        BY <1>1, <4>1 DEF Cursor
    <3>2. Page(w, newer, last)
      BY <1>5 DEF History
    <3> QED
      BY <1>1, <3>1, <3>2
  <2>2. Behind(last) \subseteq receipts \cup newer
    BY <1>1, <1>2 DEF Behind, Cursor
  <2>3. /\ Scheduled' /\ worker'[w].pc = "importing" /\ worker'[w].page = newer
        /\ worker'[w].cursor = last /\ \A v \in Workers \ {w} : worker'[v] = worker[v]
    BY <1>1, <2>1, PageScheduled DEF History
  <2>4. last.historyId <= arrived /\ last.token <= arrived
    BY <1>1 DEF Cursor
  <2> QED
    BY <2>1, <2>2, <2>3, <2>4 DEF History, provider, WorkerCovered, Bounded
<1> QED
  BY <1>3, <1>4, <1>5

-----------------------------------------------------------------------------
(* The invariant is inductive.                                             *)

LEMMA InitIInv == Init => IInv
<1> SUFFICES ASSUME Init PROVE IInv
  OBVIOUS
<1>1. Scheduled
  BY InitScheduled
<1>2. Bounded(box.cursor) /\ CursorLeavesNothingBehind
  BY DEF Init, Bounded, NoCursor, CursorLeavesNothingBehind, Behind
<1>3. \A w \in Workers : WorkerCovered(w)
  BY DEF Init, Idle, NoCursor, WorkerCovered, Bounded
<1> QED
  BY <1>1, <1>2, <1>3 DEF Scheduled, IInv

\* What a step must still show once types and the row are dealt with.
LEMMA Assemble ==
  ASSUME IInv, Scheduled', arrived' >= arrived, receipts \subseteq receipts',
         Bounded(box.cursor)', Behind(box'.cursor) \subseteq receipts',
         \A v \in Workers : worker'[v] = worker[v] \/ WorkerCovered(v)'
  PROVE  IInv'
<1>1. TypeOK /\ TypeOK'
  BY DEF IInv, Scheduled
<1>2. \A v \in Workers : WorkerCovered(v)'
  <2> SUFFICES ASSUME NEW v \in Workers, worker'[v] = worker[v] PROVE WorkerCovered(v)'
    OBVIOUS
  <2> QED
    BY <1>1, StaysCovered DEF IInv
<1>3. CursorLeavesNothingBehind'
  BY DEF CursorLeavesNothingBehind
<1> QED
  BY <1>2, <1>3 DEF IInv, Scheduled

\* A mailbox cursor that stays or is cleared stays covered.
LEMMA CursorStays ==
  ASSUME IInv, Scheduled', arrived' >= arrived, receipts \subseteq receipts',
         box'.cursor \in {box.cursor, NoCursor}
  PROVE  Bounded(box.cursor)' /\ Behind(box'.cursor) \subseteq receipts'
<1>1. /\ arrived \in Nat /\ arrived' \in Nat /\ box.cursor \in Cursor
      /\ box.cursor.historyId \in Nat /\ box.cursor.token \in Nat
  BY DEF IInv, TypeOK, Scheduled, Mailbox, Cursor
<1>2. CASE box'.cursor = box.cursor
  BY <1>1, <1>2 DEF IInv, Bounded, CursorLeavesNothingBehind
<1>3. CASE box'.cursor = NoCursor
  BY <1>1, <1>3 DEF NoCursor, Bounded, Behind
<1> QED
  BY <1>2, <1>3

\* Steps that move no worker.
LEMMA EnvironmentStep ==
  ASSUME IInv,
         \/ Arrive \/ Forget \/ Connect \/ Resume \/ ChangeMember \/ BecomeAvailable \/ Lapse
         \/ \E status \in {"paused", "disconnected"} : Stop(status)
  PROVE  IInv'
<1>1. Scheduled /\ arrived \in Nat
  BY DEF IInv, Scheduled, TypeOK, WorkerCovered
<1>2. Scheduled'
  BY <1>1, RequestScheduled, FaultScheduled
<1>3. worker' = worker /\ receipts' = receipts /\ arrived' >= arrived
  BY <1>1 DEF Arrive, Forget, Connect, Resume, ChangeMember, BecomeAvailable, Lapse, Stop, provider
<1>4. box'.cursor \in {box.cursor, NoCursor}
  <2>1. CASE \E status \in {"paused", "disconnected"} : Stop(status)
    BY <1>1, <2>1, StoppedScheduled DEF Stop
  <2>2. CASE Connect \/ Resume
    BY <1>1, <2>2 DEF Connect, Resume, Scheduled, TypeOK, Mailbox
  <2>3. CASE Arrive \/ Forget \/ ChangeMember \/ BecomeAvailable \/ Lapse
    BY <2>3 DEF Arrive, Forget, ChangeMember, BecomeAvailable, Lapse
  <2> QED
    BY <2>1, <2>2, <2>3
<1> QED
  BY <1>2, <1>3, <1>4, CursorStays, Assemble

\* A worker that leaves or fails has nothing left to cover.
LEMMA RestStep ==
  ASSUME IInv, Scheduled', NEW w \in Workers,
         Leave(w) \/ \E error \in {"lost", "revoked", "reauth", "error"} : Fails(w, error),
         UNCHANGED <<arrived, receipts>>, box'.cursor \in {box.cursor, NoCursor}
  PROVE  IInv'
<1>1. TypeOK /\ TypeOK' /\ arrived \in Nat
  BY DEF IInv, Scheduled, TypeOK
<1>2. /\ worker'[w].cursor = NoCursor /\ worker'[w].page = {}
      /\ worker'[w].pc \notin {"listing", "importing"}
      /\ \A v \in Workers \ {w} : worker'[v] = worker[v]
  BY <1>1, FailsType, LeaveType
<1>3. WorkerCovered(w)'
  BY <1>1, <1>2, RestingCovered
<1> QED
  BY <1>1, <1>2, <1>3, CursorStays, Assemble

\* The steps of a worker.
LEMMA WorkerStep ==
  ASSUME IInv, NEW w \in Workers, Claim(w) \/ Work(w) \/ Throw(w) \/ Crash(w)
  PROVE  IInv'
<1>1. Scheduled /\ TypeOK /\ arrived \in Nat
  BY DEF IInv, Scheduled, TypeOK, WorkerCovered
<1>2. CASE Claim(w)
  <2>1. Scheduled' /\ TypeOK'
    BY <1>1, <1>2, ClaimScheduled DEF Scheduled
  <2>2. /\ worker'[w].cursor = worker[w].cursor /\ worker'[w].page = worker[w].page
        /\ worker'[w].pc = "claimed" /\ \A v \in Workers \ {w} : worker'[v] = worker[v]
    BY <1>1, <1>2 DEF Claim, TypeOK, Iteration
  <2>3. WorkerCovered(w)'
    BY <1>2, <2>2 DEF Claim, provider, IInv, WorkerCovered, Bounded
  <2> QED
    BY <1>1, <1>2, <2>1, <2>2, <2>3, CursorStays, Assemble DEF Claim, provider
<1>3. CASE Begin(w)
  <2>1. Scheduled' /\ TypeOK'
    BY <1>1, <1>3, BeginScheduled DEF Scheduled
  <2>2. CASE Fails(w, "lost") \/ Fails(w, "revoked")
    BY <1>3, <2>1, <2>2, RestStep DEF Begin, provider
  <2>3. CASE worker' = [worker EXCEPT ![w].pc = "listing", ![w].generation = box.generation,
                                      ![w].cursor = box.cursor]
    <3>1. /\ worker'[w].cursor = box.cursor /\ worker'[w].page = worker[w].page
          /\ worker'[w].pc = "listing" /\ \A v \in Workers \ {w} : worker'[v] = worker[v]
      BY <1>1, <2>3 DEF TypeOK, Iteration
    <3>2. WorkerCovered(w)'
      BY <1>3, <3>1
         DEF Begin, provider, IInv, WorkerCovered, Bounded, CursorLeavesNothingBehind
    <3> QED
      BY <1>1, <1>3, <2>1, <3>1, <3>2, CursorStays, Assemble DEF Begin, provider
  <2> QED
    BY <1>3, <2>2, <2>3 DEF Begin
<1>4. CASE Profile(w)
  <2> DEFINE c == [stage |-> "backfill", historyId |-> arrived, token |-> 0]
  <2>1. Scheduled' /\ TypeOK'
    BY <1>1, <1>4, ProfileScheduled DEF Scheduled
  <2>2. Behind(c) = {} /\ c.historyId = arrived /\ c.token = 0
    BY DEF Behind
  <2>3. /\ worker'[w].cursor = c /\ worker'[w].page = worker[w].page
        /\ worker'[w].pc = "listing" /\ \A v \in Workers \ {w} : worker'[v] = worker[v]
    BY <1>1, <1>4 DEF Profile, TypeOK, Iteration
  <2> HIDE DEF c
  <2>4. WorkerCovered(w)'
    BY <1>1, <1>4, <2>2, <2>3 DEF Profile, provider, IInv, WorkerCovered, Bounded
  <2> QED
    BY <1>1, <1>4, <2>1, <2>3, <2>4, CursorStays, Assemble DEF Profile, provider
<1>5. CASE Backfill(w)
  BY <1>1, <1>5, BackfillCovers, CursorStays, Assemble DEF Backfill, provider
<1>6. CASE History(w)
  <2>1. UNCHANGED <<arrived, box, receipts>>
    BY <1>6 DEF History, provider
  <2>2. Scheduled' /\ WorkerCovered(w)' /\ \A v \in Workers \ {w} : worker'[v] = worker[v]
    BY <1>6, HistoryCovers
  <2> QED
    BY <1>1, <2>1, <2>2, CursorStays, Assemble
<1>7. ASSUME NEW m \in Mail, Import(w, m) PROVE IInv'
  <2>1. Scheduled' /\ TypeOK'
    BY <1>1, <1>7, ImportScheduled DEF Scheduled
  <2>2. CASE UNCHANGED receipts /\ (Fails(w, "lost") \/ Fails(w, "revoked"))
    BY <1>7, <2>1, <2>2, RestStep DEF Import, provider
  <2>3. CASE /\ receipts' = receipts \cup {m}
             /\ worker' = [worker EXCEPT ![w].page = @ \ {m}]
    <3>1. /\ worker'[w].cursor = worker[w].cursor /\ worker'[w].page = worker[w].page \ {m}
          /\ worker'[w].pc = "importing" /\ worker[w].pc = "importing"
          /\ \A v \in Workers \ {w} : worker'[v] = worker[v]
      BY <1>1, <1>7, <2>3 DEF Import, TypeOK, Iteration
    <3>2. WorkerCovered(w)'
      BY <1>7, <2>3, <3>1 DEF Import, provider, IInv, WorkerCovered, Bounded
    <3> QED
      BY <1>1, <1>7, <2>1, <2>3, <3>1, <3>2, CursorStays, Assemble DEF Import, provider
  <2> QED
    BY <1>7, <2>2, <2>3 DEF Import
<1>8. CASE Finish(w)
  <2>1. Scheduled' /\ TypeOK'
    BY <1>1, <1>8, FinishScheduled DEF Scheduled
  <2>2. CASE UNCHANGED <<box, row>> /\ (Fails(w, "lost") \/ Fails(w, "revoked"))
    BY <1>8, <2>1, <2>2, RestStep DEF Finish, provider
  <2>3. CASE box' = [box EXCEPT !.cursor = worker[w].cursor] /\ Leave(w)
    <3>1. /\ worker'[w].cursor = NoCursor /\ worker'[w].page = {} /\ worker'[w].pc = "idle"
          /\ \A v \in Workers \ {w} : worker'[v] = worker[v]
      BY <1>1, <2>3, LeaveType
    <3>2. WorkerCovered(w)'
      BY <2>1, <3>1, RestingCovered
    <3>3. box'.cursor = worker[w].cursor
      BY <1>1, <2>3 DEF TypeOK, Mailbox
    <3>4. Bounded(box.cursor)' /\ Behind(box'.cursor) \subseteq receipts'
      BY <1>8, <3>3 DEF Finish, provider, IInv, WorkerCovered, Bounded
    <3> QED
      BY <1>1, <1>8, <2>1, <3>1, <3>2, <3>4, Assemble DEF Finish, provider
  <2> QED
    BY <1>8, <2>2, <2>3 DEF Finish
<1>9. CASE Release(w)
  <2>1. Scheduled'
    BY <1>1, <1>9, ReleaseScheduled
  <2>2. box'.cursor \in {box.cursor, NoCursor}
    BY <1>1, <1>9, HeldIsActive, StoppedScheduled DEF Release
  <2> QED
    BY <1>9, <2>1, <2>2, RestStep DEF Release, provider
<1>10. CASE Throw(w) \/ Crash(w)
  BY <1>1, <1>10, FaultScheduled, RestStep DEF Throw, Crash, provider
<1> QED
  BY <1>2, <1>3, <1>4, <1>5, <1>6, <1>7, <1>8, <1>9, <1>10 DEF Work

LEMMA NextIInv == IInv /\ [Next]_vars => IInv'
<1> SUFFICES ASSUME IInv, [Next]_vars PROVE IInv'
  OBVIOUS
<1>1. CASE UNCHANGED vars
  BY <1>1 DEF vars, provider, IInv, TypeOK, Bounded, WorkerCovered, CursorLeavesNothingBehind
<1>2. CASE Next
  BY <1>2, EnvironmentStep, WorkerStep DEF Next
<1> QED
  BY <1>1, <1>2

-----------------------------------------------------------------------------
(* The theorems.                                                           *)

\* What every page leaves true: the strengthened invariant of cursors, pages and receipts.
THEOREM Inductive == Spec => []IInv
  BY InitIInv, NextIInv, PTL DEF Spec

\* The mailbox, its row and the iterations keep their types.
THEOREM TypeInvariant == Spec => []TypeOK
<1>1. IInv => TypeOK
  BY DEF IInv
<1> QED
  BY <1>1, Inductive, PTL

\* "A page cursor only advances after all its messages have durable receipts": however much
\* mail arrives, whatever is forgotten and whoever collects.
THEOREM NothingBehind == Spec => []CursorLeavesNothingBehind
<1>1. IInv => CursorLeavesNothingBehind
  BY DEF IInv
<1> QED
  BY <1>1, Inductive, PTL

\* Whoever does not hold the claim and the generation changes nothing.
LEMMA CollectorStep ==
  ASSUME IInv, NEW w \in Workers, [Next]_vars, worker'[w] # worker[w],
         worker[w].pc \in {"importing", "failing"},
         <<box, row, receipts>>' # <<box, row, receipts>>
  PROVE  /\ box.status = "active" /\ row.owner = w /\ row.lease = "live"
         /\ worker[w].pc # "failing" => box.generation = worker[w].generation /\ member
<1>t. TypeOK /\ Scheduled
  BY DEF IInv, Scheduled, WorkerCovered
<1>1. CASE UNCHANGED vars
  BY <1>1 DEF vars
<1>2. CASE UNCHANGED worker
  BY <1>2
<1>3. ASSUME NEW v \in Workers, v # w, Claim(v) \/ Work(v) \/ Throw(v) \/ Crash(v)
      PROVE  FALSE
  BY <1>t, <1>3 DEF TypeOK, Claim, Work, Begin, Profile, Backfill, History, Page, Import, Finish,
              Release, Throw, Crash, Leave, Fails
<1>4. CASE Claim(w) \/ Begin(w) \/ Profile(w) \/ Backfill(w) \/ History(w)
  BY <1>4 DEF Claim, Begin, Profile, Backfill, History
<1>5. CASE Throw(w) \/ Crash(w)
  BY <1>5 DEF Throw, Crash
<1>6. CASE Finish(w) \/ \E m \in Mail : Import(w, m)
  BY <1>6 DEF Finish, Import, Current, Holds
<1>7. CASE Release(w)
  <2>1. worker[w].pc = "failing" /\ Leave(w) /\ UNCHANGED receipts
    BY <1>7 DEF Release
  <2>2. Holds(w)
    BY <1>7, <2>1 DEF Release
  <2> QED
    BY <1>t, <2>1, <2>2, HeldIsActive DEF Holds
<1> QED
  BY <1>1, <1>2, <1>3, <1>4, <1>5, <1>6, <1>7
     DEF Next, Work, Arrive, Forget, Connect, Resume, Stop, ChangeMember, BecomeAvailable, Lapse

\* "Old workers cannot commit against the changed generation": for any number of workers.
THEOREM StaleCollectors == Spec => StaleCollectorsChangeNothing
<1>1. IInv /\ [Next]_vars =>
        [\A w \in Workers :
           /\ worker'[w] # worker[w] /\ worker[w].pc \in {"importing", "failing"}
           /\ <<box, row, receipts>>' # <<box, row, receipts>>
           => /\ box.status = "active" /\ row.owner = w /\ row.lease = "live"
              /\ worker[w].pc # "failing" => box.generation = worker[w].generation /\ member]_vars
  BY CollectorStep
<1> QED
  BY <1>1, Inductive, PTL DEF Spec, StaleCollectorsChangeNothing
=============================================================================
