-------------------------- MODULE FolderSyncProofs --------------------------
(***************************************************************************)
(* Proofs about FolderSync for any number of workers, files, versions,     *)
(* changes of the connection and faults, and any batch size.               *)
(***************************************************************************)
EXTENDS FolderSync, TLAPS

-----------------------------------------------------------------------------
(* The inductive invariant.                                                *)

\* A batch counts the files it examined, and has examined none before its first.
Counted(i) ==
  /\ i.pc \in {"idle", "claimed", "scanning"} => i.examined = 0
  /\ i.examined # 0 => i.at # 0
  /\ i.pc = "importing" => i.at # 0 /\ i.scan[i.at] # 0 /\ i.examined < Batch

\* Types, the row, and the bounds of generations and iterations.
Scheduled ==
  /\ TypeOK
  /\ ~row.present => row = NoRow
  /\ conn.status = "active" => conn.generation <= MaxGeneration
  /\ \A w \in Workers : Counted(worker[w])

\* A batch whose claim is still on the row has receipts for what it passed, except for the
\* file it is importing.
Passed(w) ==
  worker[w].pc \in {"scanning", "collecting", "importing"} /\ row.owner = w =>
    \A p \in Paths :
      /\ p > conn.cursor /\ p <= worker[w].at
      /\ worker[w].pc # "scanning" /\ worker[w].scan[p] # 0
      /\ ~(worker[w].pc = "importing" /\ p = worker[w].at)
      => <<p, worker[w].scan[p]>> \in receipts

\* A batch that scans has passed nothing.
Fresh(w) == worker[w].pc = "scanning" /\ row.owner = w => worker[w].at = conn.cursor

IInv == Scheduled /\ \A w \in Workers : Passed(w) /\ Fresh(w)

-----------------------------------------------------------------------------
(* What the actions write.                                                 *)

LEMMA WrittenTypes ==
  /\ NoRow \in Row /\ NoRow.present = FALSE /\ NoRow.owner = NoWorker /\ NoRow.lease = "none"
  /\ Ready \in Row /\ Ready.present = TRUE /\ Ready.owner = NoWorker /\ Ready.lease = "none"
  /\ [NoRow EXCEPT !.present = TRUE] \in Row
  /\ [NoRow EXCEPT !.present = TRUE].present = TRUE
  /\ [NoRow EXCEPT !.present = TRUE].owner = NoWorker
  /\ [NoRow EXCEPT !.present = TRUE].lease = "none"
  /\ Idle \in Iteration
<1>1. NoRow \in Row /\ NoRow.present = FALSE /\ NoRow.owner = NoWorker /\ NoRow.lease = "none"
  BY DEF NoRow, Row
<1>2. /\ Ready \in Row /\ Ready.present = TRUE /\ Ready.owner = NoWorker /\ Ready.lease = "none"
      /\ [NoRow EXCEPT !.present = TRUE] \in Row
      /\ [NoRow EXCEPT !.present = TRUE].present = TRUE
      /\ [NoRow EXCEPT !.present = TRUE].owner = NoWorker
      /\ [NoRow EXCEPT !.present = TRUE].lease = "none"
  BY <1>1 DEF Ready, Row
<1>3. /\ [p \in Paths |-> 0] \in [Paths -> 0 .. MaxVersion]
      /\ 0 \in 0 .. MaxGeneration + 1 /\ 0 \in 0 .. Files /\ 0 \in 0 .. Batch
  BY ConstantsAssumption
<1>4. Idle \in Iteration
  BY <1>3 DEF Idle, Iteration
<1> QED
  BY <1>1, <1>2, <1>4

\* What an iteration is after an error, and after its end.
LEMMA FailsType ==
  ASSUME TypeOK, NEW w \in Workers, NEW error \in {"lost", "revoked", "error"}, Fails(w, error)
  PROVE  /\ worker' \in [Workers -> Iteration]
         /\ worker'[w].pc = "failing" /\ worker'[w].error = error /\ Counted(worker'[w])
         /\ \A v \in Workers \ {w} : worker'[v] = worker[v]
  BY WrittenTypes DEF Fails, TypeOK, Idle, Iteration, Counted

LEMMA LeaveType ==
  ASSUME TypeOK, NEW w \in Workers, Leave(w)
  PROVE  /\ worker' \in [Workers -> Iteration]
         /\ worker'[w].pc = "idle" /\ worker'[w].error = "none" /\ Counted(worker'[w])
         /\ \A v \in Workers \ {w} : worker'[v] = worker[v]
  BY WrittenTypes DEF Leave, TypeOK, Idle, Counted

\* An iteration that goes on.
LEMMA MoveType ==
  ASSUME TypeOK, NEW w \in Workers, NEW i \in Iteration, worker' = [worker EXCEPT ![w] = i]
  PROVE  /\ worker' \in [Workers -> Iteration]
         /\ worker'[w] = i
         /\ \A v \in Workers \ {w} : worker'[v] = worker[v]
  BY DEF TypeOK

-----------------------------------------------------------------------------
(* Types, the row and the generation.                                      *)

LEMMA InitScheduled == Init => Scheduled
  BY WrittenTypes, ConstantsAssumption DEF Init, Scheduled, TypeOK, Connection, Idle, Counted

\* A schedule that is stopped, by an administrator or by a worker.
LEMMA StoppedScheduled ==
  ASSUME Scheduled, NEW status \in {"paused", "disconnected"},
         Stopped(status), conn.generation <= MaxGeneration
  PROVE  conn' \in Connection /\ conn'.status = status /\ row' = NoRow
<1>1. conn \in Connection /\ conn.generation + 1 \in 0 .. MaxGeneration + 1
  BY ConstantsAssumption DEF Scheduled, TypeOK, Connection
<1> QED
  BY <1>1 DEF Stopped, Connection

\* Under a live lease the connection is scheduled.
LEMMA HeldIsActive ==
  ASSUME Scheduled, NEW w \in Workers, row.owner = w
  PROVE  row.present /\ conn.status = "active" /\ conn.generation <= MaxGeneration
  BY WrittenTypes, ConstantsAssumption DEF Scheduled, TypeOK

LEMMA RequestScheduled ==
  ASSUME Scheduled,
         \/ \E p \in Paths : Write(p)
         \/ Connect \/ Resume \/ ChangeMember
         \/ \E status \in {"paused", "disconnected"} : Stop(status)
  PROVE  Scheduled'
<1> USE ConstantsAssumption, WrittenTypes DEF Scheduled
<1>1. ASSUME NEW p \in Paths, Write(p) PROVE Scheduled'
  BY <1>1 DEF Write, TypeOK
<1>2. CASE Connect
  <2>1. conn.generation + 1 \in 0 .. MaxGeneration + 1 /\ 0 \in 0 .. Files
    BY <1>2 DEF Connect, TypeOK, Connection
  <2>2. /\ conn' \in Connection /\ conn'.status = "active"
        /\ conn'.generation = conn.generation + 1
    BY <1>2, <2>1 DEF Connect, Connected, Connection
  <2>3. conn.generation + 1 <= MaxGeneration
    BY <1>2 DEF Connect, TypeOK, Connection
  <2> QED
    BY <1>2, <2>2, <2>3 DEF Connect, TypeOK
<1>3. CASE Resume
  <2>1. conn' \in Connection /\ conn'.status = "active" /\ conn'.generation = conn.generation
    BY <1>3 DEF Resume, TypeOK, Connection
  <2>2. /\ row' \in Row /\ row'.present = TRUE
        /\ row'.owner = NoWorker <=> row'.lease = "none"
    <3>1. CASE row.present
      BY <1>3, <3>1 DEF Resume, TypeOK, Row
    <3>2. CASE ~row.present
      BY <1>3, <3>2 DEF Resume
    <3> QED
      BY <3>1, <3>2
  <2> QED
    BY <1>3, <2>1, <2>2 DEF Resume, TypeOK
<1>4. CASE ChangeMember
  BY <1>4 DEF ChangeMember, TypeOK
<1>5. ASSUME NEW status \in {"paused", "disconnected"}, Stop(status) PROVE Scheduled'
  BY <1>5, StoppedScheduled DEF Stop, TypeOK
<1> QED
  BY <1>1, <1>2, <1>3, <1>4, <1>5

\* An iteration that fails or ends changes nothing else of this.
LEMMA RestScheduled ==
  ASSUME Scheduled, NEW w \in Workers,
         Leave(w) \/ \E error \in {"lost", "revoked", "error"} : Fails(w, error),
         UNCHANGED <<disk, conn, row, receipts, member>>, faults' \in 0 .. MaxFaults
  PROVE  Scheduled'
<1>1. /\ worker' \in [Workers -> Iteration]
      /\ \A v \in Workers : worker'[v].pc = "failing" <=> worker'[v].error # "none"
      /\ Counted(worker'[w]) /\ \A v \in Workers \ {w} : worker'[v] = worker[v]
  BY FailsType, LeaveType DEF Scheduled, TypeOK
<1> QED
  BY <1>1 DEF Scheduled, TypeOK

LEMMA ClaimScheduled ==
  ASSUME Scheduled, NEW w \in Workers, Claim(w)
  PROVE  /\ Scheduled' /\ row'.owner = w
         /\ worker'[w].pc = "claimed" /\ \A v \in Workers \ {w} : worker'[v] = worker[v]
<1>1. row' \in Row /\ row'.present = row.present /\ row'.owner = w /\ row'.lease = "live"
  BY DEF Claim, Scheduled, TypeOK, Row
<1>2. /\ worker' \in [Workers -> Iteration]
      /\ \A v \in Workers : worker'[v].pc = "failing" <=> worker'[v].error # "none"
      /\ worker'[w].pc = "claimed" /\ Counted(worker'[w])
      /\ \A v \in Workers \ {w} : worker'[v] = worker[v]
  BY DEF Claim, Scheduled, TypeOK, Iteration, Counted
<1> QED
  BY <1>1, <1>2, ConstantsAssumption DEF Claim, Claimable, Scheduled, TypeOK

\* A batch that begins, scans or reads its next file.
LEMMA AdvanceScheduled ==
  ASSUME Scheduled, NEW w \in Workers, NEW i \in Iteration,
         worker' = [worker EXCEPT ![w] = i], i.pc # "failing", i.error = "none",
         Counted(i),
         UNCHANGED <<disk, conn, row, receipts, member, faults>>
  PROVE  Scheduled'
<1>1. /\ worker' \in [Workers -> Iteration] /\ worker'[w] = i
      /\ \A v \in Workers \ {w} : worker'[v] = worker[v]
  BY MoveType DEF Scheduled
<1> QED
  BY <1>1 DEF Scheduled, TypeOK

-----------------------------------------------------------------------------
(* What a step leaves passed.                                              *)

\* A batch that does not move keeps what it passed, unless its claim is gone.
LEMMA Undisturbed ==
  ASSUME IInv, NEW v \in Workers, worker'[v] = worker[v], receipts \subseteq receipts',
         row'.owner = v => row.owner = v /\ conn'.cursor = conn.cursor
  PROVE  Passed(v)' /\ Fresh(v)'
  BY DEF IInv, Passed, Fresh

\* An iteration outside a batch has passed nothing.
LEMMA Resting ==
  ASSUME NEW v \in Workers, worker'[v].pc \notin {"scanning", "collecting", "importing"}
  PROVE  Passed(v)' /\ Fresh(v)'
  BY DEF Passed, Fresh

LEMMA InitIInv == Init => IInv
  BY InitScheduled DEF Init, IInv, Passed, Fresh, Idle

\* Steps that move no worker.
LEMMA EnvironmentStep ==
  ASSUME IInv,
         \/ \E p \in Paths : Write(p)
         \/ Connect \/ Resume \/ ChangeMember \/ BecomeAvailable \/ Lapse
         \/ \E status \in {"paused", "disconnected"} : Stop(status)
  PROVE  IInv'
<1>1. Scheduled /\ TypeOK /\ NoWorker \notin Workers
  BY ConstantsAssumption DEF IInv, Scheduled
<1>2. Scheduled'
  <2>1. CASE BecomeAvailable
    BY <1>1, <2>1 DEF BecomeAvailable, Scheduled, TypeOK, Row
  <2>2. CASE Lapse
    <3>1. /\ row' \in Row /\ row'.present = row.present
          /\ row'.lease = "lapsed" /\ row'.owner = row.owner
      BY <1>1, <2>2 DEF Lapse, TypeOK, Row
    <3>2. faults' \in 0 .. MaxFaults
      BY <1>1, <2>2, ConstantsAssumption DEF Lapse, Spend, TypeOK
    <3> QED
      BY <1>1, <2>2, <3>1, <3>2, WrittenTypes DEF Lapse, Scheduled, TypeOK
  <2> QED
    BY <1>1, <2>1, <2>2, RequestScheduled
<1>3. worker' = worker /\ receipts' = receipts
  BY DEF Write, Connect, Resume, ChangeMember, BecomeAvailable, Lapse, Stop
<1>4. row'.owner = NoWorker \/ (row'.owner = row.owner /\ conn'.cursor = conn.cursor)
  <2>1. CASE Connect \/ \E status \in {"paused", "disconnected"} : Stop(status)
    BY <2>1, WrittenTypes DEF Connect, Stop, Stopped
  <2>2. CASE Resume
    BY <1>1, <2>2, WrittenTypes DEF Resume, TypeOK, Row, Connection
  <2>3. CASE BecomeAvailable \/ Lapse
    BY <1>1, <2>3 DEF BecomeAvailable, Lapse, TypeOK, Row
  <2> QED
    BY <2>1, <2>2, <2>3 DEF Write, ChangeMember
<1> QED
  BY <1>1, <1>2, <1>3, <1>4, Undisturbed DEF IInv

\* A worker that leaves or fails.
LEMMA RestStep ==
  ASSUME IInv, Scheduled', NEW w \in Workers,
         Leave(w) \/ \E error \in {"lost", "revoked", "error"} : Fails(w, error),
         receipts' = receipts,
         row'.owner = NoWorker \/ (row'.owner = row.owner /\ conn'.cursor = conn.cursor)
  PROVE  IInv'
<1>1. /\ worker'[w].pc \notin {"scanning", "collecting", "importing"}
      /\ \A v \in Workers \ {w} : worker'[v] = worker[v]
  BY FailsType, LeaveType DEF IInv, Scheduled
<1> QED
  BY <1>1, Undisturbed, Resting, ConstantsAssumption DEF IInv

LEMMA BeginStep == ASSUME IInv, NEW w \in Workers, Begin(w) PROVE IInv'
<1>1. Scheduled /\ TypeOK
  BY DEF IInv, Scheduled
<1>2. CASE Fails(w, "lost") \/ Fails(w, "revoked")
  BY <1>1, <1>2, RestScheduled, RestStep DEF Begin, TypeOK
<1>3. CASE worker' = [worker EXCEPT ![w].pc = "scanning", ![w].generation = conn.generation,
                                    ![w].at = conn.cursor]
  <2> DEFINE i == [worker[w] EXCEPT !.pc = "scanning", !.generation = conn.generation,
                                    !.at = conn.cursor]
  <2>1. /\ conn.generation \in 0 .. MaxGeneration + 1 /\ conn.cursor \in 0 .. Files
        /\ worker[w] \in Iteration /\ worker[w].error = "none" /\ worker[w].examined = 0
    BY <1>1 DEF Begin, Scheduled, TypeOK, Connection, Iteration, Counted
  <2>2. /\ i \in Iteration /\ i.pc = "scanning" /\ i.error = "none" /\ i.at = conn.cursor
        /\ Counted(i)
    BY <2>1 DEF Iteration, Counted
  <2>3. worker' = [worker EXCEPT ![w] = i]
    BY <1>3
  <2> HIDE DEF i
  <2>4. /\ worker'[w] = i /\ \A v \in Workers \ {w} : worker'[v] = worker[v]
        /\ UNCHANGED <<disk, conn, row, receipts, member, faults>>
    BY <1>1, <2>2, <2>3, MoveType DEF Begin
  <2>5. Scheduled'
    BY <1>1, <2>2, <2>3, <2>4, AdvanceScheduled
  <2>6. Passed(w)' /\ Fresh(w)'
    BY <2>2, <2>4 DEF Passed, Fresh
  <2> QED
    BY <2>4, <2>5, <2>6, Undisturbed DEF IInv
<1> QED
  BY <1>2, <1>3 DEF Begin

LEMMA ScanStep == ASSUME IInv, NEW w \in Workers, Scan(w) PROVE IInv'
<1> DEFINE i == [worker[w] EXCEPT !.pc = "collecting", !.scan = disk]
<1>1. /\ Scheduled /\ TypeOK /\ worker[w] \in Iteration /\ worker[w].error = "none"
      /\ Fresh(w) /\ conn.cursor \in Nat /\ worker[w].examined = 0
  BY DEF IInv, Scheduled, TypeOK, Scan, Iteration, Connection, Counted
<1>2. /\ i \in Iteration /\ i.pc = "collecting" /\ i.error = "none"
      /\ i.at = worker[w].at /\ Counted(i)
  BY <1>1 DEF Iteration, TypeOK, Counted
<1>3. worker' = [worker EXCEPT ![w] = i]
  BY DEF Scan
<1> HIDE DEF i
<1>4. /\ worker'[w] = i /\ \A v \in Workers \ {w} : worker'[v] = worker[v]
      /\ UNCHANGED <<disk, conn, row, receipts, member, faults>>
  BY <1>1, <1>2, <1>3, MoveType DEF Scan
<1>5. Scheduled'
  BY <1>1, <1>2, <1>3, <1>4, AdvanceScheduled
<1>6. row.owner = w => i.at = conn.cursor
  BY <1>1, <1>2 DEF Scan, Fresh
<1>7. Passed(w)' /\ Fresh(w)'
  BY <1>1, <1>2, <1>4, <1>6 DEF Passed, Fresh, Paths
<1> QED
  BY <1>4, <1>5, <1>7, Undisturbed DEF IInv

\* The next file is the first one of the scan after the last, so none is passed over.
LEMMA ReadStep == ASSUME IInv, NEW w \in Workers, Read(w) PROVE IInv'
<1>1. Scheduled /\ TypeOK /\ worker[w] \in Iteration /\ worker[w].error = "none" /\ Passed(w)
  BY DEF IInv, Scheduled, TypeOK, Read, Iteration
<1>2. PICK p \in Paths :
        /\ IsNext(w, p)
        /\ \/ Fails(w, "error")
           \/ worker' = [worker EXCEPT ![w].pc = "importing", ![w].at = p]
  BY DEF Read
<1>3. CASE Fails(w, "error")
  BY <1>1, <1>3, RestScheduled, RestStep DEF Read, TypeOK
<1>4. CASE worker' = [worker EXCEPT ![w].pc = "importing", ![w].at = p]
  <2> DEFINE i == [worker[w] EXCEPT !.pc = "importing", !.at = p]
  <2>1. /\ i \in Iteration /\ i.pc = "importing" /\ i.error = "none"
        /\ i.at = p /\ i.scan = worker[w].scan /\ i.examined = worker[w].examined
    <3>1. p \in 0 .. Files
      BY ConstantsAssumption DEF Paths
    <3> QED
      BY <1>1, <3>1 DEF Iteration
  <2>2. worker' = [worker EXCEPT ![w] = i]
    BY <1>4
  <2> HIDE DEF i
  <2>3. /\ worker'[w] = i /\ \A v \in Workers \ {w} : worker'[v] = worker[v]
        /\ UNCHANGED <<disk, conn, row, receipts, member, faults>>
    BY <1>1, <2>1, <2>2, MoveType DEF Read
  <2>4. /\ p # 0 /\ worker[w].scan[p] # 0 /\ p > worker[w].at /\ worker[w].at \in Nat
        /\ worker[w].examined < Batch
    BY <1>1, <1>2, ConstantsAssumption
       DEF Read, BatchEnds, IsNext, Remaining, Paths, Iteration
  <2>5. Scheduled'
    BY <1>1, <2>1, <2>2, <2>3, <2>4, AdvanceScheduled DEF Counted
  <2>6. \A q \in Paths : q < p /\ q > worker[w].at => worker[w].scan[q] = 0
    BY <1>2, <2>4 DEF IsNext, Remaining, Paths
  <2>7. Passed(w)'
    <3> SUFFICES ASSUME row.owner = w, NEW q \in Paths, q > conn.cursor, q <= p,
                        worker[w].scan[q] # 0, q # p
                 PROVE  <<q, worker[w].scan[q]>> \in receipts
      BY <2>1, <2>3 DEF Passed
    <3>1. q <= worker[w].at
      BY <2>4, <2>6 DEF Paths
    <3> QED
      BY <1>1, <3>1 DEF Passed, Read
  <2>8. Fresh(w)'
    BY <2>1, <2>3 DEF Fresh
  <2> QED
    BY <2>3, <2>5, <2>7, <2>8, Undisturbed DEF IInv
<1> QED
  BY <1>2, <1>3, <1>4

LEMMA ImportStep == ASSUME IInv, NEW w \in Workers, Import(w) PROVE IInv'
<1>1. /\ Scheduled /\ TypeOK /\ worker[w] \in Iteration /\ worker[w].error = "none"
      /\ Passed(w) /\ worker[w].at # 0 /\ worker[w].scan[worker[w].at] # 0
      /\ worker[w].examined < Batch
  BY DEF IInv, Scheduled, TypeOK, Import, Iteration, Counted
<1>2. CASE UNCHANGED receipts /\ (Fails(w, "lost") \/ Fails(w, "revoked"))
  BY <1>1, <1>2, RestScheduled, RestStep DEF Import, TypeOK
<1>3. CASE /\ receipts' = receipts \cup {<<worker[w].at, worker[w].scan[worker[w].at]>>}
           /\ worker' = [worker EXCEPT ![w].pc = "collecting", ![w].examined = @ + 1]
  <2> DEFINE i == [worker[w] EXCEPT !.pc = "collecting", !.examined = @ + 1]
             receipt == <<worker[w].at, worker[w].scan[worker[w].at]>>
  <2>1. worker[w].examined + 1 \in 0 .. Batch
    BY <1>1, <1>3, ConstantsAssumption DEF Iteration
  <2>2. /\ i \in Iteration /\ i.pc = "collecting" /\ i.error = "none"
        /\ i.at = worker[w].at /\ i.scan = worker[w].scan
    BY <1>1, <2>1 DEF Iteration
  <2>3. worker' = [worker EXCEPT ![w] = i]
    BY <1>3
  <2>4. receipt \in Paths \X Versions
    <3>1. worker[w].at \in Paths
      BY <1>1, ConstantsAssumption DEF Iteration, Paths
    <3>2. worker[w].scan[worker[w].at] \in Versions
      BY <1>1, <3>1, ConstantsAssumption DEF Iteration, Versions
    <3> QED
      BY <3>1, <3>2
  <2> HIDE DEF i
  <2>5. /\ worker'[w] = i /\ worker' \in [Workers -> Iteration]
        /\ \A v \in Workers \ {w} : worker'[v] = worker[v]
        /\ UNCHANGED <<disk, conn, row, member, faults>>
    BY <1>1, <2>2, <2>3, MoveType DEF Import
  <2>6. Scheduled'
    BY <1>1, <1>3, <2>2, <2>4, <2>5 DEF Scheduled, TypeOK, Counted
  <2>7. Passed(w)' /\ Fresh(w)'
    BY <1>1, <1>3, <2>2, <2>5 DEF Import, Passed, Fresh
  <2> QED
    BY <1>3, <2>5, <2>6, <2>7, Undisturbed DEF IInv
<1> QED
  BY <1>2, <1>3 DEF Import

\* The checkpoint.
LEMMA FinishStep == ASSUME IInv, NEW w \in Workers, Finish(w) PROVE IInv'
<1>1. Scheduled /\ TypeOK /\ worker[w] \in Iteration
  BY DEF IInv, Scheduled, TypeOK
<1>2. CASE UNCHANGED <<conn, row>> /\ (Fails(w, "lost") \/ Fails(w, "revoked"))
  BY <1>1, <1>2, RestScheduled, RestStep DEF Finish, TypeOK
<1>3. CASE /\ Current(w) /\ conn' = [conn EXCEPT !.cursor = NewCursor(w)]
           /\ row' = [NoRow EXCEPT !.present = TRUE] /\ Leave(w)
  <2>1. NewCursor(w) \in 0 .. Files
    BY <1>1, ConstantsAssumption DEF NewCursor, Iteration
  <2>2. conn' \in Connection /\ conn'.status = "active" /\ conn'.generation = conn.generation
    BY <1>1, <1>3, <2>1 DEF Current, TypeOK, Connection
  <2>3. /\ worker' \in [Workers -> Iteration]
        /\ worker'[w].pc = "idle" /\ worker'[w].error = "none" /\ Counted(worker'[w])
        /\ \A v \in Workers \ {w} : worker'[v] = worker[v]
    BY <1>1, <1>3, LeaveType
  <2>4. Scheduled'
    BY <1>1, <1>3, <2>2, <2>3, WrittenTypes DEF Finish, Current, Scheduled, TypeOK
  <2> QED
    BY <1>3, <2>4, RestStep, WrittenTypes DEF Finish
<1> QED
  BY <1>2, <1>3 DEF Finish

LEMMA ReleaseStep == ASSUME IInv, NEW w \in Workers, Release(w) PROVE IInv'
<1>1. Scheduled /\ TypeOK
  BY DEF IInv, Scheduled
<1>2. /\ worker' \in [Workers -> Iteration]
      /\ worker'[w].pc = "idle" /\ worker'[w].error = "none" /\ Counted(worker'[w])
      /\ \A v \in Workers \ {w} : worker'[v] = worker[v]
  BY <1>1, LeaveType DEF Release
<1>3. CASE ~Holds(w)
  BY <1>1, <1>3, RestScheduled, RestStep DEF Release, TypeOK
<1>4. CASE Holds(w) /\ Stopped("paused")
  <2>1. conn' \in Connection /\ conn'.status = "paused" /\ row' = NoRow
    BY <1>1, <1>4, HeldIsActive, StoppedScheduled DEF Holds
  <2>2. Scheduled'
    BY <1>1, <1>2, <2>1, WrittenTypes DEF Release, Scheduled, TypeOK
  <2> QED
    BY <2>1, <2>2, RestStep, WrittenTypes DEF Release
<1>5. CASE Holds(w) /\ row' = [NoRow EXCEPT !.present = TRUE] /\ UNCHANGED conn
  <2>1. row.present /\ conn.status = "active" /\ conn.generation <= MaxGeneration
    BY <1>1, <1>5, HeldIsActive DEF Holds
  <2>2. Scheduled'
    BY <1>1, <1>2, <1>5, <2>1, WrittenTypes DEF Release, Scheduled, TypeOK
  <2> QED
    BY <1>5, <2>2, RestStep, WrittenTypes DEF Release
<1> QED
  BY <1>3, <1>4, <1>5 DEF Release

LEMMA NextIInv == IInv /\ [Next]_vars => IInv'
<1> SUFFICES ASSUME IInv, [Next]_vars PROVE IInv'
  OBVIOUS
<1>t. Scheduled /\ TypeOK /\ ConstantsAssumption
  BY ConstantsAssumption DEF IInv, Scheduled
<1>1. CASE UNCHANGED vars
  BY <1>1 DEF vars, IInv, Scheduled, TypeOK, Passed, Fresh
<1>2. ASSUME NEW w \in Workers, Claim(w) PROVE IInv'
  BY <1>t, <1>2, ClaimScheduled, Undisturbed, Resting DEF Claim, IInv
<1>3. ASSUME NEW w \in Workers, Throw(w) \/ Crash(w) PROVE IInv'
  <2>1. faults' \in 0 .. MaxFaults
    BY <1>t, <1>3, ConstantsAssumption DEF Throw, Crash, Spend, TypeOK
  <2> QED
    BY <1>t, <1>3, <2>1, RestScheduled, RestStep DEF Throw, Crash
<1> QED
  BY <1>1, <1>2, <1>3, EnvironmentStep, BeginStep, ScanStep, ReadStep, ImportStep, FinishStep,
     ReleaseStep
     DEF Next, Work

-----------------------------------------------------------------------------
(* The theorems.                                                           *)

\* The strengthened invariant: what a batch has passed under its claim has receipts.
THEOREM Inductive == Spec => []IInv
  BY InitIInv, NextIInv, PTL DEF Spec

\* The connection, its row and the iterations keep their types.
THEOREM TypeInvariant == Spec => []TypeOK
<1>1. IInv => TypeOK
  BY DEF IInv, Scheduled
<1> QED
  BY <1>1, Inductive, PTL

\* A step of one worker leaves the iterations of the others alone.
LEMMA OthersStay ==
  ASSUME TypeOK, NEW w \in Workers, NEW v \in Workers, v # w,
         Claim(v) \/ Work(v) \/ Throw(v) \/ Crash(v)
  PROVE  worker'[w] = worker[w]
  BY DEF TypeOK, Claim, Work, Begin, Scan, Read, Import, Finish, Release, Throw, Crash,
         Leave, Fails

\* The checkpoint of a batch that was current.
LEMMA CheckpointStep ==
  ASSUME IInv, [Next]_vars, NEW w \in Workers,
         worker[w].pc = "collecting", worker'[w].pc = "idle", row' # row,
         NEW p \in Paths, p > conn.cursor, conn'.cursor = 0 \/ p <= conn'.cursor,
         worker[w].scan[p] # 0
  PROVE  <<p, worker[w].scan[p]>> \in receipts
<1>1. TypeOK /\ Passed(w) /\ worker[w].at \in Nat /\ worker[w] \in Iteration
  BY DEF IInv, Scheduled, TypeOK, Iteration
<1>2. Finish(w)
  BY <1>1, OthersStay
     DEF vars, Next, Work, Claim, Begin, Scan, Read, Import, Release, Throw, Crash, Write, Connect,
         Resume, Stop, ChangeMember, BecomeAvailable, Lapse
<1>3. Current(w) /\ conn' = [conn EXCEPT !.cursor = NewCursor(w)]
  BY <1>2 DEF Finish
<1>4. row.owner = w /\ conn'.cursor = NewCursor(w)
  BY <1>1, <1>3 DEF Current, Holds, TypeOK, Connection
<1>5. Remaining(w) # {} => worker[w].at # 0
  BY <1>1, <1>2, ConstantsAssumption
     DEF Finish, BatchEnds, IInv, Scheduled, Counted, Iteration
<1>6. p <= worker[w].at
  BY <1>1, <1>4, <1>5 DEF NewCursor, Remaining, Paths
<1> QED
  BY <1>1, <1>4, <1>6 DEF Passed

\* "A failed run safely resumes from its last committed batch": for any number of workers
\* and files, however claims, leases and reconnects interleave.
THEOREM NoSkips == Spec => CursorNeverSkips
<1>1. IInv /\ [Next]_vars =>
        [\A w \in Workers :
           worker[w].pc = "collecting" /\ worker'[w].pc = "idle" /\ row' # row =>
             \A p \in Paths :
               /\ p > conn.cursor /\ (conn'.cursor = 0 \/ p <= conn'.cursor)
               /\ worker[w].scan[p] # 0
               => <<p, worker[w].scan[p]>> \in receipts]_vars
  BY CheckpointStep
<1> QED
  BY <1>1, Inductive, PTL DEF Spec, CursorNeverSkips

\* Whoever does not hold the claim and the generation changes nothing.
LEMMA CollectorStep ==
  ASSUME IInv, [Next]_vars, NEW w \in Workers, worker'[w] # worker[w],
         worker[w].pc \in {"collecting", "importing", "failing"},
         <<conn, row, receipts>>' # <<conn, row, receipts>>
  PROVE  /\ conn.status = "active" /\ row.owner = w /\ row.lease = "live"
         /\ worker[w].pc # "failing" => conn.generation = worker[w].generation /\ member
<1>1. TypeOK /\ Scheduled
  BY DEF IInv, Scheduled
<1>2. Import(w) \/ Finish(w) \/ Release(w)
  BY <1>1, OthersStay
     DEF vars, Next, Work, Claim, Begin, Scan, Read, Throw, Crash, Write, Connect, Resume, Stop,
         ChangeMember, BecomeAvailable, Lapse
<1>3. CASE Import(w) \/ Finish(w)
  BY <1>3 DEF Import, Finish, Current, Holds
<1>4. CASE Release(w)
  BY <1>1, <1>4, HeldIsActive DEF Release, Holds
<1> QED
  BY <1>2, <1>3, <1>4

\* "Stale workers cannot commit after their lease expires": for any number of workers.
THEOREM StaleCollectors == Spec => StaleCollectorsChangeNothing
<1>1. IInv /\ [Next]_vars =>
        [\A w \in Workers :
           /\ worker'[w] # worker[w] /\ worker[w].pc \in {"collecting", "importing", "failing"}
           /\ <<conn, row, receipts>>' # <<conn, row, receipts>>
           => /\ conn.status = "active" /\ row.owner = w /\ row.lease = "live"
              /\ worker[w].pc # "failing" => conn.generation = worker[w].generation /\ member]_vars
  BY CollectorStep
<1> QED
  BY <1>1, Inductive, PTL DEF Spec, StaleCollectorsChangeNothing
=============================================================================
