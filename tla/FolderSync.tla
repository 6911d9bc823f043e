----------------------------- MODULE FolderSync -----------------------------
(***************************************************************************)
(* Collection of one intake directory: its files, the connection           *)
(* (app_folder_connections), its queue row (app_folder_queue), the         *)
(* receipts of what was imported (app_folder_receipts), the administrators *)
(* who connect, pause, resume and disconnect it, and the folder workers.   *)
(*                                                                         *)
(* A file is its place in the order of paths, its content a version.  The  *)
(* original and the extraction job of a file are inserted by the           *)
(* transaction that inserts its receipt, which stands for the three.  The  *)
(* owner of a claim is a fresh UUID; a worker has one claim at a time and  *)
(* forgets it, so the worker stands for it.                                *)
(***************************************************************************)
EXTENDS Naturals, Functions

CONSTANTS
  Workers,        \* folder worker processes
  NoWorker,       \* SQL NULL of lease_owner
  Files,          \* number of paths
  MaxVersion,     \* bound on the versions of a file
  MaxWrites,      \* bound on the files written
  Batch,          \* files examined per claim: at most 32 in the code, fewer if they are large
  MaxGeneration,  \* bound on connects, pauses and disconnects of the administrators
  MaxFaults       \* bound on crashes, stalls, aborts and failed transactions

ASSUME ConstantsAssumption ==
  /\ NoWorker \notin Workers
  /\ Files \in Nat \ {0} /\ MaxVersion \in Nat \ {0} /\ MaxWrites \in Nat /\ Batch \in Nat \ {0}
  /\ MaxGeneration \in Nat /\ MaxFaults \in Nat

VARIABLES
  disk,      \* the version of each file in the directory, 0 if there is none
  conn,      \* the connection; cursor is cursorAfter, 0 for null
  row,       \* its queue row, if present
  receipts,  \* the versions of files that have a receipt
  member,    \* whether the connecting administrator still is one
  worker,    \* the iteration each worker process is in
  faults     \* faults spent

vars == <<disk, conn, row, receipts, member, worker, faults>>

Paths == 1 .. Files
Versions == 1 .. MaxVersion

Connection == [status : {"none", "active", "paused", "disconnected"},
               generation : 0 .. MaxGeneration + 1, cursor : 0 .. Files]
Row == [present : BOOLEAN, available : BOOLEAN, owner : Workers \cup {NoWorker},
        lease : {"none", "live", "lapsed"}]
NoRow == [present |-> FALSE, available |-> FALSE, owner |-> NoWorker, lease |-> "none"]
\* at is the last file examined, from the cursor the batch started at.
Iteration == [pc : {"idle", "claimed", "scanning", "collecting", "importing", "failing"},
              generation : 0 .. MaxGeneration + 1, at : 0 .. Files, examined : 0 .. Batch,
              scan : [Paths -> 0 .. MaxVersion], error : {"none", "lost", "revoked", "error"}]
Idle == [pc |-> "idle", generation |-> 0, at |-> 0, examined |-> 0,
         scan |-> [p \in Paths |-> 0], error |-> "none"]

TypeOK ==
  /\ disk \in [Paths -> 0 .. MaxVersion]
  /\ conn \in Connection /\ row \in Row
  /\ row.owner = NoWorker <=> row.lease = "none"
  /\ row.present <=> conn.status = "active"
  /\ receipts \subseteq Paths \X Versions
  /\ member \in BOOLEAN
  /\ worker \in [Workers -> Iteration]
  /\ \A w \in Workers : worker[w].pc = "failing" <=> worker[w].error # "none"
  /\ faults \in 0 .. MaxFaults

Init ==
  /\ disk = [p \in Paths |-> 0]
  /\ conn = [status |-> "none", generation |-> 0, cursor |-> 0]
  /\ row = NoRow
  /\ receipts = {} /\ member = TRUE
  /\ worker = [w \in Workers |-> Idle]
  /\ faults = 0

Spend == faults < MaxFaults /\ faults' = faults + 1

-----------------------------------------------------------------------------
(* The directory and the administrators.                                   *)

\* Writes so far.
Written == FoldFunction(+, 0, disk)

\* A file is created or changed; size and modification time tell versions apart.
Write(p) ==
  /\ disk[p] < MaxVersion /\ Written < MaxWrites
  /\ disk' = [disk EXCEPT ![p] = @ + 1]
  /\ UNCHANGED <<conn, row, receipts, member, worker, faults>>

Ready == [NoRow EXCEPT !.present = TRUE, !.available = TRUE]

\* connectFolderInTransaction: an active connection is left alone; the connecting
\* administrator takes the connection over.
Connected == [status |-> "active", generation |-> conn.generation + 1, cursor |-> 0]

Connect ==
  /\ conn.status # "active" /\ conn.generation < MaxGeneration
  /\ conn' = Connected
  /\ row' = Ready /\ member' = TRUE
  /\ UNCHANGED <<disk, receipts, worker, faults>>

\* updateFolderConnection: sync, retry (active only) and resume keep the generation, and a
\* live claim keeps its lease.
Resume ==
  /\ conn.status \in {"active", "paused"} /\ conn.generation <= MaxGeneration
  /\ conn' = [conn EXCEPT !.status = "active"]
  /\ row' = IF row.present THEN [row EXCEPT !.available = TRUE] ELSE Ready
  /\ UNCHANGED <<disk, receipts, member, worker, faults>>

\* Pause, disconnect and a revoked membership end the schedule and every claim.
Stopped(status) ==
  /\ conn' = [conn EXCEPT !.status = status, !.generation = @ + 1]
  /\ row' = NoRow

Stop(status) ==
  /\ conn.status # "none" /\ conn.generation <= MaxGeneration
  /\ Stopped(status)
  /\ UNCHANGED <<disk, receipts, member, worker, faults>>

\* The connecting administrator loses the role, or gets it back.
ChangeMember ==
  /\ conn.status # "none" /\ member' = ~member
  /\ UNCHANGED <<disk, conn, row, receipts, worker, faults>>

-----------------------------------------------------------------------------
(* A worker.                                                               *)

Leave(w) == worker' = [worker EXCEPT ![w] = Idle]
Fails(w, error) == worker' = [worker EXCEPT ![w] = [Idle EXCEPT !.pc = "failing", !.error = error]]

\* Faulty variant: a claim under a lease that has lapsed is never taken over.
ClaimableUnleased == row.present /\ row.available /\ row.lease = "none"
\* claim_folder_connection.
Claimable == row.present /\ row.available /\ row.lease # "live"

Claim(w) ==
  /\ worker[w].pc = "idle" /\ Claimable
  /\ row' = [row EXCEPT !.owner = w, !.lease = "live"]
  /\ worker' = [worker EXCEPT ![w].pc = "claimed"]
  /\ UNCHANGED <<disk, conn, receipts, member, faults>>

\* Faulty variant: the connection is checked, not the claim.
HoldsByStatus(w) == conn.status = "active"
Holds(w) == row.owner = w /\ row.lease = "live"
\* assertClaim, apart from the membership.
Current(w) == conn.status = "active" /\ Holds(w) /\ conn.generation = worker[w].generation

\* The first assertClaim tests no generation, and reads it with the cursor.
Begin(w) ==
  /\ worker[w].pc = "claimed"
  /\ IF ~(conn.status = "active" /\ Holds(w)) THEN Fails(w, "lost")
     ELSE IF ~member THEN Fails(w, "revoked")
     ELSE worker' = [worker EXCEPT ![w].pc = "scanning", ![w].generation = conn.generation,
                                   ![w].at = conn.cursor]
  /\ UNCHANGED <<disk, conn, row, receipts, member, faults>>

\* scanFolderFiles.
Scan(w) ==
  /\ worker[w].pc = "scanning"
  /\ worker' = [worker EXCEPT ![w].pc = "collecting", ![w].scan = disk]
  /\ UNCHANGED <<disk, conn, row, receipts, member, faults>>

Remaining(w) == {p \in Paths : p > worker[w].at /\ worker[w].scan[p] # 0}
BatchEnds(w) == worker[w].examined >= Batch \/ Remaining(w) = {}
IsNext(w, p) == p \in Remaining(w) /\ \A q \in Remaining(w) : p <= q

\* readFolderFile refuses a file that is not the one that was scanned.
Read(w) ==
  /\ worker[w].pc = "collecting" /\ ~BatchEnds(w)
  /\ \E p \in Paths :
       /\ IsNext(w, p)
       /\ IF disk[p] = worker[w].scan[p]
            THEN worker' = [worker EXCEPT ![w].pc = "importing", ![w].at = p]
            ELSE Fails(w, "error")
  /\ UNCHANGED <<disk, conn, row, receipts, member, faults>>

\* importFolderFile; a receipt that is there already is left alone.
Import(w) ==
  /\ worker[w].pc = "importing"
  /\ IF ~Current(w) THEN Fails(w, "lost") /\ UNCHANGED receipts
     ELSE IF ~member THEN Fails(w, "revoked") /\ UNCHANGED receipts
     ELSE /\ receipts' = receipts \cup {<<worker[w].at, worker[w].scan[worker[w].at]>>}
          /\ worker' = [worker EXCEPT ![w].pc = "collecting", ![w].examined = @ + 1]
  /\ UNCHANGED <<disk, conn, row, member, faults>>

\* Faulty variant: a batch that stopped early starts over.
CursorReset(w) == 0
\* null when the batch reached the end of the scan, the last file examined otherwise.
NewCursor(w) == IF Remaining(w) = {} THEN 0 ELSE worker[w].at

\* The checkpoint and the end of the claim, in one transaction.
Finish(w) ==
  /\ worker[w].pc = "collecting" /\ BatchEnds(w)
  /\ IF ~Current(w) THEN Fails(w, "lost") /\ UNCHANGED <<conn, row>>
     ELSE IF ~member THEN Fails(w, "revoked") /\ UNCHANGED <<conn, row>>
     ELSE /\ conn' = [conn EXCEPT !.cursor = NewCursor(w)]
          /\ row' = [NoRow EXCEPT !.present = TRUE]
          /\ Leave(w)
  /\ UNCHANGED <<disk, receipts, member, faults>>

\* releaseFolderClaim, under the lease only; every other error delays the next claim.
Release(w) ==
  /\ worker[w].pc = "failing"
  /\ IF ~Holds(w) THEN UNCHANGED <<conn, row>>
     ELSE IF worker[w].error = "revoked"
       THEN Stopped("paused")
     ELSE row' = [NoRow EXCEPT !.present = TRUE] /\ UNCHANGED conn
  /\ Leave(w)
  /\ UNCHANGED <<disk, receipts, member, faults>>

-----------------------------------------------------------------------------
(* Time and faults.                                                        *)

BecomeAvailable ==
  /\ row.present /\ ~row.available
  /\ row' = [row EXCEPT !.available = TRUE]
  /\ UNCHANGED <<disk, conn, receipts, member, worker, faults>>

\* A lease ends when nobody renews it; under its worker, which renews every 10 s, that is
\* a stall.
Attended == \E w \in Workers : row.owner = w /\ worker[w].pc # "idle"
Lapse ==
  /\ row.lease = "live"
  /\ IF Attended THEN Spend ELSE UNCHANGED faults
  /\ row' = [row EXCEPT !.lease = "lapsed"]
  /\ UNCHANGED <<disk, conn, receipts, member, worker>>

\* A stop signal or a lost admission aborts the batch, or the scan, a read or a
\* transaction fails.
Throw(w) ==
  /\ worker[w].pc \notin {"idle", "failing"} /\ Spend
  /\ \E error \in {"lost", "error"} : Fails(w, error)
  /\ UNCHANGED <<disk, conn, row, receipts, member>>

Crash(w) ==
  /\ worker[w].pc # "idle" /\ Spend
  /\ Leave(w)
  /\ UNCHANGED <<disk, conn, row, receipts, member>>

-----------------------------------------------------------------------------
Work(w) == Begin(w) \/ Scan(w) \/ Read(w) \/ Import(w) \/ Finish(w) \/ Release(w)

Next ==
  \/ \E p \in Paths : Write(p)
  \/ Connect \/ Resume \/ \E status \in {"paused", "disconnected"} : Stop(status)
  \/ ChangeMember \/ BecomeAvailable \/ Lapse
  \/ \E w \in Workers : Claim(w) \/ Work(w) \/ Throw(w) \/ Crash(w)

Spec == Init /\ [][Next]_vars

(* The worker loop runs and polls; delays and unattended leases end by the *)
(* clock.                                                                  *)
Fairness ==
  /\ \A w \in Workers : WF_vars(Work(w))
  /\ WF_vars(\E w \in Workers : Claim(w))
  /\ WF_vars(BecomeAvailable) /\ WF_vars(~Attended /\ Lapse)
LiveSpec == Spec /\ Fairness

-----------------------------------------------------------------------------
(* What must hold.                                                         *)

\* "A failed run safely resumes from its last committed batch": a checkpoint moves the
\* cursor of the connection only past files whose version, as this batch scanned them, has
\* a receipt, whoever reconnected, paused or took the claim over in the meantime.
CursorNeverSkips ==
  [][\A w \in Workers :
       worker[w].pc = "collecting" /\ worker'[w].pc = "idle" /\ row' # row =>
         \A p \in Paths :
           /\ p > conn.cursor /\ (conn'.cursor = 0 \/ p <= conn'.cursor)
           /\ worker[w].scan[p] # 0
           => <<p, worker[w].scan[p]>> \in receipts]_vars

\* "Pause/disconnect change the generation and remove scheduling", "Stale workers cannot
\* commit after their lease expires": receipts, cursor and schedule are changed by a worker
\* only while its own claim is live on an active connection of the generation it read.
StaleCollectorsChangeNothing ==
  [][\A w \in Workers :
       /\ worker'[w] # worker[w] /\ worker[w].pc \in {"collecting", "importing", "failing"}
       /\ <<conn, row, receipts>>' # <<conn, row, receipts>>
       => /\ conn.status = "active" /\ row.owner = w /\ row.lease = "live"
          /\ worker[w].pc # "failing" => conn.generation = worker[w].generation /\ member]_vars

\* "Each path/content version has a durable encrypted receipt": a version that stays in the
\* directory of a connection that stays active gets its receipt, once faults cease.
FilesAreCollected ==
  \A p \in Paths, v \in Versions :
    conn.status = "active" /\ disk[p] = v
      ~> <<p, v>> \in receipts \/ disk[p] # v \/ conn.status # "active" \/ ~member
=============================================================================
