------------------------ MODULE ApplianceUpdateProofs ------------------------
(***************************************************************************)
(* Proofs about ApplianceUpdate for any releases and schema versions, and  *)
(* any number of operations, writes and interruptions.                     *)
(***************************************************************************)
EXTENDS ApplianceUpdate, TLAPS

-----------------------------------------------------------------------------
(* The inductive invariant.                                                *)

USE DEF host

\* Writes are open to a running release that reads the schema only; a complete journal
\* means an open database and a true record; nothing works in maintenance.
Served ==
  /\ db.mode = "open" => Reads(db.active) /\ fleet = IF stopped THEN 0 ELSE db.active
  /\ journal.complete =>
       db.mode = "open" /\ installed = [release |-> db.active, generation |-> db.generation]
  /\ db.mode = "maintenance" => ~busy

\* An update has a number and a candidate; a closed database, and a pinned backup, have the
\* receipt of the drain they began with.
Journaled ==
  /\ journal.operation = "update" => journal.id \in Operations /\ journal.candidate \in Release
  /\ db.mode # "open" \/ journal.backup # 0 =>
       journal.id \in Operations /\ drains[journal.id] # 0

\* Every operation activates once.
Numbered ==
  /\ db.generation <= journal.id + 1
  /\ journal.operation = "update" /\ ~journal.complete /\ db.active # journal.candidate =>
       db.generation <= journal.id

\* A pinned backup holds every write until the database is open again.
Pinned ==
  journal.backup # 0 /\ db.mode # "open" =>
    db.mode = "maintenance" /\ journal.backup = data + 1 /\ artifact = data + 1

\* The controller's copy is the journal, but for a backup that has not begun to drain and
\* for the hash of a backup that is about to be pinned.
Carried ==
  /\ ctl.command = "backup" => ~ctl.j.complete /\ ctl.j.backup = 0 /\ ctl.j.operation = "backup"
  /\ ctl.command = "update" =>
       ctl.j.operation = "update" /\ ~journal.complete /\ ~ctl.j.complete
  /\ IF ctl.command = "backup" /\ ctl.pc \in {"look", "drain"}
       THEN journal.complete /\ ctl.j.id = journal.id + 1
       ELSE ctl.pc # "idle" =>
              /\ ctl.j.id = journal.id /\ ctl.j.operation = journal.operation
              /\ ctl.j.candidate = journal.candidate /\ ctl.j.complete = journal.complete
              /\ ctl.pc # "pin" => ctl.j.backup = journal.backup

UpdateSteps == {"reconcile", "pin", "down", "migrate", "activate", "install"}
SealedSteps == {"backup", "link", "pin", "down", "migrate", "activate", "install", "open"}

\* Which commands come to a step, and how they find the database.
Reached ==
  /\ ctl.pc \in SealedSteps => db.mode = "maintenance"
  /\ ctl.pc \in UpdateSteps => ctl.command = "update"
  /\ ctl.pc \in {"backup", "link"} => ctl.command \in {"update", "backup"}
  /\ ctl.pc = "drain" /\ ctl.command = "resume" => db.mode = "draining"
  /\ ctl.pc = "choose" => ctl.command = "resume" /\ db.mode # "draining"
  /\ ctl.pc = "start" => db.mode = "maintenance" \/ (db.mode = "open" /\ ctl.command = "resume")
  /\ ctl.pc \in {"reconcile", "record", "complete"} => db.mode = "open"
  /\ ctl.pc = "record" => ctl.command \in {"update", "resume"}

\* What a command has established about the release it is going to open.
Prepared ==
  /\ ctl.command = "backup" =>
       Reads(db.active) /\ installed = [release |-> db.active, generation |-> db.generation]
  /\ ctl.command = "update" /\ ctl.pc \notin {"look", "reconcile", "record", "complete"} =>
       db.schema <= Target[ctl.j.candidate]
  /\ ctl.command = "update" /\ ctl.pc \in {"activate", "install", "start", "open"} =>
       db.schema = Target[ctl.j.candidate]
  /\ ctl.command = "update" /\ ctl.pc \in {"reconcile", "install", "start", "open", "record"} =>
       db.active = ctl.j.candidate
  /\ ctl.command = "update" /\ ctl.pc \in {"start", "open"} => installed = Started
  /\ ctl.command = "resume" /\ ctl.pc \in {"start", "open"} => Reads(db.active)
  /\ ctl.pc = "open" => fleet = Started.release /\ ~stopped
  /\ ctl.pc = "complete" =>
       installed = [release |-> db.active, generation |-> db.generation]

\* What the backup holds on its way into the journal.
Exported ==
  /\ ctl.pc = "link" => ctl.dump = data + 1 /\ ctl.j.backup = 0
  /\ ctl.pc = "pin" => ctl.j.backup = data + 1 /\ artifact = data + 1
  /\ ctl.pc \in {"down", "migrate", "activate"} => journal.backup # 0

IInv ==
  TypeOK /\ Served /\ Journaled /\ Numbered /\ Pinned /\ Carried /\ Reached /\ Prepared /\ Exported

-----------------------------------------------------------------------------
(* What the actions write.                                                 *)

LEMMA SchemaNumbers ==
  /\ \A v \in Schemas : v \in Nat /\ v >= 1
  /\ \A r \in Release, v \in Nat : v >= 1 /\ v <= Target[r] => v \in Schemas
  /\ \A r \in Release : /\ Target[r] \in Nat /\ Target[r] \in Schemas
                         /\ MinSchema[r] \in Nat /\ MaxSchema[r] \in Nat
                         /\ MinSchema[r] <= Target[r] /\ Target[r] <= MaxSchema[r]
<1>1. \A r \in Release : /\ Target[r] \in Nat \ {0}
                          /\ MinSchema[r] \in Nat \ {0} /\ MaxSchema[r] \in Nat
                          /\ MinSchema[r] <= Target[r] /\ Target[r] <= MaxSchema[r]
  BY ConstantsAssumption DEF Release
<1>2. \A v : v \in Schemas <=> \E r \in Release : v \in 1 .. Target[r]
  BY DEF Schemas
<1> QED
  BY <1>1, <1>2

LEMMA IdleType ==
  /\ Idle \in Process /\ Idle.command = "none" /\ Idle.pc = "idle"
  /\ NoJournal \in Journal
<1>1. NoJournal \in Journal
  BY ConstantsAssumption DEF NoJournal, Journal, Backups
<1> QED
  BY <1>1, ConstantsAssumption DEF Idle, Process, Steps, Backups

LEMMA GotoType ==
  ASSUME TypeOK, NEW step \in Steps \ {"idle"}, ctl.pc # "idle", Goto(step)
  PROVE  /\ ctl' \in Process /\ ctl'.pc = step /\ ctl'.command = ctl.command
         /\ ctl'.j = ctl.j /\ ctl'.dump = ctl.dump
         /\ ctl'.command # "none"
  BY DEF TypeOK, Goto, Process

LEMMA InitIInv == Init => IInv
<1> SUFFICES ASSUME Init PROVE IInv
  OBVIOUS
<1>0. /\ 1 \in Release /\ 1 \in Generations /\ Target[1] \in Schemas
      /\ 1 \in 0 .. Releases /\ 0 \in 0 .. MaxData /\ 0 \in 0 .. MaxKills /\ 0 \in Backups
  BY SchemaNumbers, ConstantsAssumption DEF Release, Generations, Backups
<1>1. TypeOK
  <2>1. db \in Control
    BY <1>0 DEF Init, Control
  <2>4. drains \in [Operations -> {0} \cup Generations]
    BY DEF Init
  <2>2. /\ data \in 0 .. MaxData /\ busy \in BOOLEAN /\ fleet \in 0 .. Releases
        /\ artifact \in Backups /\ kills \in 0 .. MaxKills
        /\ server \in BOOLEAN /\ stopped \in BOOLEAN
    BY <1>0 DEF Init
  <2>3. /\ journal \in Journal /\ ctl \in Process /\ (ctl.pc = "idle" <=> ctl.command = "none")
        /\ installed \in [release : Release, generation : Generations]
    BY <1>0, IdleType DEF Init
  <2> QED
    BY <2>1, <2>2, <2>3, <2>4 DEF TypeOK
<1> QED
  BY <1>1, IdleType, SchemaNumbers, ConstantsAssumption
     DEF Init, IInv, Served, Journaled, Numbered, Pinned, Carried, Reached, Prepared, Exported,
         UpdateSteps, SealedSteps, Reads, Release, NoJournal, Idle

\* A command that ends where it stands.
LEMMA StopStep ==
  ASSUME IInv, Stop, kills' \in 0 .. MaxKills, server' \in BOOLEAN,
         UNCHANGED <<db, drains, data, busy, fleet, stopped, journal, installed, artifact>>
  PROVE  IInv'
<1>1. TypeOK'
  BY IdleType DEF IInv, TypeOK, Stop
<1>2. (Served /\ Journaled /\ Numbered /\ Pinned)'
  BY DEF IInv, Served, Journaled, Numbered, Pinned, Reads
<1>3. (Carried /\ Reached /\ Prepared /\ Exported)'
  BY IdleType DEF Stop, Carried, Reached, Prepared, Exported, UpdateSteps, SealedSteps
<1> QED
  BY <1>1, <1>2, <1>3 DEF IInv

\* A command that goes on with nothing changed.
LEMMA GoStep ==
  ASSUME IInv, NEW step \in Steps \ {"idle"}, ctl.pc # "idle", Goto(step),
         server' \in BOOLEAN,
         UNCHANGED <<db, drains, data, busy, fleet, stopped, journal, installed, artifact, kills>>,
         Reached', Prepared', Exported', Carried'
  PROVE  IInv'
<1>1. TypeOK'
  BY GotoType DEF IInv, TypeOK
<1>2. (Served /\ Journaled /\ Numbered /\ Pinned)'
  BY DEF IInv, Served, Journaled, Numbered, Pinned, Reads
<1> QED
  BY <1>1, <1>2 DEF IInv

-----------------------------------------------------------------------------
(* The offices and the beginnings of commands.                             *)

LEMMA OfficeStep ==
  ASSUME IInv, BeginWork \/ Write \/ EndWork
  PROVE  IInv'
<1>1. UNCHANGED <<db, drains, host, journal, installed, artifact, ctl, kills>>
  BY DEF BeginWork, Write, EndWork
<1>2. busy' \in BOOLEAN /\ (db.mode = "maintenance" => ~busy')
  BY DEF BeginWork, Write, EndWork, IInv, TypeOK, Served
<1>3. data' \in 0 .. MaxData /\ (db.mode = "maintenance" => data' = data)
  BY ConstantsAssumption DEF BeginWork, Write, EndWork, IInv, TypeOK, Served
<1>4. TypeOK'
  BY <1>1, <1>2, <1>3 DEF IInv, TypeOK
<1>5. (Served /\ Journaled /\ Numbered /\ Pinned)'
  BY <1>1, <1>2, <1>3 DEF IInv, Served, Journaled, Numbered, Pinned, Reads
<1>6. (Carried /\ Reached)'
  BY <1>1 DEF IInv, Carried, Reached, UpdateSteps, SealedSteps
<1>7. (Prepared /\ Exported)'
  BY <1>1, <1>3 DEF IInv, Prepared, Exported, Started, Reads, Reached, SealedSteps
<1> QED
  BY <1>4, <1>5, <1>6, <1>7 DEF IInv

\* A new operation has the next number, and begins on an open database.
LEMMA FreshJournal ==
  ASSUME IInv, MayBegin, NEW operation \in {"update", "backup"}, NEW candidate \in 0 .. Releases
  PROVE  /\ Fresh(operation, candidate) \in Journal
         /\ journal.id + 1 \in Operations
         /\ db.mode = "open" /\ journal.complete
         /\ installed = [release |-> db.active, generation |-> db.generation]
<1>1. journal.id \in 0 .. MaxOperations /\ journal.id + 1 \in 0 .. MaxOperations
      /\ journal.id + 1 \in Operations
  BY ConstantsAssumption DEF IInv, TypeOK, Journal, MayBegin, Begun, Operations
<1>2. installed.release \in 0 .. Releases
  BY DEF IInv, TypeOK, Release
<1>3. Fresh(operation, candidate) \in Journal
  BY <1>1, <1>2, ConstantsAssumption DEF Fresh, Begun, Journal, Backups
<1> QED
  BY <1>1, <1>3 DEF MayBegin, IInv, Served

LEMMA RunType ==
  ASSUME NEW command \in {"update", "backup", "resume"}, NEW j \in Journal, Run(command, j)
  PROVE  /\ ctl' \in Process /\ ctl'.pc = "look" /\ ctl'.command = command /\ ctl'.j = j
  BY ConstantsAssumption DEF Run, Process, Steps, Backups

LEMMA StartUpdateStep ==
  ASSUME IInv, NEW next \in Release, StartUpdate(next)
  PROVE  IInv'
<1> DEFINE j == Fresh("update", next)
<1>1. /\ j \in Journal /\ journal.id + 1 \in Operations /\ db.mode = "open" /\ journal.complete
      /\ installed = [release |-> db.active, generation |-> db.generation]
  BY FreshJournal, ConstantsAssumption DEF StartUpdate, Release
<1>2. /\ journal' = j /\ artifact' = 0
      /\ UNCHANGED <<db, drains, data, busy, host, installed, kills>>
      /\ ctl' \in Process /\ ctl'.pc = "look" /\ ctl'.command = "update" /\ ctl'.j = j
  BY <1>1, RunType DEF StartUpdate
<1>3. /\ j.operation = "update" /\ j.complete = FALSE /\ j.id = journal.id + 1
      /\ j.candidate = next /\ j.backup = 0
  BY DEF Fresh, Begun
<1> HIDE DEF j
<1>4. TypeOK'
  BY <1>1, <1>2, ConstantsAssumption DEF IInv, TypeOK, Backups
<1>5. (Served /\ Journaled /\ Pinned)'
  BY <1>1, <1>2, <1>3 DEF IInv, Served, Journaled, Pinned, Reads
<1>6. Numbered'
  BY <1>1, <1>2, <1>3 DEF IInv, Numbered, TypeOK, Journal, Control, Generations
<1>7. (Carried /\ Reached /\ Prepared /\ Exported)'
  BY <1>2, <1>3 DEF Carried, Reached, Prepared, Exported, UpdateSteps, SealedSteps
<1> QED
  BY <1>4, <1>5, <1>6, <1>7 DEF IInv

LEMMA StartBackupStep ==
  ASSUME IInv, StartBackup
  PROVE  IInv'
<1> DEFINE j == Fresh("backup", 0)
<1>1. /\ j \in Journal /\ journal.id + 1 \in Operations /\ db.mode = "open" /\ journal.complete
      /\ installed = [release |-> db.active, generation |-> db.generation]
  BY FreshJournal, ConstantsAssumption DEF StartBackup
<1>2. /\ artifact' = 0
      /\ UNCHANGED <<db, drains, data, busy, host, journal, installed, kills>>
      /\ ctl' \in Process /\ ctl'.pc = "look" /\ ctl'.command = "backup" /\ ctl'.j = j
  BY <1>1, RunType DEF StartBackup
<1>3. j.operation = "backup" /\ j.complete = FALSE /\ j.id = journal.id + 1 /\ j.backup = 0
  BY DEF Fresh, Begun
<1> HIDE DEF j
<1>4. TypeOK'
  BY <1>1, <1>2, ConstantsAssumption DEF IInv, TypeOK, Backups
<1>5. (Served /\ Journaled /\ Numbered /\ Pinned)'
  BY <1>1, <1>2 DEF IInv, Served, Journaled, Numbered, Pinned, Reads
<1>6. (Carried /\ Reached /\ Prepared /\ Exported)'
  BY <1>1, <1>2, <1>3
     DEF IInv, Served, Carried, Reached, Prepared, Exported, UpdateSteps, SealedSteps, Reads
<1> QED
  BY <1>4, <1>5, <1>6 DEF IInv

\* The operator's stop leaves the database and the journal as they are.
LEMMA StopFleetStep ==
  ASSUME IInv, StopFleet
  PROVE  IInv'
<1>1. /\ UNCHANGED <<db, drains, data, busy, journal, installed, artifact, ctl, kills>>
      /\ ctl.pc = "idle" /\ fleet' = 0 /\ stopped' = TRUE /\ server' \in BOOLEAN
  BY DEF StopFleet, IInv, TypeOK
<1>2. TypeOK'
  BY <1>1, ConstantsAssumption DEF IInv, TypeOK
<1>3. (Served /\ Journaled /\ Numbered /\ Pinned)'
  BY <1>1 DEF IInv, Served, Journaled, Numbered, Pinned, Reads
<1>4. (Carried /\ Reached /\ Exported)'
  BY <1>1 DEF IInv, Carried, Reached, Exported, UpdateSteps, SealedSteps
<1>5. Prepared'
  BY <1>1 DEF IInv, Prepared, Started, Reads
<1> QED
  BY <1>2, <1>3, <1>4, <1>5 DEF IInv

LEMMA AgainStep ==
  ASSUME IInv, StartResume \/ \E output \in BOOLEAN : ContinueUpdate(output)
  PROVE  IInv'
<1>1. /\ UNCHANGED <<db, drains, data, busy, host, journal, installed, kills>>
      /\ artifact' = artifact \/ (artifact' = 0 /\ journal.backup = 0)
  BY DEF StartResume, ContinueUpdate
<1>2. /\ ctl' \in Process /\ ctl'.pc = "look" /\ ctl'.j = journal
      /\ \/ ctl'.command = "resume"
         \/ ctl'.command = "update" /\ journal.operation = "update" /\ ~journal.complete
  BY RunType DEF StartResume, ContinueUpdate, IInv, TypeOK
<1>3. TypeOK'
  BY <1>1, <1>2, ConstantsAssumption DEF IInv, TypeOK, Backups
<1>4. (Served /\ Journaled /\ Numbered /\ Pinned)'
  BY <1>1 DEF IInv, Served, Journaled, Numbered, Pinned, Reads
<1>5. (Carried /\ Reached /\ Prepared /\ Exported)'
  BY <1>1, <1>2 DEF Carried, Reached, Prepared, Exported, UpdateSteps, SealedSteps
<1> QED
  BY <1>3, <1>4, <1>5 DEF IInv
-----------------------------------------------------------------------------
(* The steps of the commands.                                              *)

LEMMA LookStep ==
  ASSUME IInv, Look
  PROVE  IInv'
<1>1. /\ UNCHANGED <<db, drains, data, busy, fleet, stopped, journal, installed, artifact, kills>>
      /\ server' \in BOOLEAN
      /\ ctl.pc = "look" /\ ctl.command \in {"update", "backup", "resume"}
  BY DEF Look, At, IInv, TypeOK, Process
<1>2. CASE Stop
  BY <1>1, <1>2, StopStep DEF IInv, TypeOK
<1>3. CASE ctl.command = "resume"
  <2>1. PICK step \in {"drain", "choose"} :
          Goto(step) /\ (step = "drain" <=> db.mode = "draining")
    BY <1>1, <1>3 DEF Look
  <2>2. /\ ctl'.pc = step /\ ctl'.command = "resume" /\ ctl'.j = ctl.j
    BY <1>1, <1>3, <2>1, GotoType DEF IInv, Steps
  <2>3. (Carried /\ Reached /\ Prepared /\ Exported)'
    BY <1>1, <1>3, <2>1, <2>2
       DEF IInv, Carried, Reached, Prepared, Exported, UpdateSteps, SealedSteps
  <2> QED
    BY <1>1, <2>1, <2>3, GoStep DEF Steps
<1>4. CASE ctl.command = "backup" /\ ~Stop
  <2>1. db.mode = "open" /\ Goto("drain")
    BY <1>1, <1>4 DEF Look, IInv, Carried, Served
  <2>2. /\ ctl'.pc = "drain" /\ ctl'.command = "backup" /\ ctl'.j = ctl.j
    BY <1>1, <1>4, <2>1, GotoType DEF IInv, Steps
  <2>3. (Carried /\ Reached /\ Prepared /\ Exported)'
    BY <1>1, <1>4, <2>1, <2>2
       DEF IInv, Carried, Reached, Prepared, Exported, UpdateSteps, SealedSteps, Reads
  <2> QED
    BY <1>1, <2>1, <2>3, GoStep DEF Steps
<1>5. CASE ctl.command = "update" /\ ~Stop
  <2>1. PICK step \in {"reconcile", "backup", "drain"} :
          /\ Goto(step)
          /\ step = "reconcile" => db.mode = "open" /\ db.active = ctl.j.candidate
          /\ step = "backup" => db.mode = "maintenance"
          /\ step # "reconcile" => db.schema <= Target[ctl.j.candidate]
    <3>1. CASE db.mode = "open" /\ db.active = ctl.j.candidate
      BY <1>1, <1>5, <3>1 DEF Look
    <3>2. CASE ~(db.mode = "open" /\ db.active = ctl.j.candidate)
      <4>1. ~(db.schema > Target[ctl.j.candidate])
        BY <1>1, <1>5, <3>2 DEF Look
      <4>2. ctl.j.candidate \in Release /\ db.schema \in Schemas
        BY <1>1, <1>5 DEF IInv, TypeOK, Control, Carried, Journaled
      <4>3. db.schema <= Target[ctl.j.candidate]
        BY <4>1, <4>2, SchemaNumbers
      <4>4. CASE db.mode = "maintenance"
        BY <1>1, <1>5, <3>2, <4>3, <4>4 DEF Look
      <4>5. CASE db.mode # "maintenance"
        BY <1>1, <1>5, <3>2, <4>3, <4>5 DEF Look
      <4> QED
        BY <4>4, <4>5
    <3> QED
      BY <3>1, <3>2
  <2>2. /\ ctl'.pc = step /\ ctl'.command = "update" /\ ctl'.j = ctl.j
    BY <1>1, <1>5, <2>1, GotoType DEF IInv, Steps
  <2>3. (Carried /\ Reached /\ Prepared /\ Exported)'
    BY <1>1, <1>5, <2>1, <2>2
       DEF IInv, Carried, Reached, Prepared, Exported, UpdateSteps, SealedSteps
  <2> QED
    BY <1>1, <2>1, <2>3, GoStep DEF Steps
<1> QED
  BY <1>1, <1>2, <1>3, <1>4, <1>5

LEMMA ReconcileStep ==
  ASSUME IInv, Reconcile
  PROVE  IInv'
<1>1. /\ UNCHANGED <<db, drains, data, busy, server, journal, installed, artifact, kills>>
      /\ ~stopped' /\ stopped' \in BOOLEAN
      /\ ctl.pc = "reconcile" /\ ctl.command = "update" /\ db.mode = "open"
      /\ db.active = ctl.j.candidate /\ fleet' = db.active /\ Goto("record")
  BY DEF Reconcile, At, IInv, Reached, UpdateSteps, Prepared
<1>2. /\ ctl' \in Process /\ ctl'.pc = "record" /\ ctl'.command = "update" /\ ctl'.j = ctl.j
  BY <1>1, GotoType DEF IInv, Steps
<1>3. TypeOK'
  BY <1>1, <1>2 DEF IInv, TypeOK, Control, Release
<1>4. (Served /\ Journaled /\ Numbered /\ Pinned)'
  BY <1>1 DEF IInv, Served, Journaled, Numbered, Pinned, Reads
<1>5. (Carried /\ Reached /\ Prepared /\ Exported)'
  BY <1>1, <1>2 DEF IInv, Carried, Reached, Prepared, Exported, UpdateSteps, SealedSteps
<1> QED
  BY <1>3, <1>4, <1>5 DEF IInv

\* The number under which a command drains.
LEMMA DrainNumber ==
  ASSUME IInv, ctl.pc = "drain"
  PROVE  /\ ctl.j.id \in Operations /\ ctl.j \in Journal
         /\ ctl.command \in {"update", "backup", "resume"}
<1>1. ctl.j \in Journal /\ journal \in Journal /\ ctl.command \in {"update", "backup", "resume"}
  BY DEF IInv, TypeOK, Process
<1>2. CASE ctl.command = "backup"
  <2>1. ctl.j.id = journal.id + 1
    BY <1>2 DEF IInv, Carried
  <2>2. journal.id \in Nat /\ ctl.j.id \in 0 .. MaxOperations
    BY <1>1, ConstantsAssumption DEF Journal
  <2> QED
    BY <1>1, <1>2, <2>1, <2>2 DEF Operations
<1>3. CASE ctl.command = "update"
  BY <1>1, <1>3 DEF IInv, Carried, Journaled
<1>4. CASE ctl.command = "resume"
  <2>1. ctl.j.id = journal.id /\ db.mode = "draining"
    BY <1>4 DEF IInv, Carried, Reached
  <2> QED
    BY <1>1, <2>1 DEF IInv, Journaled
<1> QED
  BY <1>1, <1>2, <1>3, <1>4

LEMMA DrainStep ==
  ASSUME IInv, Drain
  PROVE  IInv'
<1>1. /\ UNCHANGED <<data, busy, host, installed, artifact, kills>>
      /\ ctl.pc = "drain" /\ journal' = [ctl.j EXCEPT !.complete = FALSE]
  BY DEF Drain, At
<1>2. /\ ctl.j.id \in Operations /\ ctl.j \in Journal
      /\ ctl.command \in {"update", "backup", "resume"}
  BY <1>1, DrainNumber
<1>3. /\ journal' \in Journal /\ journal'.complete = FALSE /\ journal'.id = ctl.j.id
      /\ journal'.operation = ctl.j.operation /\ journal'.candidate = ctl.j.candidate
      /\ journal'.backup = ctl.j.backup
  BY <1>1, <1>2 DEF Journal
<1>4. /\ ctl' = Idle \/ (\E step \in {"wait", "seal"} : Goto(step))
      /\ \/ Replayed /\ UNCHANGED <<db, drains>>
         \/ /\ ~Replayed /\ db' = [db EXCEPT !.mode = "draining"]
            /\ drains' = [drains EXCEPT ![ctl.j.id] = db.generation]
  BY <1>1 DEF Drain, Stop
<1>5. \/ ctl' = Idle
      \/ /\ ctl' \in Process /\ ctl'.pc \in {"wait", "seal"} /\ ctl'.j = ctl.j
         /\ ctl'.command = ctl.command
  BY <1>1, <1>4, GotoType DEF IInv, Steps
<1>6. /\ db' \in Control /\ db'.active = db.active /\ db'.schema = db.schema
      /\ db'.generation = db.generation
      /\ (db'.mode = db.mode /\ db' = db) \/ (db'.mode = "draining" /\ ~Replayed)
      /\ drains' \in [Operations -> {0} \cup Generations]
      /\ db.generation # 0 /\ drains'[ctl.j.id] # 0
  BY <1>2, <1>4 DEF IInv, TypeOK, Control, Replayed, Generations
<1>7. TypeOK'
  <2>1. ctl' \in Process /\ (ctl'.pc = "idle" <=> ctl'.command = "none")
    BY <1>2, <1>5, IdleType
  <2> QED
    BY <1>1, <1>3, <1>6, <2>1 DEF IInv, TypeOK
\* A command in doubt of its journal finds the database closed or has just begun.
<1>8. /\ ctl.command # "backup" =>
           /\ journal.id = ctl.j.id /\ journal.operation = ctl.j.operation
           /\ journal.candidate = ctl.j.candidate /\ journal.backup = ctl.j.backup
           /\ ~journal.complete /\ ~ctl.j.complete
      /\ ctl.command = "backup" =>
           /\ journal.complete /\ ctl.j.id = journal.id + 1 /\ ctl.j.operation = "backup"
           /\ ctl.j.backup = 0 /\ ~ctl.j.complete
  BY <1>1, <1>2 DEF IInv, Carried, Reached, Served
<1>9. Served'
  BY <1>1, <1>3, <1>6 DEF IInv, Served, Reads
<1>10. Journaled'
  BY <1>2, <1>3, <1>6, <1>8 DEF IInv, Journaled
<1>11. Numbered'
  <2>1. db.generation \in Nat /\ journal.id \in Nat
    BY DEF IInv, TypeOK, Control, Journal, Generations
  <2> QED
    BY <1>3, <1>6, <1>8, <2>1, <1>2 DEF IInv, Numbered
<1>12. Pinned'
  BY <1>1, <1>2, <1>3, <1>6, <1>8 DEF IInv, Pinned, Journaled, Replayed
<1>13. (Carried /\ Reached /\ Exported)'
  <2>1. CASE ctl' = Idle
    BY <2>1, IdleType DEF Carried, Reached, Exported, UpdateSteps, SealedSteps
  <2>2. CASE ctl'.pc \in {"wait", "seal"} /\ ctl'.j = ctl.j /\ ctl'.command = ctl.command
    <3>1. (Reached /\ Exported)'
      BY <2>2 DEF Reached, Exported, UpdateSteps, SealedSteps
    <3>2. ctl.j.complete = FALSE
      BY <1>2, <1>8 DEF Journal
    <3>3. Carried'
      <4>1. CASE ctl.command = "backup"
        BY <2>2, <3>2, <1>3, <1>8, <4>1 DEF Carried
      <4>2. CASE ctl.command # "backup"
        BY <2>2, <3>2, <1>3, <1>8, <4>2 DEF IInv, Carried
      <4> QED
        BY <4>1, <4>2
    <3> QED
      BY <3>1, <3>3
  <2> QED
    BY <1>5, <2>1, <2>2
<1>14. Prepared'
  BY <1>1, <1>2, <1>5, <1>6, IdleType DEF IInv, Prepared, Reads
<1> QED
  BY <1>7, <1>9, <1>10, <1>11, <1>12, <1>13, <1>14 DEF IInv

LEMMA WaitStep ==
  ASSUME IInv, Wait
  PROVE  IInv'
<1>1. /\ UNCHANGED <<db, drains, data, busy, host, journal, installed, artifact, kills>>
      /\ ctl.pc = "wait" /\ Goto("seal")
  BY DEF Wait, At
<1>2. /\ ctl'.pc = "seal" /\ ctl'.command = ctl.command /\ ctl'.j = ctl.j
  BY <1>1, GotoType DEF IInv, Steps
<1>3. (Carried /\ Reached /\ Prepared /\ Exported)'
  BY <1>1, <1>2
     DEF IInv, Carried, Reached, Prepared, Exported, UpdateSteps, SealedSteps, Reads
<1> QED
  BY <1>1, <1>3, GoStep DEF Steps, IInv, TypeOK

LEMMA SealStep ==
  ASSUME IInv, Seal
  PROVE  IInv'
<1>1. /\ UNCHANGED <<drains, data, busy, host, journal, installed, artifact, kills>>
      /\ ctl.pc = "seal" /\ ctl.command \in {"update", "backup", "resume"}
  BY DEF Seal, At, IInv, TypeOK, Process
<1>2. CASE ~CanSeal
  BY <1>1, <1>2, StopStep DEF Seal, IInv, TypeOK
<1>3. CASE CanSeal
  <2>1. PICK step \in {"choose", "backup"} :
          Goto(step) /\ (step = "choose" <=> ctl.command = "resume")
    BY <1>1, <1>3 DEF Seal
  <2>2. /\ ctl' \in Process /\ ctl'.pc = step /\ ctl'.command = ctl.command /\ ctl'.j = ctl.j
    BY <1>1, <2>1, GotoType DEF IInv, Steps
  <2>3. /\ db' \in Control /\ db'.mode = "maintenance" /\ db'.active = db.active
        /\ db'.schema = db.schema /\ db'.generation = db.generation
        /\ db.mode # "open" /\ ~busy
    BY <1>1, <1>3 DEF Seal, CanSeal, IInv, TypeOK, Control
  <2>4. TypeOK'
    BY <1>1, <2>1, <2>2, <2>3 DEF IInv, TypeOK
  <2>5. (Served /\ Journaled /\ Numbered /\ Pinned)'
    BY <1>1, <2>3 DEF IInv, Served, Journaled, Numbered, Pinned
  <2>6. Carried'
    BY <1>1, <2>1, <2>2 DEF IInv, Carried
  <2>7. (Reached /\ Exported)'
    BY <1>1, <2>1, <2>2, <2>3 DEF IInv, Reached, Exported, UpdateSteps, SealedSteps
  <2>8. Prepared'
    BY <1>1, <2>1, <2>2, <2>3 DEF IInv, Prepared, Reads
  <2> QED
    BY <2>4, <2>5, <2>6, <2>7, <2>8 DEF IInv
<1> QED
  BY <1>2, <1>3

LEMMA BackupStep ==
  ASSUME IInv, Backup
  PROVE  IInv'
<1>1. /\ UNCHANGED <<db, drains, data, busy, host, journal, installed, artifact, kills>>
      /\ ctl.pc = "backup" /\ ctl.command \in {"update", "backup"} /\ db.mode = "maintenance"
      /\ ctl.j.backup = journal.backup
  BY DEF Backup, At, IInv, Reached, SealedSteps, Carried
<1>2. CASE Stop
  BY <1>1, <1>2, StopStep DEF IInv, TypeOK
<1>3. CASE ctl.j.backup # 0
  <2>1. Goto("pin") /\ ctl.command = "update"
    BY <1>1, <1>3 DEF Backup, IInv, Carried
  <2>2. /\ ctl'.pc = "pin" /\ ctl'.command = "update" /\ ctl'.j = ctl.j
    BY <1>1, <2>1, GotoType DEF IInv, Steps
  <2>3. ctl.j.backup = data + 1 /\ artifact = data + 1
    BY <1>1, <1>3 DEF IInv, Pinned
  <2>4. (Carried /\ Reached /\ Prepared /\ Exported)'
    BY <1>1, <2>1, <2>2, <2>3
       DEF IInv, Carried, Reached, Prepared, Exported, UpdateSteps, SealedSteps
  <2> QED
    BY <1>1, <2>1, <2>4, GoStep DEF Steps, IInv, TypeOK
<1>4. CASE ctl.j.backup = 0 /\ ctl' = [ctl EXCEPT !.pc = "link", !.dump = data + 1]
  <2>1. data + 1 \in Backups
    BY ConstantsAssumption DEF IInv, TypeOK, Backups
  <2>2. /\ ctl' \in Process /\ ctl'.pc = "link" /\ ctl'.command = ctl.command
        /\ ctl'.j = ctl.j /\ ctl'.dump = data + 1
    BY <1>4, <2>1 DEF IInv, TypeOK, Process, Steps
  <2>3. TypeOK'
    BY <1>1, <2>2 DEF IInv, TypeOK
  <2>4. (Served /\ Journaled /\ Numbered /\ Pinned)'
    BY <1>1 DEF IInv, Served, Journaled, Numbered, Pinned, Reads
  <2>5. (Carried /\ Reached /\ Exported)'
    BY <1>1, <1>4, <2>2 DEF IInv, Carried, Reached, Exported, UpdateSteps, SealedSteps
  <2>6. Prepared'
    BY <1>1, <2>2 DEF IInv, Prepared, Reads
  <2> QED
    BY <2>3, <2>4, <2>5, <2>6 DEF IInv
<1> QED
  BY <1>1, <1>2, <1>3, <1>4 DEF Backup

LEMMA LinkStep ==
  ASSUME IInv, Link
  PROVE  IInv'
<1>1. /\ UNCHANGED <<db, drains, data, busy, host, journal, installed, kills>>
      /\ ctl.pc = "link" /\ ctl.command \in {"update", "backup"} /\ db.mode = "maintenance"
      /\ ctl.dump = data + 1 /\ artifact' = data + 1 /\ ctl.dump \in Backups
  BY DEF Link, At, IInv, TypeOK, Process, Reached, SealedSteps, Exported
<1>2. \/ /\ ctl.command = "backup" /\ ctl' \in Process /\ ctl'.pc = "start"
         /\ ctl'.command = ctl.command /\ ctl'.j = ctl.j
      \/ /\ ctl.command = "update" /\ ctl' \in Process /\ ctl'.pc = "pin"
         /\ ctl'.command = ctl.command /\ ctl'.j = [ctl.j EXCEPT !.backup = ctl.dump]
  <2>1. CASE ctl.command = "backup"
    <3>1. Goto("start")
      BY <1>1, <2>1 DEF Link
    <3> QED
      BY <1>1, <2>1, <3>1, GotoType DEF IInv, Steps
  <2>2. CASE ctl.command = "update"
    <3>1. ctl' = [ctl EXCEPT !.pc = "pin", !.j.backup = ctl.dump]
      BY <1>1, <2>2 DEF Link
    <3> QED
      BY <1>1, <2>2, <3>1 DEF IInv, TypeOK, Process, Steps, Journal
  <2> QED
    BY <1>1, <2>1, <2>2
<1>3. /\ ctl'.j.id = ctl.j.id /\ ctl'.j.operation = ctl.j.operation
      /\ ctl'.j.candidate = ctl.j.candidate /\ ctl'.j.complete = ctl.j.complete
      /\ ctl'.pc = "start" => ctl'.j.backup = ctl.j.backup
      /\ ctl'.pc = "pin" => ctl'.j.backup = data + 1
  BY <1>1, <1>2 DEF IInv, TypeOK, Process, Journal
<1>4. TypeOK'
  BY <1>1, <1>2 DEF IInv, TypeOK
<1>5. (Served /\ Journaled /\ Numbered /\ Pinned)'
  BY <1>1 DEF IInv, Served, Journaled, Numbered, Pinned, Reads
<1>6. Carried'
  BY <1>1, <1>2, <1>3 DEF IInv, Carried
<1>7. (Reached /\ Exported)'
  BY <1>1, <1>2, <1>3 DEF IInv, Reached, Exported, UpdateSteps, SealedSteps
<1>8. Prepared'
  BY <1>1, <1>2, <1>3 DEF IInv, Prepared, Reads
<1> QED
  BY <1>4, <1>5, <1>6, <1>7, <1>8 DEF IInv

LEMMA PinStep ==
  ASSUME IInv, Pin
  PROVE  IInv'
<1>1. /\ UNCHANGED <<db, drains, data, busy, host, installed, artifact, kills>>
      /\ ctl.pc = "pin" /\ ctl.command = "update" /\ db.mode = "maintenance"
      /\ ctl.j.backup = data + 1 /\ artifact = data + 1 /\ ctl.j \in Journal
      /\ ctl.j.id = journal.id /\ ctl.j.operation = journal.operation
      /\ ctl.j.candidate = journal.candidate /\ ctl.j.complete = journal.complete
      /\ ~journal.complete
  BY DEF Pin, At, IInv, TypeOK, Process, Reached, UpdateSteps, SealedSteps, Exported, Carried
<1>2. journal' = ctl.j /\ Goto("down")
  BY <1>1 DEF Pin
<1>3. /\ ctl' \in Process /\ ctl'.pc = "down" /\ ctl'.command = ctl.command /\ ctl'.j = ctl.j
  BY <1>1, <1>2, GotoType DEF IInv, Steps
<1>4. TypeOK'
  BY <1>1, <1>2, <1>3 DEF IInv, TypeOK
<1>5. (Served /\ Journaled /\ Numbered /\ Pinned)'
  BY <1>1, <1>2 DEF IInv, Served, Journaled, Numbered, Pinned, Reads
<1>6. Carried'
  BY <1>1, <1>2, <1>3 DEF IInv, Carried
<1>7. data + 1 # 0
  BY ConstantsAssumption DEF IInv, TypeOK
<1>8. (Reached /\ Exported)'
  BY <1>1, <1>2, <1>3, <1>7 DEF IInv, Reached, Exported, UpdateSteps, SealedSteps
<1>9. Prepared'
  BY <1>1, <1>3 DEF IInv, Prepared
<1> QED
  BY <1>4, <1>5, <1>6, <1>8, <1>9 DEF IInv

LEMMA DownStep ==
  ASSUME IInv, Down
  PROVE  IInv'
<1>1. /\ UNCHANGED <<db, drains, data, busy, stopped, journal, installed, artifact, kills>>
      /\ fleet' = 0 /\ server' \in BOOLEAN /\ Goto("migrate")
      /\ ctl.pc = "down" /\ ctl.command = "update" /\ db.mode = "maintenance"
  BY DEF Down, At, IInv, Reached, UpdateSteps, SealedSteps
<1>2. /\ ctl' \in Process /\ ctl'.pc = "migrate" /\ ctl'.command = ctl.command
      /\ ctl'.j = ctl.j
  BY <1>1, GotoType DEF IInv, Steps
<1>3. TypeOK'
  BY <1>1, <1>2, ConstantsAssumption DEF IInv, TypeOK
<1>4. (Served /\ Journaled /\ Numbered /\ Pinned)'
  BY <1>1 DEF IInv, Served, Journaled, Numbered, Pinned, Reads
<1>5. (Carried /\ Reached /\ Prepared /\ Exported)'
  BY <1>1, <1>2 DEF IInv, Carried, Reached, Prepared, Exported, UpdateSteps, SealedSteps
<1> QED
  BY <1>3, <1>4, <1>5 DEF IInv

LEMMA MigrateStep ==
  ASSUME IInv, Migrate
  PROVE  IInv'
<1>1. /\ UNCHANGED <<drains, data, busy, fleet, stopped, journal, installed, artifact, kills>>
      /\ server' \in BOOLEAN
      /\ ctl.pc = "migrate" /\ ctl.command = "update" /\ db.mode = "maintenance"
      /\ db.schema <= Target[ctl.j.candidate]
      /\ ctl.j.candidate \in Release /\ db.schema \in Schemas
  BY DEF Migrate, At, IInv, TypeOK, Control, Reached, UpdateSteps, SealedSteps, Prepared, Carried,
         Journaled
<1>2. CASE db.schema = Target[ctl.j.candidate]
  <2>1. Goto("activate") /\ UNCHANGED db
    BY <1>1, <1>2 DEF Migrate
  <2>2. /\ ctl'.pc = "activate" /\ ctl'.command = ctl.command /\ ctl'.j = ctl.j
    BY <1>1, <2>1, GotoType DEF IInv, Steps
  <2>3. (Carried /\ Reached /\ Prepared /\ Exported)'
    BY <1>1, <1>2, <2>1, <2>2
       DEF IInv, Carried, Reached, Prepared, Exported, UpdateSteps, SealedSteps
  <2> QED
    BY <1>1, <2>1, <2>3, GoStep DEF Steps
<1>3. CASE db.schema # Target[ctl.j.candidate]
  <2>1. db' = [db EXCEPT !.schema = @ + 1] /\ UNCHANGED ctl
    BY <1>1, <1>3 DEF Migrate
  <2>2. db.schema + 1 \in Schemas /\ db.schema + 1 <= Target[ctl.j.candidate]
    BY <1>1, <1>3, SchemaNumbers
  <2>3. /\ db' \in Control /\ db'.mode = db.mode /\ db'.active = db.active
        /\ db'.schema <= Target[ctl.j.candidate] /\ db'.generation = db.generation
    BY <2>1, <2>2 DEF IInv, TypeOK, Control
  <2>4. TypeOK'
    BY <1>1, <2>1, <2>3 DEF IInv, TypeOK
  <2>5. (Served /\ Journaled /\ Numbered /\ Pinned)'
    BY <1>1, <2>3 DEF IInv, Served, Journaled, Numbered, Pinned
  <2>6. (Carried /\ Reached /\ Exported)'
    BY <1>1, <2>1, <2>3 DEF IInv, Carried, Reached, Exported, UpdateSteps, SealedSteps
  <2>7. Prepared'
    BY <1>1, <2>1, <2>3 DEF IInv, Prepared
  <2> QED
    BY <2>4, <2>5, <2>6, <2>7 DEF IInv
<1> QED
  BY <1>2, <1>3

LEMMA ActivateStep ==
  ASSUME IInv, Activate
  PROVE  IInv'
<1>1. /\ UNCHANGED <<drains, data, busy, host, journal, installed, artifact, kills>>
      /\ ctl.pc = "activate" /\ ctl.command = "update" /\ db.mode = "maintenance"
      /\ db.schema = Target[ctl.j.candidate] /\ ctl.j.candidate = journal.candidate
      /\ journal.candidate \in Release /\ journal.id \in Operations
      /\ journal.operation = "update" /\ ~journal.complete /\ Goto("install")
  BY DEF Activate, At, IInv, Reached, UpdateSteps, SealedSteps, Prepared, Carried, Journaled
<1>2. /\ ctl' \in Process /\ ctl'.pc = "install" /\ ctl'.command = ctl.command
      /\ ctl'.j = ctl.j
  BY <1>1, GotoType DEF IInv, Steps
<1>3. /\ db' \in Control /\ db'.mode = db.mode /\ db'.active = journal.candidate
      /\ db'.schema = db.schema /\ db'.generation <= journal.id + 1
  <2>1. db.generation \in 1 .. MaxOperations + 1 /\ journal.id \in 1 .. MaxOperations
    BY <1>1 DEF IInv, TypeOK, Control, Generations, Operations
  <2>2. CASE db.active = journal.candidate
    BY <1>1, <2>2 DEF Activate, IInv, TypeOK, Numbered
  <2>3. CASE db.active # journal.candidate
    <3>1. db.generation <= journal.id
      BY <1>1, <2>3 DEF IInv, Numbered
    <3>2. db.generation + 1 \in Generations /\ db.generation + 1 <= journal.id + 1
      BY <2>1, <3>1, ConstantsAssumption DEF Generations
    <3>3. db' = [db EXCEPT !.active = journal.candidate, !.generation = db.generation + 1]
      BY <1>1, <2>3 DEF Activate
    <3> QED
      BY <1>1, <3>2, <3>3 DEF IInv, TypeOK, Control
  <2> QED
    BY <2>2, <2>3
<1>4. TypeOK'
  BY <1>1, <1>2, <1>3 DEF IInv, TypeOK
<1>5. (Served /\ Journaled /\ Numbered /\ Pinned)'
  BY <1>1, <1>3 DEF IInv, Served, Journaled, Numbered, Pinned
<1>6. (Carried /\ Reached /\ Exported)'
  BY <1>1, <1>2, <1>3 DEF IInv, Carried, Reached, Exported, UpdateSteps, SealedSteps
<1>7. Prepared'
  BY <1>1, <1>2, <1>3, SchemaNumbers DEF IInv, Prepared
<1> QED
  BY <1>4, <1>5, <1>6, <1>7 DEF IInv

LEMMA InstallStep ==
  ASSUME IInv, Install
  PROVE  IInv'
<1>1. /\ UNCHANGED <<db, drains, data, busy, host, journal, artifact, kills>>
      /\ ctl.pc = "install" /\ ctl.command = "update" /\ db.mode = "maintenance"
      /\ ctl.j.candidate = journal.candidate /\ journal.candidate \in Release
      /\ ~journal.complete /\ Goto("start")
      /\ installed' = [release |-> ctl.j.candidate, generation |-> db.generation]
  BY DEF Install, At, IInv, Reached, UpdateSteps, SealedSteps, Carried, Journaled
<1>2. /\ ctl' \in Process /\ ctl'.pc = "start" /\ ctl'.command = ctl.command
      /\ ctl'.j = ctl.j
  BY <1>1, GotoType DEF IInv, Steps
<1>3. TypeOK'
  BY <1>1, <1>2 DEF IInv, TypeOK, Control
<1>4. (Served /\ Journaled /\ Numbered /\ Pinned)'
  BY <1>1 DEF IInv, Served, Journaled, Numbered, Pinned
<1>5. (Carried /\ Reached /\ Exported)'
  BY <1>1, <1>2 DEF IInv, Carried, Reached, Exported, UpdateSteps, SealedSteps
<1>6. Prepared'
  BY <1>1, <1>2 DEF IInv, Prepared, Started
<1> QED
  BY <1>3, <1>4, <1>5, <1>6 DEF IInv

LEMMA ChooseStep ==
  ASSUME IInv, Choose
  PROVE  IInv'
<1>1. /\ UNCHANGED <<db, drains, data, busy, host, journal, installed, artifact, kills>>
      /\ ctl.pc = "choose" /\ ctl.command = "resume" /\ db.mode \in {"open", "maintenance"}
  BY DEF Choose, At, IInv, TypeOK, Control, Reached
<1>2. CASE ~Compatible
  BY <1>1, <1>2, StopStep DEF Choose, IInv, TypeOK
<1>3. CASE Compatible
  <2>1. Goto("start") /\ Reads(db.active)
    BY <1>3 DEF Choose, Compatible
  <2>2. /\ ctl'.pc = "start" /\ ctl'.command = "resume" /\ ctl'.j = ctl.j
    BY <1>1, <2>1, GotoType DEF IInv, Steps
  <2>3. Prepared'
    BY <1>1, <2>1, <2>2 DEF Prepared, Reads
  <2>4. (Carried /\ Reached /\ Exported)'
    BY <1>1, <2>2 DEF IInv, Carried, Reached, Exported, UpdateSteps, SealedSteps
  <2> QED
    BY <1>1, <2>1, <2>3, <2>4, GoStep DEF Steps, IInv, TypeOK
<1> QED
  BY <1>2, <1>3

\* The release a command is about to open is the active one, which reads the schema.
LEMMA StartedReads ==
  ASSUME IInv, ctl.pc \in {"start", "open"}
  PROVE  /\ Started = [release |-> db.active, generation |-> db.generation]
         /\ Reads(db.active) /\ db.active \in Release
         /\ ctl.command \in {"update", "backup", "resume"}
         /\ ctl.command # "resume" => installed = Started
<1>1. ctl.command \in {"update", "backup", "resume"} /\ db.active \in Release
  BY DEF IInv, TypeOK, Process, Control
<1>2. CASE ctl.command = "update"
  <2>1. db.active = ctl.j.candidate /\ db.schema = Target[db.active] /\ installed = Started
    BY <1>2 DEF IInv, Prepared
  <2>2. Reads(db.active)
    BY <1>1, <2>1, SchemaNumbers DEF Reads
  <2> QED
    BY <1>1, <1>2, <2>1, <2>2 DEF Started
<1>3. CASE ctl.command = "backup"
  BY <1>1, <1>3 DEF IInv, Prepared, Started
<1>4. CASE ctl.command = "resume"
  BY <1>1, <1>4 DEF IInv, Prepared, Started
<1> QED
  BY <1>1, <1>2, <1>3, <1>4

LEMMA StartStep ==
  ASSUME IInv, Start
  PROVE  IInv'
<1>0. /\ db.active \in Release /\ Reads(db.active)
      /\ ctl.command \in {"update", "backup", "resume"} /\ ctl.pc = "start"
      /\ Started = [release |-> db.active, generation |-> db.generation]
  BY StartedReads DEF Start, At
<1>1. /\ UNCHANGED <<db, drains, data, busy, server, installed, artifact, kills>>
      /\ stopped' = FALSE /\ fleet' = db.active
      /\ ctl.j \in Journal /\ ctl.j.id = journal.id /\ ctl.j.operation = journal.operation
      /\ ctl.j.candidate = journal.candidate /\ ctl.j.complete = journal.complete
      /\ ctl.j.backup = journal.backup
  BY <1>0 DEF Start, IInv, TypeOK, Process, Carried
<1>2. fleet' \in 0 .. Releases
  BY <1>0, <1>1 DEF Release
<1>3. CASE db.mode = "open"
  <2>1. Goto("record") /\ UNCHANGED journal /\ ctl.command = "resume"
    BY <1>0, <1>1, <1>3 DEF Start, IInv, Reached
  <2>2. /\ ctl' \in Process /\ ctl'.pc = "record" /\ ctl'.command = "resume"
        /\ ctl'.j = ctl.j
    BY <1>0, <1>1, <2>1, GotoType DEF IInv, Steps
  <2>3. TypeOK'
    BY <1>0, <1>1, <1>2, <2>1, <2>2 DEF IInv, TypeOK
  <2>4. (Served /\ Journaled /\ Numbered /\ Pinned)'
    BY <1>0, <1>1, <2>1 DEF IInv, Served, Journaled, Numbered, Pinned, Reads
  <2>5. (Carried /\ Reached /\ Prepared /\ Exported)'
    BY <1>0, <1>1, <1>3, <2>1, <2>2
       DEF IInv, Carried, Reached, Prepared, Exported, UpdateSteps, SealedSteps
  <2> QED
    BY <2>3, <2>4, <2>5 DEF IInv
<1>4. CASE db.mode # "open"
  <2>1. Goto("open") /\ journal' = [ctl.j EXCEPT !.complete = FALSE] /\ db.mode = "maintenance"
    BY <1>0, <1>1, <1>4 DEF Start, IInv, Reached
  <2>2. /\ ctl' \in Process /\ ctl'.pc = "open" /\ ctl'.command = ctl.command
        /\ ctl'.j = ctl.j
    BY <1>0, <1>1, <2>1, GotoType DEF IInv, Steps
  <2>3. ctl.j.complete = FALSE /\ ~journal.complete
    BY <1>0, <1>1, <1>4 DEF IInv, Served, Journal
  <2>4. /\ journal' \in Journal /\ journal'.id = ctl.j.id
        /\ journal'.operation = ctl.j.operation /\ journal'.candidate = ctl.j.candidate
        /\ journal'.complete = FALSE /\ journal'.backup = ctl.j.backup
    BY <1>0, <1>1, <2>1 DEF Journal
  <2>5. TypeOK'
    BY <1>0, <1>1, <1>2, <2>2, <2>4 DEF IInv, TypeOK
  <2>6. (Served /\ Journaled /\ Numbered /\ Pinned)'
    BY <1>0, <1>1, <2>1, <2>3, <2>4 DEF IInv, Served, Journaled, Numbered, Pinned, Reads
  <2>7. Carried'
    BY <1>0, <1>1, <2>2, <2>3, <2>4 DEF IInv, Carried
  <2>8. (Reached /\ Exported)'
    BY <1>0, <1>1, <2>1, <2>2 DEF Reached, Exported, UpdateSteps, SealedSteps
  <2>9. Prepared'
    BY <1>0, <1>1, <2>1, <2>2 DEF IInv, Prepared, Started, Reads
  <2> QED
    BY <2>5, <2>6, <2>7, <2>8, <2>9 DEF IInv
<1> QED
  BY <1>3, <1>4

LEMMA OpenStep ==
  ASSUME IInv, Open
  PROVE  IInv'
<1>1. /\ UNCHANGED <<drains, data, busy, host, journal, installed, artifact, kills>>
      /\ ctl.pc = "open" /\ db.mode = "maintenance"
      /\ fleet = db.active /\ ~stopped /\ Reads(db.active)
      /\ ctl.command \in {"update", "backup", "resume"}
      /\ Started = [release |-> db.active, generation |-> db.generation]
      /\ ctl.command # "resume" => installed = Started
  BY StartedReads DEF Open, At, IInv, Reached, SealedSteps, Prepared
<1>2. PICK step \in {"record", "complete"} :
        Goto(step) /\ (step = "record" <=> ctl.command = "resume")
  BY <1>1 DEF Open
<1>3. /\ ctl' \in Process /\ ctl'.pc = step /\ ctl'.command = ctl.command
      /\ ctl'.j = ctl.j
  BY <1>1, <1>2, GotoType DEF IInv, Steps
<1>4. /\ db' \in Control /\ db'.mode = "open" /\ db'.active = db.active
      /\ db'.schema = db.schema /\ db'.generation = db.generation
  BY <1>1 DEF Open, IInv, TypeOK, Control
<1>5. TypeOK'
  BY <1>1, <1>3, <1>4 DEF IInv, TypeOK
<1>6. (Served /\ Journaled /\ Numbered /\ Pinned)'
  BY <1>1, <1>4 DEF IInv, Served, Journaled, Numbered, Pinned, Reads
<1>7. (Carried /\ Reached /\ Exported)'
  BY <1>1, <1>2, <1>3, <1>4 DEF IInv, Carried, Reached, Exported, UpdateSteps, SealedSteps
<1>8. Prepared'
  BY <1>1, <1>2, <1>3, <1>4 DEF IInv, Prepared, Reads
<1> QED
  BY <1>5, <1>6, <1>7, <1>8 DEF IInv

LEMMA RecordStep ==
  ASSUME IInv, Record
  PROVE  IInv'
<1>1. /\ UNCHANGED <<db, drains, data, busy, host, journal, artifact, kills>>
      /\ ctl.pc = "record" /\ db.mode = "open" /\ ctl.command \in {"update", "resume"}
      /\ Goto("complete") /\ installed' = Started
  BY DEF Record, Recorded, At, IInv, Reached
<1>2. installed' = [release |-> db.active, generation |-> db.generation]
  BY <1>1 DEF Started, IInv, Prepared
<1>3. /\ ctl' \in Process /\ ctl'.pc = "complete" /\ ctl'.command = ctl.command
      /\ ctl'.j = ctl.j
  BY <1>1, GotoType DEF IInv, Steps
<1>4. TypeOK'
  BY <1>1, <1>2, <1>3 DEF IInv, TypeOK, Control
<1>5. (Served /\ Journaled /\ Numbered /\ Pinned)'
  BY <1>1, <1>2 DEF IInv, Served, Journaled, Numbered, Pinned, Reads
<1>6. (Carried /\ Reached /\ Prepared /\ Exported)'
  BY <1>1, <1>2, <1>3
     DEF IInv, Carried, Reached, Prepared, Exported, UpdateSteps, SealedSteps
<1> QED
  BY <1>4, <1>5, <1>6 DEF IInv

LEMMA CompleteStep ==
  ASSUME IInv, Complete
  PROVE  IInv'
<1>1. /\ UNCHANGED <<db, drains, data, busy, host, installed, artifact, kills>>
      /\ ctl.pc = "complete" /\ db.mode = "open" /\ ctl' = Idle
      /\ installed = [release |-> db.active, generation |-> db.generation]
      /\ ctl.j \in Journal /\ ctl.j.id = journal.id /\ ctl.j.operation = journal.operation
      /\ ctl.j.candidate = journal.candidate /\ ctl.j.backup = journal.backup
  BY DEF Complete, Stop, At, IInv, TypeOK, Process, Reached, Prepared, Carried
<1>2. /\ journal' \in Journal /\ journal'.id = ctl.j.id
      /\ journal'.operation = ctl.j.operation /\ journal'.candidate = ctl.j.candidate
      /\ journal'.complete = TRUE /\ journal'.backup = ctl.j.backup
  BY <1>1 DEF Complete, Journal
<1>3. TypeOK'
  BY <1>1, <1>2, IdleType DEF IInv, TypeOK
<1>4. (Served /\ Journaled /\ Numbered /\ Pinned)'
  BY <1>1, <1>2 DEF IInv, Served, Journaled, Numbered, Pinned, Reads
<1>5. (Carried /\ Reached /\ Prepared /\ Exported)'
  BY <1>1, IdleType DEF Carried, Reached, Prepared, Exported, UpdateSteps, SealedSteps
<1> QED
  BY <1>3, <1>4, <1>5 DEF IInv

-----------------------------------------------------------------------------
(* The theorems.                                                           *)

\* The inductive invariant holds in every behaviour: the controller's copy, its journal, the
\* database and the backup agree at every step a command can be killed at.
THEOREM Inductive == Spec => []IInv
<1>1. Init => IInv
  BY InitIInv
<1>2. IInv /\ [Next]_vars => IInv'
  <2> SUFFICES ASSUME IInv, [Next]_vars PROVE IInv'
    OBVIOUS
  <2>1. CASE BeginWork \/ Write \/ EndWork
    BY <2>1, OfficeStep
  <2>2. CASE \E next \in Release : StartUpdate(next)
    BY <2>2, StartUpdateStep
  <2>3. CASE StartBackup
    BY <2>3, StartBackupStep
  <2>4. CASE StartResume \/ \E output \in BOOLEAN : ContinueUpdate(output)
    BY <2>4, AgainStep
  <2>5. CASE StopFleet
    BY <2>5, StopFleetStep
  <2>6. CASE Step
    <3>1. CASE GiveUp
      BY <3>1, StopStep DEF GiveUp, IInv, TypeOK
    <3> QED
      BY <2>6, <3>1, LookStep, ReconcileStep, DrainStep, WaitStep, SealStep, BackupStep, LinkStep,
         PinStep, DownStep, MigrateStep, ActivateStep, InstallStep, ChooseStep, StartStep,
         OpenStep, RecordStep, CompleteStep
         DEF Step
  <2>7. CASE Kill
    <3>1. kills' \in 0 .. MaxKills
      BY <2>7, ConstantsAssumption DEF Kill, IInv, TypeOK
    <3> QED
      BY <2>7, <3>1, StopStep DEF Kill, IInv, TypeOK
  <2>8. CASE UNCHANGED vars
    <3>1. TypeOK'
      BY <2>8 DEF IInv, TypeOK, vars
    <3>2. (Served /\ Journaled /\ Numbered /\ Pinned)'
      BY <2>8 DEF IInv, Served, Journaled, Numbered, Pinned, Reads, vars
    <3>3. (Carried /\ Reached /\ Exported)'
      BY <2>8 DEF IInv, Carried, Reached, Exported, vars
    <3>4. Prepared'
      BY <2>8 DEF IInv, Prepared, Reads, Started, vars
    <3> QED
      BY <3>1, <3>2, <3>3, <3>4 DEF IInv
  <2> QED
    BY <2>1, <2>2, <2>3, <2>4, <2>5, <2>6, <2>7, <2>8 DEF Next
<1> QED
  BY <1>1, <1>2, PTL DEF Spec

\* Every variable keeps its type.
THEOREM TypeInvariant == Spec => []TypeOK
<1>1. IInv => TypeOK
  BY DEF IInv
<1> QED
  BY <1>1, Inductive, PTL

\* An open database has an active release that reads its schema, running unless the operator
\* stopped it, and a journal that says complete leaves an open database and a true record.
THEOREM OpenServed == Spec => []OpenIsServed
<1>1. IInv => OpenIsServed
  BY DEF IInv, Served, OpenIsServed
<1> QED
  BY <1>1, Inductive, PTL

\* Migrations and activations happen in sealed maintenance only, under a backup in the journal
\* that holds every committed write.
THEOREM MigrationsCovered == Spec => MigrationsAreCovered
<1> DEFINE Covered ==
      db'.schema # db.schema \/ db'.active # db.active =>
        db.mode = "maintenance" /\ ~busy /\ journal.backup = data + 1 /\ artifact = data + 1
<1>1. IInv /\ [Next]_vars => [Covered]_vars
  <2> SUFFICES ASSUME IInv, Next, ~(Migrate \/ Activate) PROVE UNCHANGED <<db.schema, db.active>>
    <3>1. ASSUME IInv, Migrate \/ Activate PROVE Covered
      <4>1. ctl.pc \in {"migrate", "activate"}
        BY <3>1 DEF Migrate, Activate, At
      <4>2. db.mode = "maintenance" /\ journal.backup # 0 /\ ~busy
        BY <3>1, <4>1 DEF IInv, Reached, SealedSteps, Exported, Served
      <4> QED
        BY <3>1, <4>2 DEF IInv, Pinned
    <3> QED
      BY <3>1
  <2>1. CASE UNCHANGED db
    BY <2>1
  <2>2. CASE Drain \/ Seal \/ Open
    <3>1. db \in Control
      BY DEF IInv, TypeOK
    <3> QED
      BY <2>2, <3>1 DEF Drain, Seal, Open, Control
  <2> QED
    BY <2>1, <2>2
       DEF Next, Step, BeginWork, Write, EndWork, StartUpdate, ContinueUpdate, StartBackup,
           StartResume, StopFleet, Look, Reconcile, Wait, Backup, Link, Pin, Down, Install,
           Choose, Start, Record, Complete, GiveUp, Kill
<1> QED
  BY <1>1, Inductive, PTL DEF Spec, MigrationsAreCovered
=============================================================================
