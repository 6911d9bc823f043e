--------------------------- MODULE ApplianceUpdate ---------------------------
(***************************************************************************)
(* The appliance controller (asterctl): update, continue-update, backup,   *)
(* resume and stop, over its journal and installation record, the backup   *)
(* file, the running fleet, and the lifecycle commands of the database it  *)
(* drives.  The controller holds the host lock, so one command runs at a   *)
(* time; it can be killed, and a command of it can fail, between any two   *)
(* steps.                                                                  *)
(*                                                                         *)
(* Of the journal's phases the code tests "complete" only: the others are  *)
(* one.  The lifecycle commands are those of module Lifecycle, reduced to  *)
(* what the controller sees.                                               *)
(***************************************************************************)
EXTENDS Naturals

CONSTANTS
  Releases,       \* number of releases, in their sequence
  Target,         \* the schema version each release migrates to
  MinSchema,      \* the first schema version each release reads
  MaxSchema,      \* and the last
  MaxOperations,  \* bound on the updates and backups begun
  MaxData,        \* bound on the committed writes of the offices
  MaxKills        \* bound on interruptions

ASSUME ConstantsAssumption ==
  /\ Releases \in Nat \ {0} /\ MaxOperations \in Nat /\ MaxData \in Nat /\ MaxKills \in Nat
  /\ Target \in [1 .. Releases -> Nat \ {0}]
  /\ MinSchema \in [1 .. Releases -> Nat \ {0}] /\ MaxSchema \in [1 .. Releases -> Nat]
  /\ \A r \in 1 .. Releases : MinSchema[r] <= Target[r] /\ Target[r] <= MaxSchema[r]

VARIABLES
  db,         \* app_lifecycle_control
  drains,     \* the drain receipts: the generation each request ID was used in, or 0
  data,       \* committed writes
  busy,       \* an admitted operation is running
  server,     \* PostgreSQL runs
  fleet,      \* the release whose services run, 0 for none
  stopped,    \* history: the operator stopped the fleet, and nothing has started it since
  journal,    \* journal.json
  installed,  \* installation.json: release and generation
  artifact,   \* the backup at the journal's path: the writes it holds plus 1, 0 for none
  ctl,        \* the controller process and its copy of the journal
  kills       \* interruptions spent

host == <<server, fleet, stopped>>
vars == <<db, drains, data, busy, host, journal, installed, artifact, ctl, kills>>

Release == 1 .. Releases
Operations == 1 .. MaxOperations
Generations == 1 .. MaxOperations + 1
Schemas == UNION {1 .. Target[r] : r \in Release}
Backups == 0 .. MaxData + 1

Control == [mode : {"open", "draining", "maintenance"}, generation : Generations,
            active : Release, schema : Schemas]
\* backup is BackupSHA, by what the file holds; previous and candidate are 0 when unset.
Journal == [operation : {"none", "update", "backup"}, complete : BOOLEAN,
            id : 0 .. MaxOperations, previous : 0 .. Releases, candidate : 0 .. Releases,
            backup : Backups]
Steps == {"idle", "look", "reconcile", "drain", "wait", "seal", "backup", "link", "pin",
          "down", "migrate", "activate", "install", "choose", "start", "open", "record",
          "complete"}
Process == [command : {"none", "update", "backup", "resume"}, pc : Steps, j : Journal,
            dump : Backups]
NoJournal == [operation |-> "none", complete |-> TRUE, id |-> 0, previous |-> 0,
              candidate |-> 0, backup |-> 0]
Idle == [command |-> "none", pc |-> "idle", j |-> NoJournal, dump |-> 0]

TypeOK ==
  /\ db \in Control
  /\ drains \in [Operations -> {0} \cup Generations]
  /\ data \in 0 .. MaxData /\ busy \in BOOLEAN
  /\ server \in BOOLEAN /\ fleet \in 0 .. Releases /\ stopped \in BOOLEAN
  /\ journal \in Journal
  /\ installed \in [release : Release, generation : Generations]
  /\ artifact \in Backups
  /\ ctl \in Process /\ (ctl.pc = "idle" <=> ctl.command = "none")
  /\ kills \in 0 .. MaxKills

Init ==
  /\ db = [mode |-> "open", generation |-> 1, active |-> 1, schema |-> Target[1]]
  /\ drains = [i \in Operations |-> 0]
  /\ data = 0 /\ busy = FALSE
  /\ server = TRUE /\ fleet = 1 /\ stopped = FALSE
  /\ journal = NoJournal
  /\ installed = [release |-> 1, generation |-> 1]
  /\ artifact = 0
  /\ ctl = Idle
  /\ kills = 0

Reads(r) == db.schema \in MinSchema[r] .. MaxSchema[r]

-----------------------------------------------------------------------------
(* The offices.                                                            *)

BeginWork ==
  /\ db.mode = "open" /\ fleet = db.active /\ Reads(fleet) /\ ~busy
  /\ busy' = TRUE
  /\ UNCHANGED <<db, drains, data, host, journal, installed, artifact, ctl, kills>>

Write ==
  /\ busy /\ fleet # 0 /\ data < MaxData
  /\ data' = data + 1
  /\ UNCHANGED <<db, drains, busy, host, journal, installed, artifact, ctl, kills>>

\* The operation ends, or its lease does.
EndWork ==
  /\ busy /\ busy' = FALSE
  /\ UNCHANGED <<db, drains, data, host, journal, installed, artifact, ctl, kills>>

-----------------------------------------------------------------------------
(* The commands begin.                                                     *)

Begun == journal.id
Run(command, j) == ctl' = [command |-> command, pc |-> "look", j |-> j, dump |-> 0]
\* requireFinished; every operation has an ID of its own.
Fresh(operation, candidate) ==
  [operation |-> operation, complete |-> FALSE, id |-> Begun + 1,
   previous |-> installed.release, candidate |-> candidate, backup |-> 0]
MayBegin == ctl.pc = "idle" /\ journal.complete /\ Begun < MaxOperations

\* Update: the output path must be new, the release sequence must advance.
StartUpdate(next) ==
  /\ MayBegin /\ next > installed.release
  /\ journal' = Fresh("update", next)
  /\ Run("update", journal') /\ artifact' = 0
  /\ UNCHANGED <<db, drains, data, busy, host, installed, kills>>

\* continue-update; another output is refused once the backup is pinned.
ContinueUpdate(output) ==
  /\ ctl.pc = "idle" /\ journal.operation = "update" /\ ~journal.complete
  /\ output => journal.backup = 0
  /\ Run("update", journal)
  /\ artifact' = IF output THEN 0 ELSE artifact
  /\ UNCHANGED <<db, drains, data, busy, host, journal, installed, kills>>

\* Backup: the journal is first written when the drain is requested.
StartBackup ==
  /\ MayBegin
  /\ Run("backup", Fresh("backup", 0)) /\ artifact' = 0
  /\ UNCHANGED <<db, drains, data, busy, host, journal, installed, kills>>

StartResume ==
  /\ ctl.pc = "idle"
  /\ Run("resume", journal)
  /\ UNCHANGED <<db, drains, data, busy, host, journal, installed, artifact, kills>>

-----------------------------------------------------------------------------
(* The operator stops the fleet, as for new credentials.                   *)

\* The services, then the server; the database stays as it is, open or not.  A stop that is
\* killed may leave the server.
StopFleet ==
  /\ ctl.pc = "idle"
  /\ fleet' = 0 /\ stopped' = TRUE /\ server' \in {server, FALSE}
  /\ UNCHANGED <<db, drains, data, busy, journal, installed, artifact, ctl, kills>>

-----------------------------------------------------------------------------
(* Their steps.  A step that fails ends the command as it stands.          *)

At(step) == ctl.pc = step
Goto(step) == ctl' = [ctl EXCEPT !.pc = step]
Stop == ctl' = Idle

\* Update and resume start the server, backup relies on it.  The state of the database
\* decides: an update that finds its candidate open was interrupted after the resume; resume
\* goes on to wait for a drain that has begun.
Look ==
  LET j == ctl.j
      TooNew == db.schema > Target[j.candidate] \/ db.schema > MaxSchema[j.candidate]
      Outside == db.active \notin {j.previous, j.candidate}
      Seals == Goto(IF db.mode = "maintenance" THEN "backup" ELSE "drain") IN
  /\ At("look")
  /\ CASE ctl.command = "resume" -> Goto(IF db.mode = "draining" THEN "drain" ELSE "choose")
       [] ctl.command = "backup" -> IF server THEN Seals ELSE Stop
       [] OTHER -> IF db.mode = "open" /\ db.active = j.candidate THEN Goto("reconcile")
                   ELSE IF Outside \/ TooNew THEN Stop ELSE Seals
  /\ server' = (server \/ ctl.command # "backup")
  /\ UNCHANGED <<db, drains, data, busy, fleet, stopped, journal, installed, artifact, kills>>

Reconcile ==
  /\ At("reconcile")
  /\ fleet' = ctl.j.candidate /\ stopped' = FALSE /\ Goto("record")
  /\ UNCHANGED <<db, drains, data, busy, server, journal, installed, artifact, kills>>

\* Faulty variant: every drain request is a new command.
ReplayedNever == FALSE
\* The lifecycle command knows the request ID and answers with its first receipt.
Replayed == drains[ctl.j.id] # 0

\* seal: the request ID of the drain is the journal's.  The receipt of a replay may say
\* that the database can be sealed, as it could then.
Drain ==
  /\ At("drain")
  /\ journal' = [ctl.j EXCEPT !.complete = FALSE]
  /\ IF Replayed
       THEN /\ IF drains[ctl.j.id] = db.generation THEN Goto("wait") \/ Goto("seal") ELSE Stop
            /\ UNCHANGED <<db, drains>>
       ELSE /\ db' = [db EXCEPT !.mode = "draining"]
            /\ drains' = [drains EXCEPT ![ctl.j.id] = db.generation]
            /\ Goto("wait")
  /\ UNCHANGED <<data, busy, host, installed, artifact, kills>>

CanSeal == db.mode # "open" /\ ~busy
Wait ==
  /\ At("wait") /\ CanSeal
  /\ Goto("seal")
  /\ UNCHANGED <<db, drains, data, busy, host, journal, installed, artifact, kills>>

Seal ==
  /\ At("seal")
  /\ IF CanSeal
       THEN /\ db' = [db EXCEPT !.mode = "maintenance"]
            /\ Goto(IF ctl.command = "resume" THEN "choose" ELSE "backup")
       ELSE Stop /\ UNCHANGED db
  /\ UNCHANGED <<drains, data, busy, host, journal, installed, artifact, kills>>

\* backupSealed, unless the backup is pinned: export ...
Backup ==
  /\ At("backup")
  /\ IF ctl.j.backup # 0 THEN Goto("pin")
     ELSE IF db.active # ctl.j.previous \/ artifact # 0 \/ busy THEN Stop
     ELSE ctl' = [ctl EXCEPT !.pc = "link", !.dump = data + 1]
  /\ UNCHANGED <<db, drains, data, busy, host, journal, installed, artifact, kills>>

\* ... and publish under its name, if the barrier has held.
Link ==
  /\ At("link")
  /\ IF db.mode = "maintenance"
       THEN /\ artifact' = ctl.dump
            /\ IF ctl.command = "backup" THEN Goto("start")
               ELSE ctl' = [ctl EXCEPT !.pc = "pin", !.j.backup = ctl.dump]
       ELSE Stop /\ UNCHANGED artifact
  /\ UNCHANGED <<db, drains, data, busy, host, journal, installed, kills>>

\* The receipt is verified and the hash enters the journal.
Pin ==
  /\ At("pin")
  /\ IF artifact = ctl.j.backup THEN journal' = ctl.j /\ Goto("down")
     ELSE Stop /\ UNCHANGED journal
  /\ UNCHANGED <<db, drains, data, busy, host, installed, artifact, kills>>

Down ==
  /\ At("down")
  /\ fleet' = 0 /\ server' = FALSE /\ Goto("migrate")
  /\ UNCHANGED <<db, drains, data, busy, stopped, journal, installed, artifact, kills>>

\* The candidate's server, and its pending migrations, a transaction each; they require
\* sealed maintenance.
Migrate ==
  /\ At("migrate")
  /\ IF db.schema = Target[ctl.j.candidate] THEN Goto("activate") /\ UNCHANGED db
     ELSE IF db.mode = "maintenance"
       THEN db' = [db EXCEPT !.schema = @ + 1] /\ UNCHANGED ctl
     ELSE Stop /\ UNCHANGED db
  /\ server' = TRUE
  /\ UNCHANGED <<drains, data, busy, fleet, stopped, journal, installed, artifact, kills>>

Activate ==
  /\ At("activate")
  /\ IF db.mode = "maintenance"
       THEN /\ db' = IF db.active = ctl.j.candidate THEN db
                     ELSE [db EXCEPT !.active = ctl.j.candidate, !.generation = @ + 1]
            /\ Goto("install")
       ELSE Stop /\ UNCHANGED db
  /\ UNCHANGED <<drains, data, busy, host, journal, installed, artifact, kills>>

Install ==
  /\ At("install")
  /\ installed' = [release |-> ctl.j.candidate, generation |-> db.generation]
  /\ Goto("start")
  /\ UNCHANGED <<db, drains, data, busy, host, journal, artifact, kills>>

Known == {installed.release, ctl.j.previous, ctl.j.candidate}
\* Faulty variant: the active release is restarted whatever the schema is.
CompatibleAlways == db.active \in Known
\* Resume starts the database's active release, if it knows it and it reads the schema.
Compatible == db.active \in Known /\ Reads(db.active)

Choose ==
  /\ At("choose")
  /\ IF Compatible THEN Goto("start") ELSE Stop
  /\ UNCHANGED <<db, drains, data, busy, host, journal, installed, artifact, kills>>

\* The release a command brings up, and the generation it expects to resume.
Started ==
  CASE ctl.command = "update" -> [release |-> ctl.j.candidate, generation |-> db.generation]
    [] ctl.command = "backup" -> installed
    [] OTHER -> [release |-> db.active, generation |-> db.generation]

\* The fleet is up and qualified; before writes resume, the intent enters the journal.
Start ==
  /\ At("start")
  /\ fleet' = Started.release /\ stopped' = FALSE
  /\ IF db.mode = "open" THEN Goto("record") /\ UNCHANGED journal
     ELSE Goto("open") /\ journal' = [ctl.j EXCEPT !.complete = FALSE]
  /\ UNCHANGED <<db, drains, data, busy, server, installed, artifact, kills>>

Open ==
  /\ At("open")
  /\ IF db.mode = "maintenance" /\ Started = [release |-> db.active, generation |-> db.generation]
       THEN /\ db' = [db EXCEPT !.mode = "open"]
            /\ Goto(IF ctl.command = "resume" THEN "record" ELSE "complete")
       ELSE Stop /\ UNCHANGED db
  /\ UNCHANGED <<drains, data, busy, host, journal, installed, artifact, kills>>

\* Faulty variant: what was found open is not recorded as installed.
RecordedNot == installed
Recorded == Started

\* Resume, and an update that found its candidate open, record what runs.
Record ==
  /\ At("record")
  /\ installed' = Recorded /\ Goto("complete")
  /\ UNCHANGED <<db, drains, data, busy, host, journal, artifact, kills>>

Complete ==
  /\ At("complete")
  /\ journal' = [ctl.j EXCEPT !.complete = TRUE] /\ Stop
  /\ UNCHANGED <<db, drains, data, busy, host, installed, artifact, kills>>

\* The controller is killed, its deadline passes, or Docker or the database fails it.
Kill ==
  /\ ctl.pc # "idle" /\ kills < MaxKills /\ kills' = kills + 1
  /\ Stop
  /\ UNCHANGED <<db, drains, data, busy, host, journal, installed, artifact>>

\* The deadline of a wait that cannot end.
GiveUp ==
  /\ At("wait") /\ db.mode = "open"
  /\ Stop
  /\ UNCHANGED <<db, drains, data, busy, host, journal, installed, artifact, kills>>

-----------------------------------------------------------------------------
Step ==
  \/ Look \/ Reconcile \/ Drain \/ Wait \/ Seal \/ Backup \/ Link \/ Pin \/ Down \/ Migrate
  \/ Activate \/ Install \/ Choose \/ Start \/ Open \/ Record \/ Complete \/ GiveUp

Next ==
  \/ BeginWork \/ Write \/ EndWork
  \/ \E next \in Release : StartUpdate(next)
  \/ \E output \in BOOLEAN : ContinueUpdate(output)
  \/ StartBackup \/ StartResume \/ StopFleet
  \/ Step \/ Kill

Spec == Init /\ [][Next]_vars

(* A running command goes on, admitted operations and leases end, and the  *)
(* operator comes back to what is not finished: with continue-update, with *)
(* another output too, or with resume.                                     *)
LiveSpec ==
  /\ Spec /\ WF_vars(Step) /\ WF_vars(EndWork)
  /\ \A output \in BOOLEAN : SF_vars(ContinueUpdate(output))
  /\ SF_vars(~journal.complete /\ StartResume)

-----------------------------------------------------------------------------
(* What must hold.                                                         *)

\* Wherever an update was killed and whichever command came next, an open database has an
\* active release that reads its schema, and that release runs and no other, unless it was
\* the operator who stopped it; and a journal that says complete leaves an open database and
\* a record of its active release and generation.
OpenIsServed ==
  /\ db.mode = "open" =>
       Reads(db.active) /\ fleet = IF stopped THEN 0 ELSE db.active
  /\ journal.complete /\ ctl.pc = "idle" =>
       /\ db.mode = "open"
       /\ installed = [release |-> db.active, generation |-> db.generation]

\* "The journal binds the backup's real bytes before any migration", "after writes resume,
\* they may contain new accepted financial data": schema and active release change only in
\* sealed maintenance, with a backup in the journal that holds every committed write.
MigrationsAreCovered ==
  [][db'.schema # db.schema \/ db'.active # db.active =>
       db.mode = "maintenance" /\ ~busy /\ journal.backup = data + 1 /\ artifact = data + 1]_vars

\* Whatever was interrupted, continue-update and resume between them finish it.
InterruptionsEnd == ~journal.complete ~> journal.complete
=============================================================================
