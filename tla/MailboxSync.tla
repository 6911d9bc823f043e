---------------------------- MODULE MailboxSync ----------------------------
(***************************************************************************)
(* Collection of one Gmail account: the messages and the history at the    *)
(* provider, the mailbox (app_mailboxes), its queue row                    *)
(* (app_mailbox_queue), the receipts of what was imported                  *)
(* (app_mailbox_receipts), the members who connect, pause, resume and      *)
(* disconnect it, and the mailbox workers.                                 *)
(*                                                                         *)
(* Messages in the chosen range are numbered as they arrive, and a history *)
(* id is the number of the last message it covers.  The provider lists     *)
(* messages newest first and history oldest first, and has forgotten the   *)
(* history up to a horizon.  A page holds one message.  The original and   *)
(* the extraction job of a message are inserted by the transaction that    *)
(* inserts its receipt, which stands for the three.  The owner of a claim  *)
(* is the process, which has one claim at a time.                          *)
(***************************************************************************)
EXTENDS Naturals, FiniteSetsExt

CONSTANTS
  Workers,        \* mailbox worker processes
  NoWorker,       \* SQL NULL of lease_owner
  MaxMail,        \* bound on the messages that arrive
  MaxGeneration,  \* bound on connects, pauses and disconnects of the members
  MaxFaults       \* bound on crashes, stalls, aborts and failed calls

ASSUME ConstantsAssumption ==
  /\ NoWorker \notin Workers
  /\ MaxMail \in Nat \ {0} /\ MaxGeneration \in Nat /\ MaxFaults \in Nat

VARIABLES
  arrived,   \* messages that have arrived at the provider
  horizon,   \* history up to here is forgotten
  box,       \* the mailbox: status, generation and cursor
  row,       \* its queue row, if present
  receipts,  \* messages that have a receipt
  member,    \* whether the connecting member may still collect
  worker,    \* the iteration each worker process is in
  faults     \* faults spent

provider == <<arrived, horizon>>
vars == <<provider, box, row, receipts, member, worker, faults>>

Mail == 1 .. MaxMail
\* A page token is the last message of the page before; 0 for none.
Cursor == [stage : {"null", "backfill", "history"}, historyId : 0 .. MaxMail, token : 0 .. MaxMail]
NoCursor == [stage |-> "null", historyId |-> 0, token |-> 0]
Mailbox == [status : {"none", "active", "paused", "disconnected", "reauth_required"},
            generation : 0 .. MaxGeneration + 1, cursor : Cursor]
Row == [present : BOOLEAN, available : BOOLEAN, owner : Workers \cup {NoWorker},
        lease : {"none", "live", "lapsed"}]
NoRow == [present |-> FALSE, available |-> FALSE, owner |-> NoWorker, lease |-> "none"]
\* page is the set of message ids still to be imported.
Iteration == [pc : {"idle", "claimed", "listing", "importing", "failing"},
              generation : 0 .. MaxGeneration + 1, cursor : Cursor, page : SUBSET Mail,
              error : {"none", "lost", "revoked", "reauth", "error"}]
Idle == [pc |-> "idle", generation |-> 0, cursor |-> NoCursor, page |-> {}, error |-> "none"]

TypeOK ==
  /\ arrived \in 0 .. MaxMail /\ horizon \in 0 .. arrived
  /\ box \in Mailbox /\ row \in Row
  /\ row.owner = NoWorker <=> row.lease = "none"
  /\ row.present <=> box.status = "active"
  /\ receipts \subseteq 1 .. arrived
  /\ member \in BOOLEAN
  /\ worker \in [Workers -> Iteration]
  /\ \A w \in Workers : worker[w].pc = "failing" <=> worker[w].error # "none"
  /\ faults \in 0 .. MaxFaults

Init ==
  /\ arrived = 0 /\ horizon = 0
  /\ box = [status |-> "none", generation |-> 0, cursor |-> NoCursor]
  /\ row = NoRow
  /\ receipts = {} /\ member = TRUE
  /\ worker = [w \in Workers |-> Idle]
  /\ faults = 0

Spend == faults < MaxFaults /\ faults' = faults + 1

-----------------------------------------------------------------------------
(* The provider and the members.                                           *)

Arrive ==
  /\ arrived < MaxMail /\ arrived' = arrived + 1
  /\ UNCHANGED <<horizon, box, row, receipts, member, worker, faults>>

\* The provider keeps history for a limited time only.
Forget ==
  /\ horizon < arrived /\ horizon' = arrived
  /\ UNCHANGED <<arrived, box, row, receipts, member, worker, faults>>

Ready == [NoRow EXCEPT !.present = TRUE, !.available = TRUE]

\* finishMailboxAuthorization: also of a connected mailbox, whose claim it takes away.
Connect ==
  /\ box.generation < MaxGeneration
  /\ box' = [status |-> "active", generation |-> box.generation + 1, cursor |-> NoCursor]
  /\ row' = Ready /\ member' = TRUE
  /\ UNCHANGED <<provider, receipts, worker, faults>>

\* updateMailbox: sync (active only) and resume keep the generation and a live claim.
Resume ==
  /\ box.status \in {"active", "paused"} /\ box.generation <= MaxGeneration
  /\ box' = [box EXCEPT !.status = "active"]
  /\ row' = IF row.present THEN [row EXCEPT !.available = TRUE] ELSE Ready
  /\ UNCHANGED <<provider, receipts, member, worker, faults>>

Stopped(status) ==
  /\ box' = [box EXCEPT !.status = status, !.generation = @ + 1,
                        !.cursor = IF status = "disconnected" THEN NoCursor ELSE @]
  /\ row' = NoRow

Stop(status) ==
  /\ box.status # "none" /\ box.generation <= MaxGeneration
  /\ Stopped(status)
  /\ UNCHANGED <<provider, receipts, member, worker, faults>>

ChangeMember ==
  /\ box.status # "none" /\ member' = ~member
  /\ UNCHANGED <<provider, box, row, receipts, worker, faults>>

-----------------------------------------------------------------------------
(* A worker.                                                               *)

Leave(w) == worker' = [worker EXCEPT ![w] = Idle]
Fails(w, error) == worker' = [worker EXCEPT ![w] = [Idle EXCEPT !.pc = "failing", !.error = error]]

\* Faulty variant: a claim under a lease that has lapsed is never taken over.
ClaimableUnleased == row.present /\ row.available /\ row.lease = "none"
\* claimMailbox.
Claimable == row.present /\ row.available /\ row.lease # "live"

Claim(w) ==
  /\ worker[w].pc = "idle" /\ Claimable
  /\ row' = [row EXCEPT !.owner = w, !.lease = "live"]
  /\ worker' = [worker EXCEPT ![w].pc = "claimed"]
  /\ UNCHANGED <<provider, box, receipts, member, faults>>

Holds(w) == row.owner = w /\ row.lease = "live"
\* Faulty variant: the mailbox is checked, neither the claim nor the generation.
CurrentByStatus(w) == box.status = "active"
\* assertClaim, apart from the membership.
Current(w) == box.status = "active" /\ Holds(w) /\ box.generation = worker[w].generation

\* The first assertClaim tests no generation, and reads it with the cursor.  Without a
\* cursor the profile is read next, before any message is listed.
Begin(w) ==
  /\ worker[w].pc = "claimed"
  /\ IF ~(box.status = "active" /\ Holds(w)) THEN Fails(w, "lost")
     ELSE IF ~member THEN Fails(w, "revoked")
     ELSE worker' = [worker EXCEPT ![w].pc = "listing", ![w].generation = box.generation,
                                   ![w].cursor = box.cursor]
  /\ UNCHANGED <<provider, box, row, receipts, member, faults>>

Page(w, ids, cursor) ==
  worker' = [worker EXCEPT ![w].pc = "importing", ![w].page = ids, ![w].cursor = cursor]

Profile(w) ==
  /\ worker[w].pc = "listing" /\ worker[w].cursor.stage = "null"
  /\ worker' = [worker EXCEPT ![w].cursor =
                  [stage |-> "backfill", historyId |-> arrived, token |-> 0]]
  /\ UNCHANGED <<provider, box, row, receipts, member, faults>>

\* Faulty variant: following the history starts where the backfill ends.
AnchorLate(historyId) == arrived
Anchor(historyId) == historyId

\* messages.list: the newest message older than the token; the last page ends the backfill.
Backfill(w) ==
  LET c == worker[w].cursor
      older == {m \in 1 .. arrived : c.token = 0 \/ m < c.token} IN
  /\ worker[w].pc = "listing" /\ c.stage = "backfill"
  /\ IF \E m, n \in older : m # n
       THEN Page(w, {Max(older)}, [c EXCEPT !.token = Max(older)])
       ELSE Page(w, older, [stage |-> "history", historyId |-> Anchor(c.historyId), token |-> 0])
  /\ UNCHANGED <<provider, box, row, receipts, member, faults>>

\* A history id that is too old starts a new backfill from a new anchor.
Restarted == [stage |-> "backfill", historyId |-> arrived, token |-> 0]

\* history.list: the oldest message after the token; the last page moves the anchor.
History(w) ==
  LET c == worker[w].cursor
      from == IF c.token = 0 THEN c.historyId ELSE c.token
      newer == {m \in 1 .. arrived : m > from} IN
  /\ worker[w].pc = "listing" /\ c.stage = "history"
  /\ IF c.historyId < horizon THEN Page(w, {}, Restarted)
     ELSE IF \E m, n \in newer : m # n
       THEN Page(w, {Min(newer)}, [c EXCEPT !.token = Min(newer)])
     ELSE Page(w, newer, [c EXCEPT !.historyId = arrived, !.token = 0])
  /\ UNCHANGED <<provider, box, row, receipts, member, faults>>

\* importMailboxMessage: a message that has a receipt is left alone; one that is gone,
\* oversize or invalid gets a receipt that says so.
Import(w, m) ==
  /\ worker[w].pc = "importing" /\ m \in worker[w].page
  /\ IF ~Current(w) THEN Fails(w, "lost") /\ UNCHANGED receipts
     ELSE IF ~member THEN Fails(w, "revoked") /\ UNCHANGED receipts
     ELSE /\ receipts' = receipts \cup {m}
          /\ worker' = [worker EXCEPT ![w].page = @ \ {m}]
  /\ UNCHANGED <<provider, box, row, member, faults>>

\* The new cursor and the end of the claim, in one transaction.
Finish(w) ==
  /\ worker[w].pc = "importing" /\ worker[w].page = {}
  /\ IF ~Current(w) THEN Fails(w, "lost") /\ UNCHANGED <<box, row>>
     ELSE IF ~member THEN Fails(w, "revoked") /\ UNCHANGED <<box, row>>
     ELSE /\ box' = [box EXCEPT !.cursor = worker[w].cursor]
          /\ row' = [NoRow EXCEPT !.present = TRUE]
          /\ Leave(w)
  /\ UNCHANGED <<provider, receipts, member, faults>>

\* releaseMailboxClaim, under the lease only; lost claims and passing errors are delayed.
Release(w) ==
  /\ worker[w].pc = "failing"
  /\ IF ~Holds(w) THEN UNCHANGED <<box, row>>
     ELSE IF worker[w].error = "revoked" THEN Stopped("paused")
     ELSE IF worker[w].error = "reauth" THEN Stopped("reauth_required")
     ELSE row' = [NoRow EXCEPT !.present = TRUE] /\ UNCHANGED box
  /\ Leave(w)
  /\ UNCHANGED <<provider, receipts, member, faults>>

-----------------------------------------------------------------------------
(* Time and faults.                                                        *)

BecomeAvailable ==
  /\ row.present /\ ~row.available
  /\ row' = [row EXCEPT !.available = TRUE]
  /\ UNCHANGED <<provider, box, receipts, member, worker, faults>>

\* A lease ends when nobody renews it; under its worker, which renews every 10 s, that is
\* a stall.
Attended == \E w \in Workers : row.owner = w /\ worker[w].pc # "idle"
Lapse ==
  /\ row.lease = "live"
  /\ IF Attended THEN Spend ELSE UNCHANGED faults
  /\ row' = [row EXCEPT !.lease = "lapsed"]
  /\ UNCHANGED <<provider, box, receipts, member, worker>>

\* A stop signal or a lost admission aborts the page; a call to the provider or the
\* database fails; the grant is revoked.
Throw(w) ==
  /\ worker[w].pc \notin {"idle", "failing"} /\ Spend
  /\ \E error \in {"lost", "reauth", "error"} : Fails(w, error)
  /\ UNCHANGED <<provider, box, row, receipts, member>>

Crash(w) ==
  /\ worker[w].pc # "idle" /\ Spend
  /\ Leave(w)
  /\ UNCHANGED <<provider, box, row, receipts, member>>

-----------------------------------------------------------------------------
Work(w) ==
  \/ Begin(w) \/ Profile(w) \/ Backfill(w) \/ History(w)
  \/ \E m \in Mail : Import(w, m)
  \/ Finish(w) \/ Release(w)

Next ==
  \/ Arrive \/ Forget
  \/ Connect \/ Resume \/ \E status \in {"paused", "disconnected"} : Stop(status)
  \/ ChangeMember \/ BecomeAvailable \/ Lapse
  \/ \E w \in Workers : Claim(w) \/ Work(w) \/ Throw(w) \/ Crash(w)

Spec == Init /\ [][Next]_vars

(* The worker loop runs and polls; delays and unattended leases end by the *)
(* clock.                                                                  *)
Fairness ==
  /\ \A w \in Workers : WF_vars(Work(w))
  /\ WF_vars(\E w \in Workers : Claim(w))
  /\ WF_vars(BecomeAvailable) /\ WF_vars(~Attended /\ Lapse)
LiveSpec == Spec /\ Fairness

-----------------------------------------------------------------------------
(* What must hold.                                                         *)

\* The messages a cursor says were collected.
Behind(c) ==
  CASE c.stage = "null" -> {}
    [] c.stage = "backfill" -> IF c.token = 0 THEN {} ELSE c.token .. c.historyId
    [] c.stage = "history" -> 1 .. (IF c.token = 0 THEN c.historyId ELSE c.token)

\* "A page cursor only advances after all its messages have durable receipts, so a crash
\* can replay a page safely": with the anchor taken before the backfill, mail that arrives
\* while it runs and history that is forgotten, no message behind the stored cursor lacks a
\* receipt.
CursorLeavesNothingBehind == Behind(box.cursor) \subseteq receipts

\* "Old workers cannot commit against the changed generation": receipts, cursor and schedule
\* are changed by a worker only while its own claim is live on an active mailbox of the
\* generation it read, whose connecting member still may collect.
StaleCollectorsChangeNothing ==
  [][\A w \in Workers :
       /\ worker'[w] # worker[w] /\ worker[w].pc \in {"importing", "failing"}
       /\ <<box, row, receipts>>' # <<box, row, receipts>>
       => /\ box.status = "active" /\ row.owner = w /\ row.lease = "live"
          /\ worker[w].pc # "failing" => box.generation = worker[w].generation /\ member]_vars

\* "Pages all accessible messages in the chosen range, then follows added-message history.
\* An expired history cursor triggers a new backfill": every message
\* gets a receipt while the mailbox stays active, once faults cease.
MailIsCollected ==
  \A m \in Mail :
    box.status = "active" /\ m <= arrived
      ~> m \in receipts \/ box.status # "active" \/ ~member
=============================================================================
