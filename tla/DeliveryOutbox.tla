-------------------------- MODULE DeliveryOutbox --------------------------
(***************************************************************************)
(* The e-mail outbox app_delivery_outbox: the requests that queue password *)
(* reset and invitation mails, and the delivery workers that sweep, claim, *)
(* send through SMTP and settle.  Every statement of deliverOne commits by *)
(* itself, so each one is an action and everything interleaves with them.  *)
(*                                                                         *)
(* A claim is recognised by its lease instant only.  The database keeps    *)
(* microseconds; the driver hands the instant over as a Date, which keeps  *)
(* milliseconds, and the settling statements compare the two for equality. *)
(* One claim of a message differs from another in its attempt, so an       *)
(* instant is that number with the flag whether it is a whole millisecond. *)
(***************************************************************************)
EXTENDS Naturals

CONSTANTS
  Workers,      \* delivery worker processes
  Messages,     \* outbox ids; random UUIDs, never reused
  NoMessage,    \* a worker with no claim
  NoWorker,     \* a message nobody has claimed
  MaxAttempts,  \* 3 in the code
  MaxFaults     \* bound on crashes, stalls, lost answers and database errors

ASSUME ConstantsAssumption ==
  /\ NoMessage \notin Messages /\ NoWorker \notin Workers
  /\ MaxAttempts \in Nat \ {0} /\ MaxFaults \in Nat

VARIABLES
  row,       \* app_delivery_outbox
  expired,   \* expires_at has passed
  worker,    \* the statement of deliverOne each worker is at
  faults,    \* faults spent
  holder,    \* history: whose claim of a message is the latest
  accepted   \* history: how often the relay took a message

vars == <<row, expired, worker, faults, holder, accepted>>

Instant == [attempt : Nat, whole : BOOLEAN]
NoInstant == [attempt |-> 0, whole |-> TRUE]

Row == [status : {"absent", "pending", "sending", "sent", "failed", "expired"},
        payload : {"none", "secret", "tombstone"},
        attempts : Nat, available : BOOLEAN,
        lease : {"null", "live", "lapsed"}, until : Instant]
NoRow == [status |-> "absent", payload |-> "none", attempts |-> 0,
          available |-> FALSE, lease |-> "null", until |-> NoInstant]

Iteration == [pc : {"idle", "selecting", "expiring", "claiming", "sending", "succeeded",
                    "failing"},
              todo : SUBSET Messages, msg : Messages \cup {NoMessage}, until : Instant]
Idle == [pc |-> "idle", todo |-> {}, msg |-> NoMessage, until |-> NoInstant]
Claimed == {"sending", "succeeded", "failing"}

TypeOK ==
  /\ row \in [Messages -> Row]
  /\ expired \in [Messages -> BOOLEAN]
  /\ worker \in [Workers -> Iteration]
  /\ \A w \in Workers : worker[w].pc \in Claimed <=> worker[w].msg \in Messages
  /\ faults \in 0 .. MaxFaults
  /\ holder \in [Messages -> Workers \cup {NoWorker}]
  /\ accepted \in [Messages -> Nat]

Init ==
  /\ row = [m \in Messages |-> NoRow]
  /\ expired = [m \in Messages |-> FALSE]
  /\ worker = [w \in Workers |-> Idle]
  /\ faults = 0
  /\ holder = [m \in Messages |-> NoWorker]
  /\ accepted = [m \in Messages |-> 0]

-----------------------------------------------------------------------------
\* A request queues a mail (invitations and resets, while e-mail is enabled).
Enqueue(m) ==
  /\ row[m].status = "absent"
  /\ row' = [row EXCEPT ![m] = [NoRow EXCEPT !.status = "pending", !.payload = "secret",
                                            !.available = TRUE]]
  /\ UNCHANGED <<expired, worker, faults, holder, accepted>>

Move(w, pc) == worker' = [worker EXCEPT ![w].pc = pc]
Leave(w) == worker' = [worker EXCEPT ![w] = Idle]
Spend == faults < MaxFaults /\ faults' = faults + 1

\* Faulty variant: the sweep waits for one attempt more than a claim allows.
ExhaustedBeyond(m) ==
  /\ row[m].status = "sending" /\ row[m].lease = "lapsed"
  /\ row[m].attempts > MaxAttempts /\ ~expired[m]
\* The final lease of a message ended without an outcome.
Exhausted(m) ==
  /\ row[m].status = "sending" /\ row[m].lease = "lapsed"
  /\ row[m].attempts >= MaxAttempts /\ ~expired[m]

SweepExhausted(w) ==
  /\ worker[w].pc = "idle"
  /\ row' = [m \in Messages |->
               IF Exhausted(m)
                 THEN [row[m] EXCEPT !.status = "failed", !.lease = "null", !.until = NoInstant]
                 ELSE row[m]]
  /\ Move(w, "selecting")
  /\ UNCHANGED <<expired, faults, holder, accepted>>

\* Faulty variant: failed messages are not selected.
SelectLive(w) ==
  /\ worker[w].pc = "selecting"
  /\ worker' = [worker EXCEPT
       ![w].pc = "expiring",
       ![w].todo = {m \in Messages : expired[m] /\ row[m].status \in {"pending", "sending"}}]
  /\ UNCHANGED <<row, expired, faults, holder, accepted>>

\* The ids of the messages to expire are read first (at most 100 of them) ...
SelectExpired(w) ==
  /\ worker[w].pc = "selecting"
  /\ worker' = [worker EXCEPT
       ![w].pc = "expiring",
       ![w].todo = {m \in Messages : expired[m]
                                       /\ row[m].status \in {"pending", "failed", "sending"}}]
  /\ UNCHANGED <<row, expired, faults, holder, accepted>>

Tombstoned(r) ==
  [r EXCEPT !.status = "expired", !.payload = "tombstone", !.lease = "null",
            !.until = NoInstant]

\* ... and expired one by one, whatever their status is by then.
Expire(w, m) ==
  /\ worker[w].pc = "expiring" /\ m \in worker[w].todo
  /\ row' = [row EXCEPT ![m] = Tombstoned(@)]
  /\ worker' = [worker EXCEPT ![w].todo = @ \ {m}]
  /\ UNCHANGED <<expired, faults, holder, accepted>>

ExpiredAll(w) ==
  /\ worker[w].pc = "expiring" /\ worker[w].todo = {}
  /\ Move(w, "claiming")
  /\ UNCHANGED <<row, expired, faults, holder, accepted>>

Claimable(m) ==
  /\ row[m].status \in {"pending", "sending"} /\ row[m].available /\ ~expired[m]
  /\ row[m].lease # "live" /\ row[m].attempts < MaxAttempts

\* What a Date keeps of an instant; equality with the original needs a whole millisecond.
SameInstant(stored, date) == stored = date /\ stored.whole

Claim(w, m) ==
  /\ worker[w].pc = "claiming" /\ Claimable(m)
  /\ \E whole \in BOOLEAN :
       LET until == [attempt |-> row[m].attempts + 1, whole |-> whole] IN
       /\ row' = [row EXCEPT ![m].status = "sending", ![m].attempts = @ + 1,
                             ![m].lease = "live", ![m].until = until]
       /\ worker' = [worker EXCEPT ![w] =
            [pc |-> "sending", todo |-> {}, msg |-> m, until |-> until]]
  /\ holder' = [holder EXCEPT ![m] = w]
  /\ UNCHANGED <<expired, faults, accepted>>

NothingToClaim(w) ==
  /\ worker[w].pc = "claiming" /\ \A m \in Messages : ~Claimable(m)
  /\ Leave(w)
  /\ UNCHANGED <<row, expired, faults, holder, accepted>>

Take(m) == accepted' = [accepted EXCEPT ![m] = @ + 1]

\* The relay takes the mail ...
Accept(w) ==
  /\ worker[w].pc = "sending"
  /\ Take(worker[w].msg)
  /\ Move(w, "succeeded")
  /\ UNCHANGED <<row, expired, faults, holder>>

\* ... or takes it and the answer is lost, or 45 s are over ...
AcceptUnanswered(w) ==
  /\ worker[w].pc = "sending" /\ Spend
  /\ Take(worker[w].msg)
  /\ Move(w, "failing")
  /\ UNCHANGED <<row, expired, holder>>

\* ... or refuses it, the admission is withdrawn or the payload does not decrypt.
Refuse(w) ==
  /\ worker[w].pc = "sending"
  /\ Move(w, "failing")
  /\ UNCHANGED <<row, expired, faults, holder, accepted>>

\* Faulty variant: the settling statements test the status only.
OwnsByStatus(w) == row[worker[w].msg].status = "sending"
\* WHERE id = $1 AND status = 'sending' AND lease_until = $lease
Owns(w) ==
  LET r == row[worker[w].msg] IN
  r.status = "sending" /\ r.lease # "null" /\ SameInstant(r.until, worker[w].until)

SettleSent(w) ==
  LET m == worker[w].msg IN
  /\ worker[w].pc = "succeeded"
  /\ row' = IF Owns(w)
              THEN [row EXCEPT ![m].status = "sent", ![m].payload = "tombstone",
                               ![m].lease = "null", ![m].until = NoInstant]
              ELSE row
  /\ Leave(w)
  /\ UNCHANGED <<expired, faults, holder, accepted>>

\* The database refuses the statement: the catch block takes it for a failed delivery.
SettleThrows(w) ==
  /\ worker[w].pc = "succeeded" /\ Spend
  /\ Move(w, "failing")
  /\ UNCHANGED <<row, expired, holder, accepted>>

SettleFailed(w) ==
  LET m == worker[w].msg IN
  /\ worker[w].pc = "failing"
  /\ row' = IF Owns(w)
              THEN [row EXCEPT
                     ![m].status = IF row[m].attempts >= MaxAttempts THEN "failed" ELSE "pending",
                     ![m].available = FALSE, ![m].lease = "null", ![m].until = NoInstant]
              ELSE row
  /\ Leave(w)
  /\ UNCHANGED <<expired, faults, holder, accepted>>

-----------------------------------------------------------------------------
(* Time and faults.                                                        *)

Attended(m) ==
  \E w \in Workers : worker[w].msg = m /\ worker[w].until = row[m].until

\* 90 s pass; with its worker still at work (a send is cut off at 45 s) that is a stall.
Lapse(m) ==
  /\ row[m].lease = "live"
  /\ IF Attended(m) THEN Spend ELSE UNCHANGED faults
  /\ row' = [row EXCEPT ![m].lease = "lapsed"]
  /\ UNCHANGED <<expired, worker, holder, accepted>>

\* available_at passes, 60 s after a failure.
BecomeAvailable(m) ==
  /\ row[m].status = "pending" /\ ~row[m].available
  /\ row' = [row EXCEPT ![m].available = TRUE]
  /\ UNCHANGED <<expired, worker, faults, holder, accepted>>

\* expires_at passes.
TokenExpires(m) ==
  /\ row[m].status # "absent" /\ ~expired[m]
  /\ expired' = [expired EXCEPT ![m] = TRUE]
  /\ UNCHANGED <<row, worker, faults, holder, accepted>>

\* The process ends, or a statement fails outside the try block and it is restarted.
Crash(w) ==
  /\ worker[w].pc # "idle" /\ Spend
  /\ Leave(w)
  /\ UNCHANGED <<row, expired, holder, accepted>>

-----------------------------------------------------------------------------
Work(w) ==
  \/ SweepExhausted(w) \/ SelectExpired(w) \/ ExpiredAll(w) \/ NothingToClaim(w)
  \/ \E m \in Messages : Expire(w, m) \/ Claim(w, m)
  \/ Accept(w) \/ Refuse(w) \/ SettleSent(w) \/ SettleFailed(w)

Fault(w) == AcceptUnanswered(w) \/ SettleThrows(w) \/ Crash(w)

Next ==
  \/ \E w \in Workers : Work(w) \/ Fault(w)
  \/ \E m \in Messages : Enqueue(m) \/ Lapse(m) \/ BecomeAvailable(m) \/ TokenExpires(m)

Spec == Init /\ [][Next]_vars

(* The loop of each worker runs, restarted by its service manager, clocks  *)
(* advance, and the oldest available message is claimed first.             *)
Fairness ==
  /\ \A w \in Workers : WF_vars(Work(w))
  /\ \A m \in Messages :
       /\ WF_vars(BecomeAvailable(m)) /\ WF_vars(~Attended(m) /\ Lapse(m))
       /\ SF_vars(\E w \in Workers : Claim(w, m))
LiveSpec == Spec /\ Fairness

-----------------------------------------------------------------------------
(* What must hold.                                                         *)

\* The answer to an old claim (of a worker that stalled beyond its lease while another
\* one claimed the message) changes nothing: only the latest claim settles a message.
OnlyLatestClaimSettles ==
  [][\A w \in Workers, m \in Messages :
       worker[w].pc \in {"succeeded", "failing"} /\ worker'[w] = Idle
         /\ row'[m] # row[m] =>
           worker[w].msg = m /\ holder[m] = w]_vars

\* "Failed messages retain encrypted contents only until token expiry": once a token has
\* expired its secret is removed, whatever state the message was in.
SecretsEndWithToken ==
  \A m \in Messages : expired[m] ~> row[m].payload = "tombstone"

\* Every queued message leaves the queue, even if nobody ever records an outcome.
EveryMessageEnds ==
  \A m \in Messages :
    row[m].status = "pending" ~> row[m].status \in {"sent", "failed", "expired"}

\* "Delivery is at least once across a process crash": without any fault (a crash, a
\* stall, a lost answer, a database error) the relay takes a message at most once.
OnceWithoutFaults == faults = 0 => \A m \in Messages : accepted[m] <= 1
=============================================================================
