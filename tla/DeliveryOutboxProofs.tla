------------------------ MODULE DeliveryOutboxProofs ------------------------
(***************************************************************************)
(* Proofs about DeliveryOutbox for any number of workers, messages and     *)
(* faults, and any limit of attempts.                                      *)
(***************************************************************************)
EXTENDS DeliveryOutbox, TLAPS

\* The instant on a row, if there is one, is that of its last attempt.
RowKnows(m) ==
  /\ row[m].lease # "null" => row[m].until.attempt = row[m].attempts
  /\ row[m].lease = "null" => row[m].until = NoInstant

\* A claim is of an attempt the row has had, and of its last one only if it is the latest.
ClaimKnows(w) ==
  worker[w].pc \in Claimed =>
    /\ worker[w].until.attempt <= row[worker[w].msg].attempts
    /\ worker[w].until.attempt = row[worker[w].msg].attempts => holder[worker[w].msg] = w

\* A message that is not queued has had no attempt.
Absent(m) == row[m].status = "absent" => row[m] = NoRow

IInv ==
  /\ TypeOK
  /\ \A m \in Messages : RowKnows(m) /\ Absent(m)
  /\ \A w \in Workers : ClaimKnows(w)

-----------------------------------------------------------------------------
(* Rows and iterations.                                                    *)

LEMMA WrittenTypes ==
  /\ NoInstant \in Instant /\ NoInstant.attempt = 0
  /\ NoRow \in Row /\ NoRow.lease = "null" /\ NoRow.until = NoInstant
  /\ Idle \in Iteration /\ Idle.pc = "idle" /\ Idle.msg = NoMessage
<1>1. NoInstant \in Instant /\ NoInstant.attempt = 0
  BY DEF NoInstant, Instant
<1>2. NoRow \in Row /\ NoRow.lease = "null" /\ NoRow.until = NoInstant
  BY <1>1 DEF NoRow, Row
<1> QED
  BY <1>1, <1>2 DEF Idle, Iteration

LEMMA InitIInv == Init => IInv
  BY WrittenTypes, ConstantsAssumption
     DEF Init, IInv, TypeOK, RowKnows, ClaimKnows, Absent, Claimed

\* A row that is rewritten without a new attempt disturbs no claim.
LEMMA SettledRow ==
  ASSUME IInv, NEW m \in Messages, NEW r \in Row, row' = [row EXCEPT ![m] = r],
         r.attempts = row[m].attempts, r.status # "absent",
         r.lease # "null" => r.lease \in {"live", "lapsed"} /\ row[m].lease # "null"
                             /\ r.until = row[m].until,
         r.lease = "null" => r.until = NoInstant,
         holder' = holder
  PROVE  /\ row' \in [Messages -> Row]
         /\ \A n \in Messages : RowKnows(n)' /\ Absent(n)'
         /\ \A n \in Messages : row'[n].attempts = row[n].attempts
<1>1. /\ row' \in [Messages -> Row] /\ row'[m] = r
      /\ \A n \in Messages \ {m} : row'[n] = row[n]
  BY DEF IInv, TypeOK
<1> QED
  BY <1>1 DEF IInv, RowKnows, Absent

\* A worker that goes on with the claim it has, gives it up or has none keeps ClaimKnows.
LEMMA KeptClaims ==
  ASSUME IInv, NEW w \in Workers, NEW i \in Iteration, worker' = [worker EXCEPT ![w] = i],
         \/ i.pc \notin Claimed /\ i.msg = NoMessage
         \/ i.pc \in Claimed /\ i.msg = worker[w].msg /\ i.until = worker[w].until
            /\ worker[w].pc \in Claimed,
         \A n \in Messages : row'[n].attempts = row[n].attempts,
         holder' = holder
  PROVE  /\ worker' \in [Workers -> Iteration]
         /\ \A v \in Workers : worker'[v].pc \in Claimed <=> worker'[v].msg \in Messages
         /\ \A v \in Workers : ClaimKnows(v)'
<1>1. /\ worker' \in [Workers -> Iteration] /\ worker'[w] = i
      /\ \A v \in Workers \ {w} : worker'[v] = worker[v]
  BY DEF IInv, TypeOK
<1>2. \A v \in Workers : worker'[v].pc \in Claimed <=> worker'[v].msg \in Messages
  BY <1>1, ConstantsAssumption DEF IInv, TypeOK
<1>3. ASSUME NEW v \in Workers, worker'[v].pc \in Claimed PROVE ClaimKnows(v)'
  <2>1. /\ worker[v].pc \in Claimed /\ worker[v].msg \in Messages
        /\ worker'[v].msg = worker[v].msg /\ worker'[v].until = worker[v].until
    BY <1>1, <1>3 DEF IInv, TypeOK
  <2> QED
    BY <1>3, <2>1 DEF IInv, ClaimKnows
<1> QED
  BY <1>1, <1>2, <1>3 DEF ClaimKnows

\* An iteration at another statement.
LEMMA MovedIteration ==
  ASSUME TypeOK, NEW w \in Workers,
         NEW pc \in {"idle", "selecting", "expiring", "claiming", "sending", "succeeded", "failing"}
  PROVE  /\ [worker[w] EXCEPT !.pc = pc] \in Iteration
         /\ [worker[w] EXCEPT !.pc = pc].pc = pc
         /\ [worker[w] EXCEPT !.pc = pc].msg = worker[w].msg
         /\ [worker[w] EXCEPT !.pc = pc].until = worker[w].until
         /\ worker[w].pc \notin Claimed => worker[w].msg = NoMessage
  BY DEF TypeOK, Iteration

\* Nothing about the claims changes when neither row nor worker does.
LEMMA SameClaims ==
  ASSUME IInv, UNCHANGED <<row, worker, holder>>, expired' \in [Messages -> BOOLEAN],
         faults' \in 0 .. MaxFaults, accepted' \in [Messages -> Nat]
  PROVE  IInv'
  BY DEF IInv, TypeOK, RowKnows, ClaimKnows, Absent

-----------------------------------------------------------------------------
(* The requests, and the statements before a claim.                        *)

LEMMA EnqueueStep == ASSUME IInv, NEW m \in Messages, Enqueue(m) PROVE IInv'
<1> DEFINE r == [NoRow EXCEPT !.status = "pending", !.payload = "secret", !.available = TRUE]
<1>1. /\ r \in Row /\ r.attempts = NoRow.attempts /\ r.lease = "null" /\ r.until = NoInstant
      /\ r.status = "pending"
  BY WrittenTypes DEF Row
<1>2. row[m] = NoRow /\ row' = [row EXCEPT ![m] = r]
  BY DEF Enqueue, IInv, Absent
<1> HIDE DEF r
<1>3. /\ row' \in [Messages -> Row] /\ \A n \in Messages : RowKnows(n)' /\ Absent(n)'
      /\ \A n \in Messages : row'[n].attempts = row[n].attempts
  BY <1>1, <1>2, SettledRow DEF Enqueue
<1> QED
  BY <1>3 DEF Enqueue, IInv, TypeOK, ClaimKnows

LEMMA SweepStep == ASSUME IInv, NEW w \in Workers, SweepExhausted(w) PROVE IInv'
<1>1. ASSUME NEW m \in Messages, Exhausted(m)
      PROVE  LET r == [row[m] EXCEPT !.status = "failed", !.lease = "null", !.until = NoInstant]
             IN  /\ r \in Row /\ r.status = "failed" /\ r.lease = "null" /\ r.until = NoInstant
                 /\ r.attempts = row[m].attempts
  BY <1>1, WrittenTypes DEF IInv, TypeOK, Row
<1>2. \A m \in Messages :
        /\ row'[m] \in Row /\ row'[m].attempts = row[m].attempts
        /\ \/ row'[m] = row[m]
           \/ row'[m].status = "failed" /\ row'[m].lease = "null" /\ row'[m].until = NoInstant
  <2> SUFFICES ASSUME NEW m \in Messages
               PROVE  /\ row'[m] \in Row /\ row'[m].attempts = row[m].attempts
                      /\ \/ row'[m] = row[m]
                         \/ /\ row'[m].status = "failed" /\ row'[m].lease = "null"
                            /\ row'[m].until = NoInstant
    OBVIOUS
  <2>1. CASE Exhausted(m)
    BY <1>1, <2>1 DEF SweepExhausted
  <2>2. CASE ~Exhausted(m)
    BY <2>2 DEF SweepExhausted, IInv, TypeOK
  <2> QED
    BY <2>1, <2>2
<1>3. row' \in [Messages -> Row]
  BY <1>2 DEF SweepExhausted
<1>4. \A m \in Messages : RowKnows(m)' /\ Absent(m)'
  BY <1>2 DEF IInv, RowKnows, Absent
<1>5. /\ worker' \in [Workers -> Iteration]
      /\ \A v \in Workers : worker'[v].pc \in Claimed <=> worker'[v].msg \in Messages
      /\ \A v \in Workers : ClaimKnows(v)'
  <2> DEFINE i == [worker[w] EXCEPT !.pc = "selecting"]
  <2>1. /\ i \in Iteration /\ i.pc \notin Claimed /\ i.msg = NoMessage
        /\ worker' = [worker EXCEPT ![w] = i]
    BY MovedIteration DEF SweepExhausted, Move, IInv, Claimed
  <2> HIDE DEF i
  <2> QED
    BY <1>2, <2>1, KeptClaims DEF SweepExhausted
<1> QED
  BY <1>3, <1>4, <1>5 DEF SweepExhausted, IInv, TypeOK

\* The statements that change no row.
LEMMA IdleStep ==
  ASSUME IInv, NEW w \in Workers, SelectExpired(w) \/ ExpiredAll(w) \/ NothingToClaim(w)
  PROVE  IInv'
<1>1. PICK i \in Iteration :
        i.pc \notin Claimed /\ i.msg = NoMessage /\ worker' = [worker EXCEPT ![w] = i]
  <2>1. CASE SelectExpired(w)
    <3> DEFINE todo == {m \in Messages : expired[m]
                                           /\ row[m].status \in {"pending", "failed", "sending"}}
               i == [worker[w] EXCEPT !.pc = "expiring", !.todo = todo]
    <3>1. todo \in SUBSET Messages /\ worker[w] \in Iteration /\ worker[w].msg = NoMessage
      BY <2>1, MovedIteration DEF SelectExpired, IInv, TypeOK, Claimed
    <3>2. worker' = [worker EXCEPT ![w] = i]
      BY <2>1 DEF SelectExpired
    <3> HIDE DEF todo
    <3>3. i \in Iteration /\ i.pc = "expiring" /\ i.msg = NoMessage
      BY <3>1 DEF Iteration
    <3> QED
      BY <3>2, <3>3 DEF Claimed
  <2>2. CASE ExpiredAll(w)
    BY <2>2, MovedIteration DEF ExpiredAll, Move, IInv, Claimed
  <2>3. CASE NothingToClaim(w)
    BY <2>3, WrittenTypes DEF NothingToClaim, Leave, Claimed
  <2> QED
    BY <2>1, <2>2, <2>3
<1>2. UNCHANGED <<row, expired, faults, holder, accepted>>
  BY DEF SelectExpired, ExpiredAll, NothingToClaim
<1>3. /\ worker' \in [Workers -> Iteration]
      /\ \A v \in Workers : worker'[v].pc \in Claimed <=> worker'[v].msg \in Messages
      /\ \A v \in Workers : ClaimKnows(v)'
  BY <1>1, <1>2, KeptClaims
<1> QED
  BY <1>2, <1>3 DEF IInv, TypeOK, RowKnows, Absent

LEMMA ExpireStep == ASSUME IInv, NEW w \in Workers, NEW m \in Messages, Expire(w, m) PROVE IInv'
<1> DEFINE r == Tombstoned(row[m])
           i == [worker[w] EXCEPT !.todo = @ \ {m}]
<1>1. row[m] \in Row /\ worker[w] \in Iteration /\ worker[w].pc = "expiring"
  BY DEF Expire, IInv, TypeOK
<1>2. /\ r \in Row /\ r.attempts = row[m].attempts /\ r.status = "expired"
      /\ r.lease = "null" /\ r.until = NoInstant
  BY <1>1, WrittenTypes DEF Row, Tombstoned
<1>3. i \in Iteration /\ i.pc = "expiring" /\ i.msg = worker[w].msg
  BY <1>1 DEF Iteration
<1>4. worker[w].msg = NoMessage
  BY <1>1, MovedIteration DEF IInv, Claimed
<1>5. row' = [row EXCEPT ![m] = r] /\ worker' = [worker EXCEPT ![w] = i]
  BY DEF Expire
<1> HIDE DEF r, i
<1>6. /\ row' \in [Messages -> Row] /\ \A n \in Messages : RowKnows(n)' /\ Absent(n)'
      /\ \A n \in Messages : row'[n].attempts = row[n].attempts
  BY <1>2, <1>5, SettledRow DEF Expire
<1>7. /\ worker' \in [Workers -> Iteration]
      /\ \A v \in Workers : worker'[v].pc \in Claimed <=> worker'[v].msg \in Messages
      /\ \A v \in Workers : ClaimKnows(v)'
  BY <1>3, <1>4, <1>5, <1>6, KeptClaims DEF Expire, Claimed
<1> QED
  BY <1>6, <1>7 DEF Expire, IInv, TypeOK

-----------------------------------------------------------------------------
(* The claim, the relay's answers and the settling statements.             *)

LEMMA ClaimStep == ASSUME IInv, NEW w \in Workers, NEW m \in Messages, Claim(w, m) PROVE IInv'
<1>1. PICK whole \in BOOLEAN :
        LET until == [attempt |-> row[m].attempts + 1, whole |-> whole] IN
        /\ row' = [row EXCEPT ![m].status = "sending", ![m].attempts = @ + 1,
                              ![m].lease = "live", ![m].until = until]
        /\ worker' = [worker EXCEPT ![w] =
             [pc |-> "sending", todo |-> {}, msg |-> m, until |-> until]]
  BY DEF Claim
<1> DEFINE until == [attempt |-> row[m].attempts + 1, whole |-> whole]
           count == row[m].attempts + 1
           r == [row[m] EXCEPT !.status = "sending", !.attempts = count, !.lease = "live",
                               !.until = until]
           i == [pc |-> "sending", todo |-> {}, msg |-> m, until |-> until]
<1>2. row[m] \in Row /\ row[m].attempts \in Nat /\ count \in Nat /\ count > row[m].attempts
  BY DEF IInv, TypeOK, Row
<1>3. until \in Instant /\ until.attempt = count
  BY <1>2 DEF Instant
<1>4. row' = [row EXCEPT ![m] = r] /\ worker' = [worker EXCEPT ![w] = i]
  BY <1>1, <1>2 DEF IInv, TypeOK, Row
<1> HIDE DEF until, count
<1>5. /\ r \in Row /\ r.attempts = count /\ r.lease = "live"
      /\ r.until = until /\ r.status = "sending"
  BY <1>2, <1>3 DEF Row
<1>6. i \in Iteration /\ i.pc = "sending" /\ i.msg = m /\ i.until = until
  BY <1>3 DEF Iteration
<1> HIDE DEF r, i
<1>7. /\ row' \in [Messages -> Row] /\ row'[m] = r
      /\ \A n \in Messages \ {m} : row'[n] = row[n]
      /\ worker' \in [Workers -> Iteration] /\ worker'[w] = i
      /\ \A v \in Workers \ {w} : worker'[v] = worker[v]
  BY <1>4, <1>5, <1>6 DEF IInv, TypeOK
<1>8. /\ holder' \in [Messages -> Workers \cup {NoWorker}] /\ holder'[m] = w
      /\ \A n \in Messages \ {m} : holder'[n] = holder[n]
  BY DEF Claim, IInv, TypeOK
<1>9. \A n \in Messages : RowKnows(n)' /\ Absent(n)'
  BY <1>3, <1>5, <1>7 DEF IInv, RowKnows, Absent
<1>10. \A v \in Workers : worker'[v].pc \in Claimed <=> worker'[v].msg \in Messages
  BY <1>6, <1>7 DEF IInv, TypeOK, Claimed
<1>11. ASSUME NEW v \in Workers PROVE ClaimKnows(v)'
  <2>1. CASE v = w
    BY <1>2, <1>3, <1>5, <1>6, <1>7, <1>8, <2>1 DEF ClaimKnows
  <2>2. CASE v # w /\ worker[v].pc \in Claimed
    <3>1. /\ worker'[v] = worker[v] /\ worker[v].msg \in Messages /\ worker[v].until.attempt \in Nat
          /\ worker[v].until.attempt <= row[worker[v].msg].attempts
          /\ worker[v].until.attempt = row[worker[v].msg].attempts => holder[worker[v].msg] = v
      BY <1>7, <2>2 DEF IInv, TypeOK, ClaimKnows, Iteration, Instant
    <3>2. CASE worker[v].msg = m
      BY <1>2, <1>5, <1>7, <3>1, <3>2 DEF ClaimKnows
    <3>3. CASE worker[v].msg # m
      BY <1>7, <1>8, <3>1, <3>3 DEF ClaimKnows
    <3> QED
      BY <3>2, <3>3
  <2>3. CASE v # w /\ worker[v].pc \notin Claimed
    BY <1>7, <2>3 DEF ClaimKnows
  <2> QED
    BY <2>1, <2>2, <2>3
<1> QED
  BY <1>7, <1>8, <1>9, <1>10, <1>11 DEF Claim, IInv, TypeOK

\* The relay's answer, or the refusal of the settling statement, moves the worker on.
LEMMA AnswerStep ==
  ASSUME IInv, NEW w \in Workers,
         Accept(w) \/ AcceptUnanswered(w) \/ Refuse(w) \/ SettleThrows(w)
  PROVE  IInv'
<1>1. worker[w].pc \in Claimed /\ worker[w].msg \in Messages
  BY DEF Accept, AcceptUnanswered, Refuse, SettleThrows, Claimed, IInv, TypeOK
<1>2. PICK i \in Iteration : /\ i.pc \in Claimed /\ i.msg = worker[w].msg
                             /\ i.until = worker[w].until /\ worker' = [worker EXCEPT ![w] = i]
  BY MovedIteration
     DEF Accept, AcceptUnanswered, Refuse, SettleThrows, Move, IInv, Claimed
<1>3. UNCHANGED <<row, expired, holder>> /\ faults' \in 0 .. MaxFaults
  BY ConstantsAssumption
     DEF Accept, AcceptUnanswered, Refuse, SettleThrows, Spend, IInv, TypeOK
<1>4. accepted' \in [Messages -> Nat]
  BY <1>1 DEF Accept, AcceptUnanswered, Refuse, SettleThrows, Take, IInv, TypeOK
<1>5. /\ worker' \in [Workers -> Iteration]
      /\ \A v \in Workers : worker'[v].pc \in Claimed <=> worker'[v].msg \in Messages
      /\ \A v \in Workers : ClaimKnows(v)'
  BY <1>1, <1>2, <1>3, KeptClaims
<1> QED
  BY <1>3, <1>4, <1>5 DEF IInv, TypeOK, RowKnows, Absent

\* A settled or abandoned iteration: the rows keep their attempts, the worker its peace.
LEMMA LeaveStep ==
  ASSUME IInv, NEW w \in Workers, SettleSent(w) \/ SettleFailed(w) \/ Crash(w)
  PROVE  IInv'
<1>1. /\ row' \in [Messages -> Row] /\ \A n \in Messages : RowKnows(n)' /\ Absent(n)'
      /\ \A n \in Messages : row'[n].attempts = row[n].attempts
  <2>1. CASE row' = row
    BY <2>1 DEF IInv, TypeOK, RowKnows, Absent
  <2>2. CASE row' # row
    <3> DEFINE m == worker[w].msg
               status == IF worker[w].pc = "succeeded" THEN "sent"
                         ELSE IF row[m].attempts >= MaxAttempts THEN "failed" ELSE "pending"
               s == [row[m] EXCEPT !.status = "sent", !.payload = "tombstone", !.lease = "null",
                                   !.until = NoInstant]
               f == [row[m] EXCEPT !.status = IF row[m].attempts >= MaxAttempts
                                                THEN "failed" ELSE "pending",
                                   !.available = FALSE, !.lease = "null", !.until = NoInstant]
    <3>1. SettleSent(w) \/ SettleFailed(w)
      BY <2>2 DEF Crash
    <3>2. worker[w].pc \in Claimed /\ m \in Messages /\ row[m] \in Row
      BY <3>1 DEF SettleSent, SettleFailed, Claimed, IInv, TypeOK
    <3>3. /\ s \in Row /\ s.attempts = row[m].attempts /\ s.status = "sent" /\ s.lease = "null"
          /\ s.until = NoInstant
      BY <3>2, WrittenTypes DEF Row
    <3>4. /\ f \in Row /\ f.attempts = row[m].attempts /\ f.status # "absent" /\ f.lease = "null"
          /\ f.until = NoInstant
      BY <3>2, WrittenTypes DEF Row
    <3>5. SettleSent(w) => row' = [row EXCEPT ![m] = s]
      BY <2>2, <3>2 DEF SettleSent
    <3>6. SettleFailed(w) => row' = [row EXCEPT ![m] = f]
      BY <2>2, <3>2 DEF SettleFailed
    <3>7. holder' = holder
      BY DEF SettleSent, SettleFailed, Crash
    <3> HIDE DEF m, s, f
    <3>8. CASE SettleSent(w)
      BY <3>2, <3>3, <3>5, <3>7, <3>8, SettledRow
    <3>9. CASE SettleFailed(w)
      BY <3>2, <3>4, <3>6, <3>7, <3>9, SettledRow
    <3> QED
      BY <3>1, <3>8, <3>9
  <2> QED
    BY <2>1, <2>2
<1>2. worker' = [worker EXCEPT ![w] = Idle] /\ UNCHANGED <<expired, holder, accepted>>
  BY DEF SettleSent, SettleFailed, Crash, Leave
<1>3. faults' \in 0 .. MaxFaults
  BY ConstantsAssumption DEF SettleSent, SettleFailed, Crash, Spend, IInv, TypeOK
<1>4. /\ worker' \in [Workers -> Iteration]
      /\ \A v \in Workers : worker'[v].pc \in Claimed <=> worker'[v].msg \in Messages
      /\ \A v \in Workers : ClaimKnows(v)'
  BY <1>1, <1>2, WrittenTypes, KeptClaims DEF Claimed
<1> QED
  BY <1>1, <1>2, <1>3, <1>4 DEF IInv, TypeOK

-----------------------------------------------------------------------------
(* Time, and the theorems.                                                 *)

LEMMA TimeStep ==
  ASSUME IInv, NEW m \in Messages, Lapse(m) \/ BecomeAvailable(m) \/ TokenExpires(m)
  PROVE  IInv'
<1>1. CASE TokenExpires(m)
  BY <1>1, SameClaims DEF TokenExpires, IInv, TypeOK
<1>2. CASE Lapse(m) \/ BecomeAvailable(m)
  <2>1. PICK r \in Row :
          /\ row' = [row EXCEPT ![m] = r]
          /\ r.attempts = row[m].attempts /\ r.status = row[m].status /\ r.until = row[m].until
          /\ r.lease # row[m].lease => r.lease = "lapsed" /\ row[m].lease = "live"
    <3> DEFINE l == [row[m] EXCEPT !.lease = "lapsed"]
               a == [row[m] EXCEPT !.available = TRUE]
    <3>0. row[m] \in Row
      BY DEF IInv, TypeOK
    <3>1. /\ l \in Row /\ l.attempts = row[m].attempts /\ l.status = row[m].status
          /\ l.until = row[m].until /\ l.lease = "lapsed"
      BY <3>0 DEF Row
    <3>2. /\ a \in Row /\ a.attempts = row[m].attempts /\ a.status = row[m].status
          /\ a.until = row[m].until /\ a.lease = row[m].lease
      BY <3>0 DEF Row
    <3>3. Lapse(m) => row' = [row EXCEPT ![m] = l] /\ row[m].lease = "live"
      BY DEF Lapse
    <3>4. BecomeAvailable(m) => row' = [row EXCEPT ![m] = a]
      BY DEF BecomeAvailable
    <3> HIDE DEF l, a
    <3>5. CASE Lapse(m)
      BY <3>1, <3>3, <3>5
    <3>6. CASE BecomeAvailable(m)
      BY <3>2, <3>4, <3>6
    <3> QED
      BY <1>2, <3>5, <3>6
  <2>2. row[m].status # "absent"
    BY <1>2 DEF Lapse, BecomeAvailable, IInv, Absent, NoRow
  <2>3. r.lease \in {"null", "live", "lapsed"} /\ row[m].lease \in {"null", "live", "lapsed"}
    BY DEF Row, IInv, TypeOK
  <2>4. UNCHANGED <<expired, worker, holder, accepted>> /\ faults' \in 0 .. MaxFaults
    BY <1>2, ConstantsAssumption DEF Lapse, BecomeAvailable, Spend, IInv, TypeOK
  <2>5. r.lease = "null" => r.until = NoInstant
    BY <2>1, <2>3 DEF IInv, RowKnows
  <2>6. /\ row' \in [Messages -> Row] /\ \A n \in Messages : RowKnows(n)' /\ Absent(n)'
        /\ \A n \in Messages : row'[n].attempts = row[n].attempts
    BY <2>1, <2>2, <2>3, <2>4, <2>5, SettledRow
  <2> QED
    BY <2>4, <2>6 DEF IInv, TypeOK, ClaimKnows
<1> QED
  BY <1>1, <1>2

LEMMA NextIInv == IInv /\ [Next]_vars => IInv'
<1> SUFFICES ASSUME IInv, [Next]_vars PROVE IInv'
  OBVIOUS
<1>1. CASE UNCHANGED vars
  BY <1>1, SameClaims DEF vars, IInv, TypeOK
<1>2. ASSUME NEW w \in Workers, Work(w) \/ Fault(w) PROVE IInv'
  BY <1>2, SweepStep, IdleStep, ExpireStep, ClaimStep, AnswerStep, LeaveStep DEF Work, Fault
<1>3. ASSUME NEW m \in Messages,
             Enqueue(m) \/ Lapse(m) \/ BecomeAvailable(m) \/ TokenExpires(m)
      PROVE  IInv'
  BY <1>3, EnqueueStep, TimeStep
<1> QED
  BY <1>1, <1>2, <1>3 DEF Next

\* The inductive invariant: a row's instant is that of its last attempt, and a worker holds
\* the instant of the last attempt only if its claim is the latest.
THEOREM Inductive == Spec => []IInv
  BY InitIInv, NextIInv, PTL DEF Spec

\* Every variable keeps its type, and a worker has a message only under a claim.
THEOREM TypeInvariant == Spec => []TypeOK
<1>1. IInv => TypeOK
  BY DEF IInv
<1> QED
  BY <1>1, Inductive, PTL

LEMMA OneWorkerMoves ==
  ASSUME IInv, NEW v \in Workers, Work(v) \/ Fault(v)
  PROVE  \A w \in Workers \ {v} : worker'[w] = worker[w]
<1>1. CASE SweepExhausted(v) \/ SelectExpired(v) \/ ExpiredAll(v) \/ NothingToClaim(v)
  BY <1>1 DEF SweepExhausted, SelectExpired, ExpiredAll, NothingToClaim, Move, Leave, IInv, TypeOK
<1>2. CASE \E m \in Messages : Expire(v, m) \/ Claim(v, m)
  BY <1>2 DEF Expire, Claim, IInv, TypeOK
<1>3. CASE Accept(v) \/ Refuse(v) \/ AcceptUnanswered(v) \/ SettleThrows(v)
  BY <1>3 DEF Accept, Refuse, AcceptUnanswered, SettleThrows, Move, IInv, TypeOK
<1>4. CASE SettleSent(v) \/ SettleFailed(v) \/ Crash(v)
  <2>1. Leave(v)
    BY <1>4 DEF SettleSent, SettleFailed, Crash
  <2> QED
    BY <2>1 DEF Leave, IInv, TypeOK
<1> QED
  BY <1>1, <1>2, <1>3, <1>4 DEF Work, Fault

\* The answer of a worker whose claim was overtaken changes no row (deliverOne's settling
\* statements compare lease_until).
THEOREM LatestClaim == Spec => OnlyLatestClaimSettles
<1> DEFINE A == \A w \in Workers, m \in Messages :
                  worker[w].pc \in {"succeeded", "failing"} /\ worker'[w] = Idle
                    /\ row'[m] # row[m] => worker[w].msg = m /\ holder[m] = w
<1>1. ASSUME IInv, Next PROVE A
  <2> SUFFICES ASSUME NEW w \in Workers, NEW m \in Messages,
                      worker[w].pc \in {"succeeded", "failing"}, worker'[w] = Idle,
                      row'[m] # row[m]
               PROVE  worker[w].msg = m /\ holder[m] = w
    OBVIOUS
  <2>1. /\ worker[w].msg \in Messages /\ worker[w].pc \in Claimed
        /\ worker'[w] # worker[w]
    BY <1>1 DEF IInv, TypeOK, Claimed, Idle
  <2>2. \A n \in Messages :
          ~(Enqueue(n) \/ Lapse(n) \/ BecomeAvailable(n) \/ TokenExpires(n))
    BY <2>1 DEF Enqueue, Lapse, BecomeAvailable, TokenExpires
  <2>3. Work(w) \/ Fault(w)
    BY <1>1, <2>1, <2>2, OneWorkerMoves DEF Next
  <2>4. SettleSent(w) \/ SettleFailed(w)
    BY <2>3 DEF Work, Fault, SweepExhausted, SelectExpired, ExpiredAll, NothingToClaim, Expire,
                Claim, Accept, Refuse, AcceptUnanswered, SettleThrows, Crash
  <2>5. Owns(w) /\ worker[w].msg = m
    BY <1>1, <2>1, <2>4 DEF SettleSent, SettleFailed, IInv, TypeOK
  <2>6. row[m].until = worker[w].until /\ row[m].lease # "null"
    BY <2>5 DEF Owns, SameInstant
  <2> QED
    BY <1>1, <2>1, <2>5, <2>6 DEF IInv, RowKnows, ClaimKnows
<1>2. IInv /\ [Next]_vars => [A]_vars
  BY <1>1
<1> QED
  BY <1>2, Inductive, PTL DEF Spec, OnlyLatestClaimSettles
=============================================================================
