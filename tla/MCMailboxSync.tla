---------------------------- MODULE MCMailboxSync ----------------------------
(* Small instances of MailboxSync for TLC. *)
EXTENDS MailboxSync

\* Workers differ in nothing: with both idle and no claim, the first one moves.
First == CHOOSE w \in Workers : TRUE
FirstMoves == row.owner = NoWorker /\ (\A w \in Workers : worker[w] = Idle) =>
  \A w \in Workers \ {First} : UNCHANGED worker[w]

\* Histories in which a mailbox was connected again, or resumed after a stop, have two
\* messages, or one and a fault; the others have all of both.
Reconnected == box.generation > 2 \/ (box.generation = 2 /\ box.status = "active")
Shorter == Reconnected' => arrived' + faults' <= 2

MCSpec == Init /\ [][Next /\ FirstMoves /\ Shorter]_vars /\ Fairness
=============================================================================
