-------------------------- MODULE MCDocumentQueue --------------------------
(* Small instances of DocumentQueue for TLC. *)
EXTENDS DocumentQueue, FiniteSets

\* Job ids differ in nothing: they are first used in the order of their numbers.
Used == {j \in Jobs : status[j] # "unused"}
InOrder == Used' = 1 .. Cardinality(Used')

\* Workers differ in nothing either: while neither has left a trace, the first one moves.
First == CHOOSE w \in Workers : TRUE
Traceless ==
  /\ \A w \in Workers : worker[w] = Idle /\ boot[w] = 0 /\ ~stopping[w]
  /\ \A j \in Jobs : row[j].owner = NoOwner /\ holder[j] = NoWorker
FirstMoves == Traceless =>
  \A w \in Workers \ {First} : UNCHANGED <<worker[w], boot[w], stopping[w]>>

Quiet == \A j \in Jobs, w \in Workers :
  row'[j].deferrals = 0 /\ worker'[w].code # "busy" /\ worker'[w].signal = "running"

\* After a fault there is no review; two faults come without a busy processor or an abort.
OneJob ==
  /\ faults' > 0 => \A j \in Jobs : review'[j] = "none"
  /\ faults' > 1 => Quiet

\* Histories with both jobs have one fault, a stall or a lost outcome, and are as quiet.
BothJobs == Cardinality(Used') > 1 =>
  faults' <= 1 /\ Quiet /\ \A w \in Workers : boot'[w] = 0 /\ ~stopping'[w]

MCSpec == Init /\ [][Next /\ InOrder /\ FirstMoves /\ OneJob /\ BothJobs]_vars /\ Fairness
=============================================================================
