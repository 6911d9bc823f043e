---------------------------- MODULE JobLifecycle ----------------------------
(***************************************************************************)
(* What document processing promises its users, with no workers, leases or *)
(* retries in sight.  A job is submitted for a document and stays pending  *)
(* until it is decided once: its extraction awaits review, or it failed.   *)
(* A pending job can be withdrawn, a failed or withdrawn one reopened, and *)
(* a completed one reviewed.  A document never has two open jobs, a job    *)
(* with accepted facts is never run again, and nothing reviewed is purged. *)
(***************************************************************************)
CONSTANTS Jobs, Documents, NoDocument

VARIABLES
  state,      \* what the user sees of each job
  document,   \* the document a job was submitted for
  review      \* has the job been reviewed, and were facts of it accepted?

vars == <<state, document, review>>

Open == {"pending", "awaiting_review"}
Reviewable == {"awaiting_review", "accepted", "rejected"}

Init ==
  /\ state = [j \in Jobs |-> "unused"]
  /\ document = [j \in Jobs |-> NoDocument]
  /\ review = [j \in Jobs |-> "none"]

\* No other job of j's document is open.
Sole(j, d) == \A k \in Jobs \ {j} : document[k] = d => state[k] \notin Open

Submit(j, d) ==
  /\ state[j] = "unused" /\ Sole(j, d)
  /\ state' = [state EXCEPT ![j] = "pending"]
  /\ document' = [document EXCEPT ![j] = d]
  /\ UNCHANGED review

Decide(j) ==
  /\ state[j] = "pending"
  /\ \E s \in {"awaiting_review", "failed"} : state' = [state EXCEPT ![j] = s]
  /\ UNCHANGED <<document, review>>

Withdraw(j) ==
  /\ state[j] = "pending"
  /\ state' = [state EXCEPT ![j] = "cancelled"]
  /\ UNCHANGED <<document, review>>

Reopen(j) ==
  /\ state[j] \in {"failed", "cancelled"} /\ Sole(j, document[j])
  /\ state' = [state EXCEPT ![j] = "pending"]
  /\ UNCHANGED <<document, review>>

Review(j, s, r) ==
  /\ state[j] \in Reviewable /\ s \in Reviewable
  /\ s = "awaiting_review" => Sole(j, document[j])
  /\ review[j] = "posted" => r = "posted"
  /\ s = "accepted" => r = "posted"
  /\ s = "rejected" => r = "reviewed"
  /\ state' = [state EXCEPT ![j] = s]
  /\ review' = [review EXCEPT ![j] = r]
  /\ UNCHANGED document

Purge(d) ==
  /\ \A j \in Jobs : document[j] = d =>
       state[j] \in {"failed", "cancelled", "rejected"} /\ review[j] = "none"
  /\ state' = [j \in Jobs |-> IF document[j] = d THEN "purged" ELSE state[j]]
  /\ document' = [j \in Jobs |-> IF document[j] = d THEN NoDocument ELSE document[j]]
  /\ UNCHANGED review

Next ==
  \/ \E j \in Jobs : \/ Decide(j) \/ Withdraw(j) \/ Reopen(j)
                     \/ \E d \in Documents : Submit(j, d)
                     \/ \E s \in Reviewable, r \in {"reviewed", "posted"} : Review(j, s, r)
  \/ \E d \in Documents : Purge(d)

Spec == Init /\ [][Next]_vars
=============================================================================
