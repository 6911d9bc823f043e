------------------------- MODULE ReportObligations -------------------------
(***************************************************************************)
(* One expected report of the reporting calendar (an occurrence): the      *)
(* receipts that reviewers match, revoke, reinstate and supersede, its     *)
(* disposition, and the delivery issue that the calendar keeps about it.   *)
(*                                                                         *)
(* saveReportObligations locks the workspace, applies one mutation and     *)
(* evaluates, so a mutation and the evaluation after it are one action.    *)
(* Time passes between evaluations: the deadline, the grace period and the *)
(* wake time of a snooze are steps of their own.                           *)
(***************************************************************************)
EXTENDS Naturals, FiniteSets

CONSTANTS
  Docs,         \* retained originals that may be matched to the occurrence
  LateDocs,     \* those imported after the deadline
  NoDoc,        \* no superseded receipt
  MaxReceipts   \* MAX_REPORT_RECEIPTS_PER_OCCURRENCE, 100 in the code

ASSUME CalendarAssumption ==
  /\ IsFiniteSet(Docs) /\ LateDocs \subseteq Docs /\ NoDoc \notin Docs
  /\ MaxReceipts \in Nat

VARIABLES
  receipts,     \* occurrence.receipts: one per document at most, "none", "matched" or
                \* "revoked", with the document whose receipt it supersedes
  disposition,  \* occurrence.disposition
  phase,        \* the clock against dueAt and graceEndsAt: "upcoming", "due", "overdue"
  issue,        \* the exception with key delivery:<occurrence>: "none", "open",
                \* "snoozed" (waking: its time has come), "resolved" or "waived"
  dismissed     \* history: the evidence at the latest resolve or waive by a user

calendarVars == <<receipts, disposition, phase, issue, dismissed>>

Dispositions == {"none", "waived", "cancelled"}
\* The fingerprint: the disposition and what is matched or revoked.
EvidenceOf(rs, disp) == [disposition |-> disp, matches |-> [d \in Docs |-> rs[d].match]]

NoEvidence == [disposition |-> "none", matches |-> [d \in Docs |-> "none"]]
NoIssue == [status |-> "none", active |-> FALSE, waking |-> FALSE, evidence |-> NoEvidence]

CalendarInit ==
  /\ receipts = [d \in Docs |-> [match |-> "none", supersedes |-> NoDoc]]
  /\ disposition = "none"
  /\ phase = "upcoming"
  /\ issue = NoIssue
  /\ dismissed = NoEvidence

-----------------------------------------------------------------------------
(* Receipts and their revisions.                                           *)

Matched(rs) == {d \in Docs : rs[d].match = "matched"}
Linked(rs) == {d \in Docs : rs[d].match # "none"}

\* d and all it supersedes, however indirectly and whether matched or revoked.
Ancestry(rs, d) ==
  {e \in Docs : \A S \in SUBSET Docs :
     (d \in S /\ \A x \in S : rs[x].supersedes \in S \cup {NoDoc}) => e \in S}

Superseded(rs) == UNION {Ancestry(rs, d) \ {d} : d \in Matched(rs)}

\* activeReportReceipts: the matched receipts no matched receipt supersedes.
Current(rs) == Matched(rs) \ Superseded(rs)

-----------------------------------------------------------------------------
(* The evaluation.                                                         *)

\* summarizeReportOccurrence(...).deliveryStatus; the first matched arrival decides.
DeliveryStatus(rs, disp) ==
  IF disp # "none" THEN disp
  ELSE IF Matched(rs) = {} THEN phase
  ELSE IF Matched(rs) \subseteq LateDocs THEN "received_late" ELSE "received"

\* Faulty variant: a waived issue stays waived.
ResolvedReopens(i, active, evidence) ==
  i.status = "resolved" /\ (i.evidence # evidence \/ i.active # active)
\* A resolved or waived issue opens again when its source or its evidence changed.
SourceReopens(i, active, evidence) ==
  /\ i.status \in {"resolved", "waived"}
  /\ i.evidence # evidence \/ i.active # active

\* applySignal, for the delivery signal of the occurrence.
Signalled(i, active, late, evidence) ==
  LET status ==
        IF i.status = "none" THEN IF active THEN "open" ELSE IF late THEN "resolved" ELSE "none"
        ELSE IF ~active /\ i.status \in {"open", "snoozed"} THEN "resolved"
        ELSE IF active /\ SourceReopens(i, active, evidence) THEN "open"
        ELSE i.status
  IN IF status = "none" THEN i
     ELSE [status |-> status, active |-> active,
           waking |-> i.waking /\ status = "snoozed", evidence |-> evidence]

\* Faulty variant: nothing wakes a snoozed issue.
NeverWoken(i) == i
\* A snooze whose wake time has come.
Woken(i) ==
  IF i.status = "snoozed" /\ i.waking
    THEN [i EXCEPT !.status = IF i.active THEN "open" ELSE "resolved", !.waking = FALSE]
    ELSE i

\* Faulty variant: a late receipt alone leaves no issue.
EvaluatedUnlessLate(rs, disp, i) ==
  LET status == DeliveryStatus(rs, disp) IN
  Woken(IF status \in {"upcoming", "due"} THEN i
        ELSE Signalled(i, status = "overdue", FALSE, EvidenceOf(rs, disp)))
\* evaluateReportObligations: nothing is signalled before the deadline and its grace end.
EvaluatedIssue(rs, disp, i) ==
  LET status == DeliveryStatus(rs, disp) IN
  Woken(IF status \in {"upcoming", "due"} THEN i
        ELSE Signalled(i, status = "overdue", status = "received_late", EvidenceOf(rs, disp)))

Evaluate ==
  /\ issue' = EvaluatedIssue(receipts, disposition, issue)
  /\ UNCHANGED <<receipts, disposition, phase, dismissed>>

-----------------------------------------------------------------------------
(* The mutations; each of them evaluates.                                  *)

SaveReceipts(rs) ==
  /\ receipts' = rs
  /\ issue' = EvaluatedIssue(rs, disposition, issue)
  /\ UNCHANGED <<disposition, phase, dismissed>>

\* A new receipt supersedes a current one only.
Supersedable(d, s) == s \in Current(receipts)

\* matchReportReceipt of a new document; for a matched one it only refreshes the status
\* of its source, and a revoked one is refused.
Match(d, s) ==
  /\ receipts[d].match = "none" /\ Cardinality(Linked(receipts)) < MaxReceipts
  /\ d \in LateDocs => phase # "upcoming"
  /\ s # NoDoc => Supersedable(d, s)
  /\ SaveReceipts([receipts EXCEPT ![d] = [match |-> "matched", supersedes |-> s]])

Revoke(d) ==
  /\ receipts[d].match = "matched"
  /\ SaveReceipts([receipts EXCEPT ![d].match = "revoked"])

\* The superseded receipt must be matched, and no other matched one may supersede it.
Reinstate(d) ==
  LET s == receipts[d].supersedes IN
  /\ receipts[d].match = "revoked"
  /\ s # NoDoc => /\ receipts[s].match = "matched"
                  /\ \A e \in Matched(receipts) : receipts[e].supersedes # s
  /\ SaveReceipts([receipts EXCEPT ![d].match = "matched"])

\* disposeReportOccurrence; "none" reopens.
Dispose(disp) ==
  /\ disposition' = disp
  /\ issue' = EvaluatedIssue(receipts, disp, issue)
  /\ UNCHANGED <<receipts, phase, dismissed>>

\* actOnReportException; assignment and priority are left out.
Act(i, dis) ==
  /\ issue.status # "none"
  /\ issue' = EvaluatedIssue(receipts, disposition, i)
  /\ dismissed' = dis
  /\ UNCHANGED <<receipts, disposition, phase>>

Snooze ==
  /\ issue.active /\ issue.status \notin {"resolved", "waived"}
  /\ Act([issue EXCEPT !.status = "snoozed", !.waking = FALSE], dismissed)

Dismiss(status) ==
  /\ status \in {"resolved", "waived"}
  /\ Act([issue EXCEPT !.status = status, !.waking = FALSE], EvidenceOf(receipts, disposition))

Reopen == Act([issue EXCEPT !.status = "open", !.waking = FALSE], dismissed)

-----------------------------------------------------------------------------
(* Time.                                                                   *)

Tick ==
  /\ phase # "overdue"
  /\ phase' = IF phase = "upcoming" THEN "due" ELSE "overdue"
  /\ UNCHANGED <<receipts, disposition, issue, dismissed>>

SnoozeEnds ==
  /\ issue.status = "snoozed" /\ ~issue.waking
  /\ issue' = [issue EXCEPT !.waking = TRUE]
  /\ UNCHANGED <<receipts, disposition, phase, dismissed>>

-----------------------------------------------------------------------------
CalendarNext ==
  \/ \E d \in Docs : \/ Revoke(d) \/ Reinstate(d)
                     \/ \E s \in Docs \cup {NoDoc} : Match(d, s)
  \/ \E disp \in Dispositions : Dispose(disp)
  \/ \E status \in {"resolved", "waived"} : Dismiss(status)
  \/ Snooze \/ Reopen \/ Evaluate \/ Tick \/ SnoozeEnds

CalendarSpec == CalendarInit /\ [][CalendarNext]_calendarVars

(* The monitor evaluates every enrolled office again and again (see        *)
(* ReportMonitor), and the clock runs.  Reviewers do as they please.       *)
LiveCalendar == CalendarSpec /\ WF_calendarVars(Evaluate) /\ WF_calendarVars(SnoozeEnds)

-----------------------------------------------------------------------------
(* What must hold.                                                         *)

\* "Relevant changed evidence can reopen a resolved issue": an issue whose gap is still
\* open stays dismissed only while the evidence is what the user dismissed, whatever was
\* matched, revoked, disposed and reopened in between, and however snoozes ended.
DismissedKnowingly ==
  issue.active /\ issue.status \in {"resolved", "waived"} =>
    dismissed = EvidenceOf(receipts, disposition)

\* As long as any match stands there is a current revision (a supersession never runs in
\* circles, which would make every summary throw), a report that arrived late keeps the
\* issue that records it, and a report that was received never leaves its gap open.
ReceiptsAreCounted ==
  /\ Matched(receipts) # {} => Current(receipts) # {}
  /\ DeliveryStatus(receipts, disposition) = "received_late" => issue.status # "none"
  /\ DeliveryStatus(receipts, disposition) \notin {"upcoming", "due", "overdue"} =>
       issue.status \notin {"open", "snoozed"}

\* "The monitor wakes expired snoozes", and a deadline that passes without a report is
\* raised, unless it is met or set aside first.
GapsAreRaised ==
  /\ DeliveryStatus(receipts, disposition) = "overdue"
       ~> issue.active \/ DeliveryStatus(receipts, disposition) # "overdue"
  /\ issue.waking ~> ~issue.waking
=============================================================================
