----------------------------- MODULE CashLedger -----------------------------
(***************************************************************************)
(* The reviewed cash ledger (lib/ledger.ts) of one legal entity with one   *)
(* cash balance and one fund, in one currency.  Documents bring notices    *)
(* (capital calls and distributions); reviewers prepare transactions from  *)
(* them, confirm their settlement, reverse them, record marks and          *)
(* reconcile periods.  A command runs under the row lock of its workspace  *)
(* and is saved whole or refused (ledger-store.ts, accept-facts.ts): one   *)
(* action each.  The order of the commands is nobody's, and that is where  *)
(* the hazards are: a second notice after the first was paid, an amendment *)
(* between an attestation and a payment, a backdated mark, a reversal.     *)
(*                                                                         *)
(* Left out as data: sources, memos and reasons; the second currency and   *)
(* its FX; commitments and cost basis, which only add refusals; transfers  *)
(* to a second cash balance.  Any date of Dates is in the past: the clock  *)
(* would only narrow the dates a command may carry.                        *)
(***************************************************************************)
EXTENDS Integers, Sequences, FiniteSetsExt, Functions

CONSTANTS
    Notices,        \* the cash notices (obligations) that may be registered
    Txs,            \* the transactions that may be recorded
    Kinds,          \* the transaction kinds in use
    Terms,          \* the terms a notice may report: amount and two dates
    Dates,          \* the dates of postings, marks and notices
    Amounts,        \* the amounts of transactions
    MarkValues,     \* the values a reported mark may carry
    OpeningDate,    \* the date of the two opening positions
    MaxValue,       \* bound: the largest balance (1e12 in the code)
    MaxAmendments,  \* bound: amendments of one notice (100 in the code)
    MaxMarks,       \* bound: marks recorded after the opening ones
    MaxPeriods,     \* bound: reconciled periods
    None            \* an unknown date, or no notice

Holdings == {"cash", "fund"}
NoticeKinds == {"capital_call", "distribution"}
InvestmentKinds == NoticeKinds \cup {"purchase", "sale"}
AllKinds == InvestmentKinds \cup {"deposit", "withdrawal", "fee"}

ASSUME LedgerAssumption ==
    /\ IsFiniteSet(Txs)
    /\ Dates \subseteq Nat
    /\ OpeningDate \in Dates
    /\ None \notin Dates \cup Notices
    /\ Kinds \subseteq AllKinds
    /\ MaxValue \in Nat /\ MaxAmendments \in Nat
    /\ MaxMarks \in Nat /\ MaxPeriods \in Nat
    /\ Amounts \subseteq Nat /\ 0 \notin Amounts
    /\ MarkValues \subseteq 0 .. MaxValue /\ MarkValues # {}
    /\ Terms \subseteq [amount    : Nat,       \* 0: unknown
                        effective : Dates \cup {None},
                        due       : Dates \cup {None}]

VARIABLES
    accepted,   \* fingerprints of the accepted notices (app_accepted_facts)
    notices,    \* finance.obligations
    distinct,   \* their distinctFrom attestations, with both term revisions
    txs,        \* finance.transactions, each with its transactionStatus
    log,        \* finance.events that post and finance.valuations, as recorded
    value,      \* valueEUR of each holding
    dated,      \* valuationDate of each holding
    cashRows,   \* portfolio.history of the cash balance: date -> value
    coverage    \* finance.coverage: the reconciled periods

ledgerVars == <<accepted, notices, distinct, txs, log, value, dated, cashRows, coverage>>

noticeVars == <<accepted, notices, distinct>>
balanceVars == <<log, value, dated, cashRows>>

NoticeKeys == [kind : NoticeKinds, terms : Terms]
Attestations == Notices \X Notices \X Nat \X Nat
NoticeRecords ==
    [state    : {"active", "cancelled"},
     kind     : NoticeKinds,
     terms    : Terms,
     revision : Nat]
TxRecords ==
    [status : {"reviewed", "settled", "reversed", "voided"},
     kind   : AllKinds,
     amount : Amounts,
     moved  : Amounts \cup {0},     \* the carrying-value movement of the fund
     due    : Dates,
     notice : Notices \cup {None},
     linked : BOOLEAN]              \* matched to its notice after it was recorded
NoNotice == [state |-> "none"]
NoTx == [status |-> "none"]
Entries ==
    [type  : {"mark", "settled", "reversed"},
     tx    : Txs \cup {None},
     on    : SUBSET Holdings,
     date  : Dates,
     value : Int]
Periods == [to : Dates, closing : Int, seen : Nat]

-----------------------------------------------------------------------------
(* Notices                                                                  *)

Active(n) == notices[n].state = "active"

TermsOf(n) == notices[n].terms

(* An attestation counts only at the term revisions it was given for.       *)
Attested(n, m) ==
    \/ <<n, m, notices[n].revision, notices[m].revision>> \in distinct
    \/ <<m, n, notices[m].revision, notices[n].revision>> \in distinct

(* Two reports of possibly one payment: a shared date, or dates that cannot *)
(* tell them apart and the same known amount.                               *)
Similar(a, b) ==
    \/ a.effective # None /\ a.effective = b.effective
    \/ a.due # None /\ a.due = b.due
    \/ /\ a.effective = None \/ b.effective = None
       /\ a.due = None \/ b.due = None
       /\ a.amount # 0 /\ a.amount = b.amount

Related(n, m) ==
    /\ n # m
    /\ Active(n) /\ Active(m)
    /\ notices[n].kind = notices[m].kind
    /\ ~Attested(n, m)
    /\ Similar(TermsOf(n), TermsOf(m))

Live(t) == txs[t].status \in {"reviewed", "settled"}

(* The live transactions reserve their amounts; reversed and voided ones    *)
(* release them.                                                            *)
Allocations(n) == {t \in Txs : Live(t) /\ txs[t].notice = n}

Allocated(n) == SumFunction([t \in Allocations(n) |-> txs[t].amount])

Matches(n, t) ==
    /\ txs[t].kind = notices[n].kind
    /\ txs[t].due = TermsOf(n).due

UnlinkedMatches(n) ==
    {t \in Txs : Live(t) /\ txs[t].notice = None /\ Matches(n, t)}

(* missingDetails of a notice, but for the transactions it should be        *)
(* matched to.                                                              *)
Complete(n) ==
    /\ TermsOf(n).amount # 0
    /\ TermsOf(n).due # None
    /\ ~\E m \in Notices : Related(n, m)
    /\ Allocated(n) <= TermsOf(n).amount

(* Faulty variant: only settled transactions count as allocated.            *)
UnallocatedUnsettled(n) ==
    Active(n) /\ \A t \in Allocations(n) : txs[t].status # "settled"

(* requireUnallocatedObligation: amounts are positive, so nothing allocated *)
(* is no live transaction.                                                  *)
Unallocated(n) == Active(n) /\ Allocations(n) = {}

(* Faulty variant: earlier allocations are not reserved.                    *)
MayAllocateAgain(n, kind, amount, due) ==
    /\ Active(n)
    /\ Complete(n)
    /\ notices[n].kind = kind
    /\ TermsOf(n).due = due
    /\ amount <= TermsOf(n).amount

(* validateObligationAllocation of a transaction with a notice.             *)
MayAllocate(n, kind, amount, due) ==
    /\ Active(n)
    /\ Complete(n)
    /\ notices[n].kind = kind
    /\ TermsOf(n).due = due
    /\ Allocated(n) + amount <= TermsOf(n).amount

(* validateObligationAllocation of one without: no active notice asks for   *)
(* this payment.                                                            *)
NoNoticeAsks(kind, due) ==
    ~\E n \in Notices : Active(n) /\ notices[n].kind = kind /\ TermsOf(n).due = due

PutNotice(n, kind, terms) ==
    notices' = [notices EXCEPT ![n] =
        [state |-> "active", kind |-> kind, terms |-> terms, revision |-> 0]]

-----------------------------------------------------------------------------
(* Postings                                                                 *)

CashDelta(tx) ==
    IF tx.kind \in {"deposit", "distribution", "sale"} THEN tx.amount ELSE -tx.amount

FundDelta(tx) ==
    IF tx.kind \in {"capital_call", "purchase"} THEN tx.moved ELSE -tx.moved

Delta(tx, h) == IF h = "cash" THEN CashDelta(tx) ELSE FundDelta(tx)

(* An investment kind posts to the fund even when it moves nothing there.   *)
PostsTo(tx) == IF tx.kind \in InvestmentKinds THEN Holdings ELSE {"cash"}

(* applyPostings: no posting before a mark or an event of a holding it      *)
(* touches, and no balance below zero or beyond the bound.                  *)
MayPost(tx, date, sign) ==
    \A h \in PostsTo(tx) :
        /\ date >= dated[h]
        /\ \A i \in DOMAIN log :
               (log[i].type # "mark" /\ h \in log[i].on) => date >= log[i].date
        /\ value[h] + sign * Delta(tx, h) \in 0 .. MaxValue

(* The cash balance takes the date of the posting; the fund keeps the date  *)
(* of its mark and carries the movement as pending capital.                 *)
Post(t, type, date, sign) ==
    LET tx == txs[t] IN
    /\ MayPost(tx, date, sign)
    /\ value' = [h \in Holdings |->
                    IF h \in PostsTo(tx) THEN value[h] + sign * Delta(tx, h) ELSE value[h]]
    /\ dated' = [dated EXCEPT !["cash"] = date]
    /\ cashRows' = [cashRows EXCEPT ![date] = value["cash"] + sign * CashDelta(tx)]
    /\ log' = Append(log, [type |-> type, tx |-> t, on |-> PostsTo(tx),
                           date |-> date, value |-> 0])
    /\ txs' = [txs EXCEPT ![t].status = type]

IsMark(i, h) == log[i].type = "mark" /\ h \in log[i].on

SettledAt(i, t) == log[i].type = "settled" /\ log[i].tx = t

-----------------------------------------------------------------------------
(* Commands on notices                                                      *)

(* A reviewer accepts a capital call or a distribution read from a          *)
(* document; the fact's fingerprint makes a second acceptance a no-op.      *)
AcceptNotice(n, kind, terms) ==
    /\ notices[n] = NoNotice
    /\ [kind |-> kind, terms |-> terms] \notin accepted
    /\ accepted' = accepted \cup {[kind |-> kind, terms |-> terms]}
    /\ PutNotice(n, kind, terms)
    /\ UNCHANGED <<distinct, txs, balanceVars, coverage>>

(* A notice kept as an event before notices existed; it has no due date.    *)
RegisterLegacyNotice(n, kind, terms) ==
    /\ notices[n] = NoNotice
    /\ terms.due = None
    /\ PutNotice(n, kind, terms)
    /\ UNCHANGED <<accepted, distinct, txs, balanceVars, coverage>>

AmendObligation(n, terms) ==
    /\ Unallocated(n)
    /\ notices[n].revision < MaxAmendments
    /\ notices' = [notices EXCEPT ![n].terms = terms, ![n].revision = @ + 1]
    /\ UNCHANGED <<accepted, distinct, txs, balanceVars, coverage>>

CancelObligation(n) ==
    /\ Unallocated(n)
    /\ notices' = [notices EXCEPT ![n].state = "cancelled"]
    /\ UNCHANGED <<accepted, distinct, txs, balanceVars, coverage>>

ConfirmDistinct(n, m) ==
    /\ Related(n, m)
    /\ distinct' = distinct \cup {<<n, m, notices[n].revision, notices[m].revision>>}
    /\ UNCHANGED <<accepted, notices, txs, balanceVars, coverage>>

-----------------------------------------------------------------------------
(* Commands on transactions                                                 *)

(* validateTransaction: new capital moves the fund by the cash paid, a sale *)
(* by a stated amount, a distribution by a stated amount or by nothing.     *)
WellFormed(kind, amount, moved) ==
    /\ kind \in {"capital_call", "purchase"} => moved = amount
    /\ kind = "sale" => moved # 0
    /\ kind \notin InvestmentKinds => moved = 0

RecordTransaction(t, kind, amount, moved, due, n) ==
    /\ txs[t] = NoTx
    /\ WellFormed(kind, amount, moved)
    /\ IF n = None THEN NoNoticeAsks(kind, due)
                   ELSE /\ MayAllocate(n, kind, amount, due)
                        /\ UnlinkedMatches(n) = {}
    /\ txs' = [txs EXCEPT ![t] =
                  [status |-> "reviewed", kind |-> kind, amount |-> amount,
                   moved |-> moved, due |-> due, notice |-> n, linked |-> FALSE]]
    /\ UNCHANGED <<noticeVars, balanceVars, coverage>>

(* A transaction recorded before its notice arrived is matched to it; other *)
(* unmatched ones are no obstacle here.                                     *)
LinkTransaction(t, n) ==
    /\ Live(t) /\ txs[t].notice = None
    /\ MayAllocate(n, txs[t].kind, txs[t].amount, txs[t].due)
    /\ txs' = [txs EXCEPT ![t].notice = n, ![t].linked = TRUE]
    /\ UNCHANGED <<noticeVars, balanceVars, coverage>>

(* The notice is examined again: another may have arrived since the review. *)
SettleTransaction(t, date) ==
    /\ txs[t].status = "reviewed"
    /\ LET n == txs[t].notice IN
       IF n = None THEN NoNoticeAsks(txs[t].kind, txs[t].due)
                   ELSE Active(n) /\ Complete(n) /\ UnlinkedMatches(n) = {}
    /\ Post(t, "settled", date, 1)
    /\ UNCHANGED <<noticeVars, coverage>>

(* No reversal of a settlement that a mark recorded after it contains.      *)
ReverseTransaction(t, date) ==
    /\ txs[t].status = "settled"
    /\ \A i \in DOMAIN log : SettledAt(i, t) =>
           /\ date >= log[i].date
           /\ ~\E j \in DOMAIN log : j > i /\ \E h \in log[i].on : IsMark(j, h)
    /\ Post(t, "reversed", date, -1)
    /\ UNCHANGED <<noticeVars, coverage>>

VoidTransaction(t) ==
    /\ txs[t].status = "reviewed"
    /\ txs' = [txs EXCEPT ![t].status = "voided"]
    /\ UNCHANGED <<noticeVars, balanceVars, coverage>>

-----------------------------------------------------------------------------
(* Marks and reconciliation                                                 *)

(* Faulty variant: a settlement of the same date is overlooked.             *)
OverlappedLater(h, date) ==
    \E i \in DOMAIN log :
        /\ log[i].type = "settled" /\ h \in log[i].on /\ log[i].date > date
        /\ txs[log[i].tx].status = "settled"

(* Settled activity on or after the date of a mark is in its way.           *)
Overlapped(h, date) ==
    \E i \in DOMAIN log :
        /\ log[i].type = "settled" /\ h \in log[i].on /\ log[i].date >= date
        /\ txs[log[i].tx].status = "settled"

Marks == {i \in DOMAIN log : log[i].type = "mark"}

(* postReviewedValuation, from a command or from an accepted fact.  A value *)
(* that changes needs the old one confirmed, which a reviewer can always    *)
(* do.  An older mark than the holding's own only enters the history.       *)
RecordValuation(h, date, v) ==
    /\ Cardinality(Marks) < Cardinality(Holdings) + MaxMarks
    /\ ~Overlapped(h, date)
    /\ log' = Append(log, [type |-> "mark", tx |-> None, on |-> {h},
                           date |-> date, value |-> v])
    /\ IF date >= dated[h]
       THEN value' = [value EXCEPT ![h] = v] /\ dated' = [dated EXCEPT ![h] = date]
       ELSE UNCHANGED <<value, dated>>
    /\ cashRows' = IF h = "cash" THEN [cashRows EXCEPT ![date] = v] ELSE cashRows
    /\ UNCHANGED <<noticeVars, txs, coverage>>

(* The statement's closing balance is the recorded one, and no later date   *)
(* of the balance lies beyond the period.                                   *)
ReconcilePeriod(to) ==
    /\ Cardinality(coverage) < MaxPeriods
    /\ dated["cash"] <= to
    /\ coverage' = coverage \cup
           {[to |-> to, closing |-> value["cash"], seen |-> Len(log)]}
    /\ UNCHANGED <<noticeVars, txs, balanceVars>>

(* Faulty variant: later marks are not looked at.                           *)
CoverageCurrentForEvents(p) ==
    ~\E i \in DOMAIN log :
        /\ i > p.seen /\ log[i].type # "mark"
        /\ "cash" \in log[i].on /\ log[i].date <= p.to

(* cashflowCoverageCurrent: nothing on the cash balance was recorded since, *)
(* with a date inside the period.                                           *)
CoverageCurrent(p) ==
    ~\E i \in DOMAIN log : i > p.seen /\ "cash" \in log[i].on /\ log[i].date <= p.to

-----------------------------------------------------------------------------
LedgerInit ==
    /\ accepted = {} /\ distinct = {} /\ coverage = {}
    /\ notices = [n \in Notices |-> NoNotice]
    /\ txs = [t \in Txs |-> NoTx]
    /\ \E v \in [Holdings -> MarkValues] :
           /\ value = v
           /\ cashRows = [d \in Dates |-> IF d = OpeningDate THEN v["cash"] ELSE -1]
           /\ log = << [type |-> "mark", tx |-> None, on |-> {"cash"},
                        date |-> OpeningDate, value |-> v["cash"]],
                       [type |-> "mark", tx |-> None, on |-> {"fund"},
                        date |-> OpeningDate, value |-> v["fund"]] >>
    /\ dated = [h \in Holdings |-> OpeningDate]

NoticeStep(n) ==
    \/ \E kind \in Kinds \cap NoticeKinds, terms \in Terms :
           AcceptNotice(n, kind, terms) \/ RegisterLegacyNotice(n, kind, terms)
    \/ \E terms \in Terms : AmendObligation(n, terms)
    \/ CancelObligation(n)
    \/ \E m \in Notices : ConfirmDistinct(n, m)

TxStep(t) ==
    \/ \E kind \in Kinds, amount \in Amounts, moved \in Amounts \cup {0},
          due \in Dates, n \in Notices \cup {None} :
           RecordTransaction(t, kind, amount, moved, due, n)
    \/ \E n \in Notices : LinkTransaction(t, n)
    \/ \E date \in Dates : SettleTransaction(t, date) \/ ReverseTransaction(t, date)
    \/ VoidTransaction(t)

LedgerNext ==
    \/ \E n \in Notices : NoticeStep(n)
    \/ \E t \in Txs : TxStep(t)
    \/ \E h \in Holdings, date \in Dates, v \in MarkValues : RecordValuation(h, date, v)
    \/ \E to \in Dates : ReconcilePeriod(to)

LedgerSpec == LedgerInit /\ [][LedgerNext]_ledgerVars

-----------------------------------------------------------------------------
(* Properties                                                               *)

(* The type of the state.  Balances stay within the bounds of applyPostings *)
(* and every row of the log was recorded with a date the program accepts.   *)
LedgerTypeOK ==
    /\ accepted \subseteq NoticeKeys
    /\ notices \in [Notices -> NoticeRecords \cup {NoNotice}]
    /\ distinct \subseteq Attestations
    /\ txs \in [Txs -> TxRecords \cup {NoTx}]
    /\ log \in Seq(Entries)
    /\ value \in [Holdings -> 0 .. MaxValue]
    /\ dated \in [Holdings -> Dates]
    /\ cashRows \in [Dates -> Int]
    /\ coverage \subseteq Periods

(* Two notices that may report one payment never both carry live            *)
(* transactions: the second is refused until a reviewer attests that they   *)
(* differ, an attestation dies with the terms it was given for, and terms   *)
(* do not change under a live transaction (relatedCashObligations,          *)
(* requireUnallocatedObligation).                                           *)
SimilarNoticesPayOnce ==
    \A n, m \in Notices :
        Related(n, m) => Allocations(n) = {} \/ Allocations(m) = {}

(* A transaction prepared from its notice never has a live twin beside it   *)
(* that was recorded without the notice, whichever came first.  One matched *)
(* later may (linkTransactionObligation ignores the other matches).         *)
PreparedHasNoTwin ==
    \A t \in Txs :
        (Live(t) /\ txs[t].notice # None /\ ~txs[t].linked)
            => UnlinkedMatches(txs[t].notice) = {}

(* No payment is live twice, through two notices or beside one.             *)
PaidOnce == SimilarNoticesPayOnce /\ PreparedHasNoTwin

(* Live transactions never reserve or pay more than their notice reports,   *)
(* through amendments, late matches, reversals and voids                    *)
(* (validateObligationAllocation).                                          *)
NoticesNotOverpaid ==
    \A n \in Notices : Active(n) => Allocated(n) <= TermsOf(n).amount

FundMarks == {i \in DOMAIN log : IsMark(i, "fund")}

SettledSince(date) ==
    {t \in Txs : /\ txs[t].status = "settled"
                 /\ \E i \in DOMAIN log :
                        /\ SettledAt(i, t)
                        /\ "fund" \in log[i].on /\ log[i].date >= date}

(* The fund is worth its latest mark (the last recorded one of the latest   *)
(* date) plus the capital settled from that date on, in whatever order      *)
(* marks, corrections, settlements and reversals came: operations/          *)
(* ledger-reporting.md, "last reported mark plus settled capital".          *)
MarkPlusCapital ==
    \A i \in FundMarks :
        (\A j \in FundMarks :
            \/ log[j].date < log[i].date
            \/ log[j].date = log[i].date /\ j <= i)
        => value["fund"] = log[i].value
               + SumFunction([t \in SettledSince(log[i].date) |-> FundDelta(txs[t])])

(* While a reconciled period counts as covered, the history still shows at  *)
(* its end the balance the statement had (cashflowCoverageCurrent, read by  *)
(* the performance reports long after the reconciliation).                  *)
CoverageHolds ==
    \A p \in coverage : CoverageCurrent(p) =>
        \E d \in Dates :
            /\ d <= p.to
            /\ cashRows[d] = p.closing
            /\ \A e \in Dates : d < e /\ e <= p.to => cashRows[e] = -1
=============================================================================
