---------------------------- MODULE MCCashLedger ----------------------------
(***************************************************************************)
(* CashLedger for TLC.  Notices and balances meet only in the settlement   *)
(* of a transaction, so the run explores the union of two bounded parts:   *)
(* every history of two similar notices and two transactions whose         *)
(* postings all fall on one day, and every history of two transactions     *)
(* without notices, with marks, corrections, reversals and reconciliations *)
(* on three days.                                                          *)
(***************************************************************************)
EXTENDS CashLedger, TLC

MCTerms ==
    { [amount |-> 2, effective |-> 0, due |-> 0],
      [amount |-> 1, effective |-> 0, due |-> 1],
      [amount |-> 1, effective |-> None, due |-> None] }

Symmetry == Permutations(Notices) \cup Permutations(Txs)

Registered == {n \in Notices : notices[n] # NoNotice}

Recorded == {t \in Txs : txs[t] # NoTx}

NoticesVary ==
    /\ \A n \in Registered : notices[n].kind = "capital_call"
    /\ \A t \in Recorded : txs[t].kind = "capital_call" /\ txs[t].due # 2
    /\ \A i \in DOMAIN log :
           /\ log[i].date = OpeningDate
           /\ log[i].type = "mark" => i <= 2 /\ log[i].value = 3
    /\ coverage = {}

BalancesVary ==
    /\ Registered = {}
    /\ \A t \in Recorded : txs[t].due = OpeningDate

MCSpec == LedgerInit /\ [][LedgerNext /\ (NoticesVary \/ BalancesVary)']_ledgerVars
=============================================================================
