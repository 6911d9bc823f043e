SPECIFICATION MCSpec
CONSTANTS
    n1 = n1
    n2 = n2
    t1 = t1
    t2 = t2
    None = None
    Notices = {n1, n2}
    Txs = {t1, t2}
    Kinds = {"capital_call", "distribution", "deposit"}
    Terms <- MCTerms
    Dates = {0, 1, 2}
    Amounts = {1}
    MarkValues = {2, 3}
    OpeningDate = 1
    MaxValue = 4
    MaxAmendments = 1
    MaxMarks = 1
    MaxPeriods = 1
SYMMETRY Symmetry
INVARIANTS
    PaidOnce
    NoticesNotOverpaid
    MarkPlusCapital
    CoverageHolds
CHECK_DEADLOCK FALSE
