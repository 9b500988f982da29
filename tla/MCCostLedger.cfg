\* Three runs, which may repeat a run id, against a budget that holds one dear
\* answer and one cheap estimate.
CONSTANTS
    Reservations = {x1, x2, x3}
    RunIds = {n1, n2, n3}
    Runners = {w1, w2, w3}
    Amounts = {1, 2}
    Budget = 3
    None = None
SPECIFICATION LedgerSpec
SYMMETRY MCSymmetry
\* Nothing moves once the tenant is purged.
CHECK_DEADLOCK FALSE
INVARIANTS
    LedgerTypeOK
    BooksBalance
    NeverOverBudget
    CallsAreAccounted
    OneCallPerRunId
