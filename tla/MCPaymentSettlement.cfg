CONSTANTS
    Orders = {o1, o2}
    Workers = {w1, w2}
    Calls = {c1}
    Advisors = {}
    Cost = 1
    Cap = 1
    Allowance = 1
    Pool = 0
    ClientCap = 0
    Credits = 1
    None = None
    Uploads = {u1, u2}
    Keys = {k1, k2}
    PerOrder = 1
    Staff = {v1, v2}
    Nothing = Nothing
SPECIFICATION MCSpec
CHECK_DEADLOCK FALSE
SYMMETRY MCSymmetry
CONSTRAINT MCBound
INVARIANTS
    MCTypeOK
    CreditsBacked
    PaidIsFulfilled
    RefundCovered
    ReceiptsKept
PROPERTIES
    ImplementsWallet
