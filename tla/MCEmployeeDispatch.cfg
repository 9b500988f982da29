\* One employee request, the manual handlers, two concurrent sweeps.
CONSTANTS
    Users = {u1}
    Delegations = {d1}
    Requests = {e1}
    EmployeeRequests = {e1}
    Payloads = {p1}
    Workers = {w1}
    Dispatchers = {k1, k2}
    DailyCap = 1
    None = None
SPECIFICATION DispatchSpec
SYMMETRY MCSymmetry
CONSTRAINT MCBound
INVARIANTS
    DispatchTypeOK
    CompletedExactlyWhenExecuted
    NoStrandedRow
PROPERTIES
    LiveLeaseEndsOnlyByHolder
    DispatchedUnderFullAuthority
    ImplementsBoundedTask
