\* Two users and two payloads contend for one request through two handlers.
CONSTANTS
    Users = {u1, u2}
    Delegations = {d1, d2}
    Requests = {r1}
    EmployeeRequests = {r1}
    Payloads = {p1, p2}
    Workers = {w1, w2}
    DailyCap = 1
    None = None
SPECIFICATION Spec
SYMMETRY MCSymmetry
CONSTRAINT MCBound
INVARIANTS
    TypeOK
    ExactlyApprovedEffect
PROPERTIES
    EffectOnlyUnderLiveAuthority
    PreparedFromLiveSource
    ImplementsBoundedTask
