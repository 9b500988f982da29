\* Two sweeps of one request, two evidence files and two pages of reports, each
\* more than one sweep can do, and one reservation in flight.
CONSTANTS
    Requests = {q1}
    Owners = {o1}
    Sweeps = {k1, k2}
    Evidence = {e1, e2}
    Batch = 1
    MaxAttempts = 3
    ReportPages = 2
    Reservations = {x1}
    RunIds = {n1}
    Runners = {w1}
    Amounts = {1}
    Budget = 1
    None = None
SPECIFICATION DeletionSpec
SYMMETRY MCSymmetry
\* Nothing moves once the tenant is purged.
CHECK_DEADLOCK FALSE
INVARIANTS
    UsersLeaveWithTenant
