\* The documented claim about transient failures.
CONSTANTS
    Users = {u1}
    Delegations = {d1}
    Requests = {e1}
    EmployeeRequests = {e1}
    Payloads = {p1}
    Workers = {w1}
    Dispatchers = {k1, k2}
    DailyCap = 2
    None = None
SPECIFICATION MCLiveSpec
PROPERTIES
    OnlyDenialsAreTerminal
