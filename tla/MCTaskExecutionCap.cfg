\* One owner, three requests under one delegation that allows two tasks a day.
CONSTANTS
    Users = {u1}
    Delegations = {d1}
    Requests = {r1, r2, r3}
    EmployeeRequests = {}
    Payloads = {p1}
    Workers = {w1, w2}
    DailyCap = 2
    None = None
SPECIFICATION Spec
SYMMETRY MCSymmetry
INVARIANTS
    DailyCapHolds
