\* Two approved requests and a sweep that may crash at every step; three policies,
\* one of them with tasks, days of two hours and a listing of two.
CONSTANTS
    Users = {u1}
    Delegations = {d1}
    Requests = {e1, e2}
    EmployeeRequests = {e1, e2}
    Payloads = {p1}
    Workers = {w1}
    Dispatchers = {k1}
    DailyCap = 2
    None = None
    Policies = {1, 2, 3}
    Tasked = {1}
    Runners = {run1}
    Limit = 2
    Interval = 1
    MaxDaily = 1
    Day = 2
    LastHour = 3
    MaxMishaps = 0
SPECIFICATION MCSpec
PROPERTIES
    EveryRowSettles
    DuePoliciesRun
