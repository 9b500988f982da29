\* The documented claim about the delegation at execution time.
CONSTANTS
    Users = {u1}
    Delegations = {d1}
    Requests = {r1}
    EmployeeRequests = {}
    Payloads = {p1}
    Workers = {w1, w2}
    DailyCap = 1
    None = None
SPECIFICATION Spec
PROPERTIES
    EffectUnderLiveDelegation
