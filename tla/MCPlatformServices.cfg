CONSTANTS
    Calls = {c1, c2}
    Advisors = {c1}
    Cost = 2
    Cap = 5
    Allowance = 4
    Pool = 3
    ClientCap = 3
    Credits = 1
    Notes = {n1}
    Channels = {"in_app", "email", "whatsapp"}
    Sweeps = {s1, s2}
    Producers = {p1, p2}
    MaxAttempts = 2
    Quota = 2
    MaxLosses = 1
    Writers = {w1, w2, w3}
    Changers = {w1, w2}
    MaxTries = 2
    PageSize = 2
    Genesis = Genesis
    Nobody = Nobody
    Observers = {l1, l2}
    Horizon = 2
    Enough = 2
    MaxCount = 2
    MaxSetbacks = 1
    Policies = {1, 2}
    Tasked = {1}
    Runners = {run1, run2}
    Limit = 1
    Interval = 1
    MaxDaily = 1
    Day = 2
    LastHour = 2
    MaxMishaps = 1
    Requests = {r1, r2, r3}
    Payloads = {x, y}
    MaxTakings = 2
    NoKey = NoKey
SPECIFICATION MCSpec
CHECK_DEADLOCK FALSE
INVARIANTS
    ServicesTypeOK
    CreditsAccounted
    DuplicatesExplained
    QuotaAccounted
    ChainVouches
    KeyKept
    OneRunPerOccurrence
PROPERTIES
    NotificationsSettle
    ImplementsSchedule
    DueIsObserved
