\* Overlapping requests in one process, and a warmer; failures and crashes.
SPECIFICATION Spec
CONSTANTS
    p1 = p1
    r1 = r1
    r2 = r2
    w1 = w1
    q1 = q1
    Processes = {p1}
    Warmers = {w1}
    Queries = {q1}
    Requests = {r1, r2}
    BatchSize = 2
    Threshold = 3
    ResponseTtl = 1
    TicksPerMinute = 2
    MaxLatency = 1
    MaxHits = 4
    MaxFailures = 1
SYMMETRY MCRequests
INVARIANTS
    NeverOvercounts
    CountersExpire
    WarmedAreHotAndRecent
\* Guests may stop asking.
CHECK_DEADLOCK FALSE
