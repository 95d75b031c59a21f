\* Two turns, a new thread and a kill over a pool of one worker.
CONSTANTS
    c1 = c1
    c2 = c2
    n1 = n1
    k1 = k1
    t1 = t1
    t2 = t2
    Threads = {t1, t2}
    Turners = {c1, c2}
    Creators = {n1}
    Killers = {k1}
    Scenarios <- SomeScenarios
    MaxWorkers = 3
    None = None
SPECIFICATION PoolSpec
INVARIANTS PoolExact ResultsReach
PROPERTY CallsSettle
CHECK_DEADLOCK FALSE
