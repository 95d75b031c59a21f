\* A worker evicted, or killed, under a turn that has just got it.
CONSTANTS
    c1 = c1
    c2 = c2
    n1 = n1
    k1 = k1
    t1 = t1
    t2 = t2
    Threads = {t1, t2}
    Turners = {c1, c2}
    Creators = {n1}
    Killers = {k1}
    Scenarios <- SomeScenarios
    MaxWorkers = 3
    None = None
SPECIFICATION Spec
INVARIANT PoolOwnsProcesses
CHECK_DEADLOCK FALSE
