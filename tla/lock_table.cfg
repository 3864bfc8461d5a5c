SPECIFICATION MCSpec
CONSTANTS
    t1 = t1 t2 = t2 t3 = t3 o1 = o1 o2 = o2 o3 = o3 m1 = m1 m2 = m2 m3 = m3
    Threads <- TwoThreads
    Objects <- ThreeObjects
    Monitors = {m1, m2, m3}
    COUNT_SIZE = 1
    HASHTABSZE = 2
    MaxDepth = 2
    MaxTries = 2
    Calls = {"lock", "timedwait", "unbalanced"}
    Spurious = FALSE
    SMP = FALSE
    EnterBound = 2
    Nil = Nil
INVARIANTS MonitorIsNotRecycled OwnerHoldsMutex
