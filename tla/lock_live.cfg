SPECIFICATION FairSpec
CONSTANTS
    t1 = t1 t2 = t2 t3 = t3 o1 = o1 o2 = o2 o3 = o3 m1 = m1 m2 = m2 m3 = m3
    Threads <- ThreeThreads
    Objects <- OneObject
    Monitors = {m1}
    COUNT_SIZE = 1
    HASHTABSZE = 32
    MaxDepth = 1
    MaxTries = 2
    Calls = {"lock"}
    Spurious = FALSE
    SMP = FALSE
    EnterBound = 3
    Nil = Nil
PROPERTIES FreeLockIsTaken
