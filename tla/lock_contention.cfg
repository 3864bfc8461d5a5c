SPECIFICATION Spec
CONSTANTS
    t1 = t1 t2 = t2 t3 = t3 o1 = o1 o2 = o2 o3 = o3 m1 = m1 m2 = m2 m3 = m3
    Threads <- ThreeThreads
    Objects <- OneObject
    Monitors = {m1}
    COUNT_SIZE = 1
    HASHTABSZE = 32
    MaxDepth = 3
    MaxTries = 2
    Calls = {"lock", "wait", "notify", "notifyAll", "interrupt"}
    Spurious = FALSE
    SMP = FALSE
    EnterBound = 3
    Nil = Nil
SYMMETRY ThreadSymmetry
INVARIANTS MutualExclusion DepthIsRecorded OnlyNonOwnersThrow ContenderIsRemembered NotificationsHaveTakers AbandonedIsThin
PROPERTIES ImplementsJavaMonitor
CHECK_DEADLOCK FALSE
