SPECIFICATION Spec
CONSTANTS
    m1 = m1 m2 = m2 o1 = o1 o2 = o2 o3 = o3
    Mutators <- TwoMutators
    Daemon = daemon
    Objects <- TwoObjects
    LIST_INCREMENT = 3
    Nil = Nil
SYMMETRY MutatorSymmetry
INVARIANTS FinalizedOnce QueuedAreKept WaiterIsRemembered
