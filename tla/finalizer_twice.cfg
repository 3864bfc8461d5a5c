SPECIFICATION Spec
CONSTANTS
    m1 = m1 m2 = m2 o1 = o1 o2 = o2 o3 = o3
    Mutators <- OneMutator
    Daemon = daemon
    Objects <- ThreeObjects
    LIST_INCREMENT = 2
    Nil = Nil
INVARIANTS FinalizedOnce
