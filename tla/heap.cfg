SPECIFICATION Spec
CONSTANTS
    t1 = t1 t2 = t2
    Threads <- TwoThreads
    MinHeap = 3
    heapmax = 5
    Requests = {1, 2, 3}
    OOMSize = 1
    Nil = Nil
SYMMETRY ThreadSymmetry
INVARIANTS HeapIsTiled FreeListIsAccurate
PROPERTIES ReachableAreKept LargestIsRight
CHECK_DEADLOCK FALSE
