-------------------------------- MODULE MCHeap --------------------------------
(* Instances of Heap for TLC. *)
EXTENDS Heap

CONSTANTS t1, t2

OneThread == {t1}
TwoThreads == {t1, t2}

ThreadSymmetry == Permutations(TwoThreads)

===============================================================================
