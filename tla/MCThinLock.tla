------------------------------ MODULE MCThinLock ------------------------------
(* Instances of ThinLock for TLC. *)
EXTENDS ThinLock, TLC

CONSTANTS t1, t2, t3, o1, o2, o3, m1, m2, m3

TwoThreads   == {t1, t2}
ThreeThreads == {t1, t2, t3}
OneObject    == {o1}
TwoObjects   == {o1, o2}
ThreeObjects == {o1, o2, o3}

(* Threads are interchangeable: no definition picks one of them.           *)
ThreadSymmetry == Permutations(Threads)

===============================================================================
