---------------------------- MODULE MCLockTable -----------------------------
(***************************************************************************)
(* Instances of ThinLock in which the program unlocks what it has not      *)
(* locked and the table of Monitors is too small.  A behaviour is one of   *)
(* two: a thread alone uses all the objects, or all threads use one.       *)
(***************************************************************************)
EXTENDS MCThinLock

VARIABLE part

MCInit == Init /\ part \in {"alone", "together"}

(* The other threads are still where Init has them.                        *)
Alone ==
    /\ part = "alone"
    /\ Next
    /\ \A u \in Threads \ {t1} : pc'[u] = "idle" /\ \A o \in Objects : depth'[u][o] = 0

(* The other objects have the lock word Init gives them, and no call is    *)
(* about them.                                                             *)
Together ==
    /\ part = "together"
    /\ Next
    /\ \A o \in Objects \ {o1} : lock'[o] = Unlocked
    /\ \A u \in Threads : pc'[u] # "idle" => obj'[u] = o1

MCNext == (Alone \/ Together) /\ UNCHANGED part

MCSpec == MCInit /\ [][MCNext]_<<vars, part>>

=============================================================================
