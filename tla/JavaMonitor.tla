------------------------------ MODULE JavaMonitor ------------------------------
(***************************************************************************)
(* What lock.c promises to the interpreter and to java.lang.Object: every  *)
(* object has a reentrant lock of one thread at a time and a wait set;     *)
(* wait() gives the lock up however often it was taken and has it back     *)
(* before it returns.  Nothing is said of thin and fat locks, of Monitors  *)
(* or of who is woken first.                                               *)
(***************************************************************************)
EXTENDS Naturals

CONSTANTS Threads, Objects

VARIABLES
    held,           \* how often each thread has locked each object
    waitset         \* the threads inside wait() on each object

vars == <<held, waitset>>

(* A thread in the wait set keeps its count but not the lock.              *)
Has(t, o) == held[t][o] > 0 /\ t \notin waitset[o]

Free(t, o) == \A u \in Threads \ {t} : ~Has(u, o)

Init ==
    /\ held = [t \in Threads |-> [o \in Objects |-> 0]]
    /\ waitset = [o \in Objects |-> {}]

Enter(t, o) ==
    /\ Free(t, o) /\ t \notin waitset[o]
    /\ held' = [held EXCEPT ![t][o] = @ + 1]
    /\ UNCHANGED waitset

Exit(t, o) ==
    /\ Has(t, o)
    /\ held' = [held EXCEPT ![t][o] = @ - 1]
    /\ UNCHANGED waitset

BeginWait(t, o) ==
    /\ Has(t, o)
    /\ waitset' = [waitset EXCEPT ![o] = @ \cup {t}]
    /\ UNCHANGED held

EndWait(t, o) ==
    /\ t \in waitset[o] /\ Free(t, o)
    /\ waitset' = [waitset EXCEPT ![o] = @ \ {t}]
    /\ UNCHANGED held

Next == \E t \in Threads, o \in Objects :
    Enter(t, o) \/ Exit(t, o) \/ BeginWait(t, o) \/ EndWait(t, o)

Spec == Init /\ [][Next]_vars

===============================================================================
