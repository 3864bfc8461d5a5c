---------------------------- MODULE FinalizerProofs ----------------------------
(***************************************************************************)
(* Proofs about Finalizer, for any number of threads and objects and any   *)
(* LIST_INCREMENT.                                                         *)
(***************************************************************************)
EXTENDS Finalizer, FiniteSetTheorems, TLAPS

(* The property is about where threads are, and runningFinalizers alone.   *)
PCTypeOK == pc \in [Threads -> Labels]

(* Who will pass the signal on.                                            *)
Helper(u) == pc[u] \in {"woken", "daemon_woken", "finalizers"}

(* The inductive invariant.                                                *)
IInv == PCTypeOK /\ WaiterIsRemembered

(* pthread_cond_signal wakes a thread, if one waits: that one will help.   *)
LEMMA NotifyHelps ==
    ASSUME PCTypeOK, NEW t \in Threads, NEW l \in Labels \ {"wait"},
           pc[t] \notin {"wait", "daemon_wait"}, NotifyAndGoto(t, l)
    PROVE  IInv'
<1>1. CASE Waiting = {} /\ Goto(t, l)
  BY <1>1 DEF PCTypeOK, Waiting, Goto, IInv, WaiterIsRemembered
<1>2. ASSUME NEW u \in Waiting, pc' = [pc EXCEPT ![t] = l, ![u] = Woken(u)]
      PROVE  IInv'
  <2>1. u \in Threads /\ u # t /\ Woken(u) \in {"woken", "daemon_woken"}
    BY <1>2 DEF Waiting, Woken
  <2>2. PCTypeOK'
    BY <1>2, <2>1 DEF PCTypeOK, Labels
  <2>3. Helper(u)'
    BY <1>2, <2>1 DEF PCTypeOK, Helper
  <2> QED
    BY <2>1, <2>2, <2>3 DEF IInv, WaiterIsRemembered, Helper
<1> QED
  BY <1>1, <1>2 DEF NotifyAndGoto

(* A thread that goes somewhere, neither to wait nor from where it was     *)
(* needed, leaves the others remembered.                                   *)
LEMMA GotoRemembers ==
    ASSUME IInv, NEW t \in Threads, NEW l \in Labels \ {"wait"}, Goto(t, l),
           UNCHANGED runningFinalizers, ~Helper(t) \/ l = "finalizers"
    PROVE  IInv'
<1>1. PCTypeOK'
  BY DEF IInv, PCTypeOK, Goto
<1>2. ASSUME NEW w \in Threads, pc'[w] = "wait", runningFinalizers' = Nil
      PROVE  \E u \in Threads : Helper(u)'
  <2>1. w # t /\ pc[w] = "wait"
    BY <1>2 DEF IInv, PCTypeOK, Goto
  <2>2. PICK u \in Threads : Helper(u)
    BY <1>2, <2>1 DEF IInv, WaiterIsRemembered, Helper
  <2>3. Helper(u)'
    BY <2>2 DEF IInv, PCTypeOK, Goto, Helper
  <2> QED
    BY <2>3
<1> QED
  BY <1>1, <1>2 DEF IInv, WaiterIsRemembered, Helper

(* runFinalizers, on whichever of its ways.                                *)
LEMMA RunStep ==
    ASSUME IInv, NEW t \in Threads, runFinalizers(t)
    PROVE  IInv'
<1>1. CASE /\ runningFinalizers \notin {Nil, t}
           /\ Goto(t, "wait") /\ UNCHANGED runningFinalizers
  BY <1>1 DEF IInv, PCTypeOK, Goto, Labels, WaiterIsRemembered
<1>2. CASE NotifyAndGoto(t, "out")
  BY <1>2, NotifyHelps DEF runFinalizers, IInv, Labels
<1>3. CASE Start(t)
  BY <1>3, FinalizerAssumption DEF Start, Goto, IInv, PCTypeOK, Labels,
     WaiterIsRemembered, Threads
<1> QED
  BY <1>1, <1>2, <1>3 DEF runFinalizers

(* Each step of a thread keeps the waiters remembered.                     *)
LEMMA StepRemembers ==
    ASSUME IInv, NEW t \in Threads, Step(t)
    PROVE  IInv'
<1> USE DEF Labels
<1>1. CASE disableSuspend(t)
  BY <1>1, GotoRemembers DEF disableSuspend, Helper, lists
<1>2. CASE lockHas(t)
  BY <1>2, GotoRemembers DEF lockHas, Helper, lists
<1>3. CASE ADD_FINALIZED_OBJECT(t)
  BY <1>3, GotoRemembers DEF ADD_FINALIZED_OBJECT, Helper
<1>4. CASE enableSuspend(t)
  BY <1>4, GotoRemembers DEF enableSuspend, Helper, lists
<1>5. CASE lockHeap(t)
  BY <1>5, GotoRemembers DEF lockHeap, Helper, lists
<1>6. CASE gc0(t)
  BY <1>6, GotoRemembers DEF gc0, Helper, lists
<1>7. CASE grabHas(t)
  BY <1>7, GotoRemembers DEF grabHas, Helper, lists
<1>8. CASE lockRun(t)
  BY <1>8, GotoRemembers DEF lockRun, Helper, lists
<1>9. CASE doMark(t)
  <2>1. pc[t] = "scan" /\ UNCHANGED runningFinalizers
    BY <1>9 DEF doMark
  <2>2. CASE Goto(t, "set_count")
    BY <2>1, <2>2, GotoRemembers DEF Helper
  <2>3. CASE UNCHANGED pc
    BY <2>1, <2>3 DEF IInv, PCTypeOK, WaiterIsRemembered
  <2> QED
    BY <1>9, <2>2, <2>3 DEF doMark
<1>10. CASE setCount(t)
  <2>1. pc[t] = "set_count" /\ UNCHANGED runningFinalizers
    BY <1>10 DEF setCount
  <2>2. CASE NotifyAndGoto(t, "sweep")
    BY <2>1, <2>2, NotifyHelps DEF IInv
  <2>3. CASE Goto(t, "sweep")
    BY <2>1, <2>3, GotoRemembers DEF Helper
  <2> QED
    BY <1>10, <2>2, <2>3 DEF setCount
<1>11. CASE doSweep(t)
  <2>1. pc[t] = "sweep" /\ UNCHANGED runningFinalizers
    BY <1>11 DEF doSweep, lists
  <2> QED
    BY <1>11, <2>1, GotoRemembers DEF doSweep, Helper
<1>12. CASE runFinalizers(t)
  BY <1>12, RunStep
<1>13. CASE executeMethod(t)
  BY <1>13, GotoRemembers DEF executeMethod, Helper, lists
<1>14. CASE finalized(t)
  BY <1>14, GotoRemembers DEF finalized, Java, Helper, lists
<1>15. CASE nextFinalizer(t)
  <2>1. pc[t] = "relock"
    BY <1>15 DEF nextFinalizer
  <2>2. CASE Goto(t, "execute") /\ UNCHANGED runningFinalizers
    BY <2>1, <2>2, GotoRemembers DEF Helper
  <2>3. CASE LastFinalizer(t)
    BY <2>1, <2>3, NotifyHelps DEF LastFinalizer, IInv
  <2> QED
    BY <1>15, <2>2, <2>3 DEF nextFinalizer
<1>16. CASE out(t)
  <2>1. pc[t] = "out" /\ UNCHANGED runningFinalizers
    BY <1>16 DEF out, lists
  <2> QED
    BY <1>16, <2>1, GotoRemembers DEF out, Helper
<1> QED
  BY <1>1, <1>2, <1>3, <1>4, <1>5, <1>6, <1>7, <1>8, <1>9, <1>10, <1>11,
     <1>12, <1>13, <1>14, <1>15, <1>16 DEF Step

(* So does what the program does,                                          *)
LEMMA ProgramRemembers ==
    ASSUME IInv, NEW t \in Threads, Program(t)
    PROVE  IInv'
<1>1. CASE allocObject(t)
  BY <1>1, GotoRemembers DEF allocObject, Java, Helper, lists, Labels
<1>2. CASE gcMalloc(t)
  BY <1>2, GotoRemembers DEF gcMalloc, Java, Helper, lists, Labels
<1>3. CASE UNCHANGED <<pc, runningFinalizers>>
  BY <1>3 DEF IInv, PCTypeOK, WaiterIsRemembered
<1> QED
  BY <1>1, <1>2, <1>3 DEF Program, resurrect, drop, lists

(* and the loop of the finalizer thread.                                   *)
LEMMA LoopRemembers ==
    ASSUME IInv, finalizerThreadLoop
    PROVE  IInv'
<1>1. Daemon \in Threads /\ UNCHANGED runningFinalizers
  BY DEF finalizerThreadLoop, lists, Threads
<1>2. CASE pc[Daemon] = "daemon" /\ Goto(Daemon, "daemon_wait")
  BY <1>1, <1>2, GotoRemembers DEF Helper, Labels
<1>3. CASE pc[Daemon] = "daemon_woken" /\ Goto(Daemon, "finalizers")
  BY <1>1, <1>3, GotoRemembers DEF Helper, Labels
<1> QED
  BY <1>2, <1>3 DEF finalizerThreadLoop

(* alloc.c, runFinalizers: one signal wakes one thread, which may be the   *)
(* finalizer thread, a thread out of heap, or one that has to wait again;  *)
(* still, for any number of threads, whoever waits for a thread to be done *)
(* with its finalizers waits for a thread that is running them, or one     *)
(* that was woken has yet to pass the signal on.                           *)
THEOREM WaitersAreRemembered == Spec => []WaiterIsRemembered
<1>1. Init => IInv
  BY DEF Init, IInv, PCTypeOK, Labels, WaiterIsRemembered
<1>2. IInv /\ [Next]_vars => IInv'
  <2> SUFFICES ASSUME IInv, [Next]_vars PROVE IInv'
    OBVIOUS
  <2>1. CASE finalizerThreadLoop
    BY <2>1, LoopRemembers
  <2>2. ASSUME NEW t \in Threads, Program(t) \/ Step(t) PROVE IInv'
    BY <2>2, StepRemembers, ProgramRemembers
  <2>3. CASE UNCHANGED vars
    BY <2>3 DEF vars, lists, IInv, PCTypeOK, WaiterIsRemembered
  <2> QED
    BY <2>1, <2>2, <2>3 DEF Next
<1> QED
  BY <1>1, <1>2, PTL DEF Spec, IInv

-----------------------------------------------------------------------------
(* The ring has no room: the next append overwrites an entry or rearranges *)
(* the ring under the thread that walks it (see the README).               *)
Full(r) == r.size > 0 /\ (r.start = r.end \/ (r.start = 0 /\ r.end = r.size))

RingIsFull == Full(run_finaliser)

RingOK(r) ==
    /\ r = [start |-> r.start, end |-> r.end, size |-> r.size, list |-> r.list]
    /\ r.size \in Nat /\ r.start \in 0..r.size /\ r.end \in 0..r.size
    /\ r.list \in [0..r.size - 1 -> Objects \cup {Nil}]
    /\ r.size = 0 \/ r.size >= LIST_INCREMENT
    /\ r.end = 0 => r.start = r.size
    /\ \A i \in Indices(r) : r.list[i] \in Objects
    /\ \A i, j \in Indices(r) : r.list[i] = r.list[j] => i = j

Entries(r) == {r.list[i] : i \in Indices(r)}

(* An entry and the end of the ring, updated together.                     *)
LEMMA UpdateEntry ==
    ASSUME NEW r, r = [start |-> r.start, end |-> r.end, size |-> r.size, list |-> r.list],
           NEW x, NEW y, NEW o
    PROVE  [r EXCEPT !.list[x] = o, !.end = y]
              = [start |-> r.start, end |-> y, size |-> r.size, list |-> [r.list EXCEPT ![x] = o]]
<1> DEFINE m == [r.list EXCEPT ![x] = o]
<1>1. [[start |-> r.start, end |-> r.end, size |-> r.size, list |-> m] EXCEPT !.end = y]
         = [start |-> r.start, end |-> y, size |-> r.size, list |-> m]
  OBVIOUS
<1>2. [r EXCEPT !.list = m] = [start |-> r.start, end |-> r.end, size |-> r.size, list |-> m]
  OBVIOUS
<1>3. [r EXCEPT !.list[x] = o, !.end = y] = [[r EXCEPT !.list[x] = o] EXCEPT !.end = y]
  OBVIOUS
<1>4. [r EXCEPT !.list[x] = o] = [r EXCEPT !.list = m]
  OBVIOUS
<1> QED
  BY <1>1, <1>2, <1>3, <1>4, Zenon

(* An index of the ring wraps around at its end.                           *)
LEMMA Wraps ==
    ASSUME NEW n \in Nat \ {0}, NEW i \in 0..n
    PROVE  i % n = IF i = n THEN 0 ELSE i
  OBVIOUS

LEMMA IndicesInRange ==
    ASSUME NEW r, RingOK(r)
    PROVE  Indices(r) \subseteq 0..r.size - 1
  BY DEF RingOK, Indices

(* What Append1 does to a ring that has room.                              *)
Appended(r, g, o) ==
    \E e : /\ e \notin Indices(r) /\ Indices(g) = Indices(r) \cup {e}
           /\ g.list[e] = o /\ \A i \in Indices(r) : g.list[i] = r.list[i]
           /\ Indices(r) # {} => g.start = r.start

(* The first append to a ring that was never used, which grows,            *)
LEMMA FirstAppend ==
    ASSUME NEW r, RingOK(r), r.size = 0, NEW o \in Objects
    PROVE  RingOK(Append1(r, o)) /\ Appended(r, Append1(r, o), o)
<1> DEFINE l0 == [i \in 0 .. LIST_INCREMENT - 1 |-> IF i < 0 THEN r.list[i] ELSE Nil]
           e == 0 % LIST_INCREMENT
           r1 == [start |-> 0, end |-> 0, size |-> LIST_INCREMENT, list |-> l0]
           g == [start |-> 0, end |-> e + 1, size |-> LIST_INCREMENT,
                 list |-> [l0 EXCEPT ![e] = o]]
<1>1. LIST_INCREMENT \in Nat \ {0}
  BY FinalizerAssumption
<1>2. r.start = 0 /\ r.end = 0
  BY DEF RingOK
<1>3. e = 0
  BY <1>1, Wraps
<1>4. Append1(r, o) = g
  <2>1. Enlarged(r) = r1
    BY <1>1, <1>2 DEF Enlarged
  <2>2. r1.end = 0 /\ r1.size = LIST_INCREMENT /\ r1.start = 0 /\ r1.list = l0
    OBVIOUS
  <2>3. r1 = [start |-> r1.start, end |-> r1.end, size |-> r1.size, list |-> r1.list]
    OBVIOUS
  <2> HIDE DEF r1, l0
  <2>4. Append1(r, o) = [r1 EXCEPT !.list[e] = o, !.end = e + 1]
    BY <1>2, <2>1, <2>2 DEF Append1
  <2> HIDE DEF e
  <2> QED
    BY <2>2, <2>3, <2>4, UpdateEntry
<1> HIDE DEF e
<1>5. Indices(r) = {} /\ Indices(g) = {0}
  BY <1>1, <1>2, <1>3 DEF Indices
<1>6. l0 \in [0..LIST_INCREMENT - 1 -> Objects \cup {Nil}]
  BY <1>1
<1> HIDE DEF l0
<1>7. g.list[0] = o /\ g.list \in [0..LIST_INCREMENT - 1 -> Objects \cup {Nil}]
  BY <1>1, <1>3, <1>6
<1>8. RingOK(g)
  <2>1. g = [start |-> g.start, end |-> g.end, size |-> g.size, list |-> g.list]
    OBVIOUS
  <2>2. g.start = 0 /\ g.end = 1 /\ g.size = LIST_INCREMENT
    BY <1>3
  <2> HIDE DEF g
  <2> QED
    BY <1>1, <1>5, <1>7, <2>1, <2>2 DEF RingOK
<1>9. Appended(r, g, o)
  BY <1>5, <1>7 DEF Appended
<1> QED
  BY <1>4, <1>8, <1>9

(* and one to a ring that has room.                                        *)
LEMMA NextAppend ==
    ASSUME NEW r, RingOK(r), r.size # 0, ~Full(r), NEW o \in Objects,
           o \notin Entries(r)
    PROVE  RingOK(Append1(r, o)) /\ Appended(r, Append1(r, o), o)
<1> DEFINE n == r.size
           e == r.end % n
           g == [start |-> r.start, end |-> e + 1, size |-> n,
                 list |-> [r.list EXCEPT ![e] = o]]
<1>1. n \in Nat \ {0} /\ r.end \in 0..n /\ r.start \in 0..n /\ r.start # r.end
  BY DEF RingOK, Full
<1>2. e = IF r.end = n THEN 0 ELSE r.end
  BY <1>1, Wraps
<1>3. Append1(r, o) = g
  <2>1. r = [start |-> r.start, end |-> r.end, size |-> n, list |-> r.list]
    BY DEF RingOK
  <2>2. Append1(r, o) = [r EXCEPT !.list[e] = o, !.end = e + 1]
    BY <1>1 DEF Append1
  <2> QED
    BY <2>1, <2>2, UpdateEntry
<1> HIDE DEF e
<1>4. /\ e \notin Indices(r)
      /\ \A i : i \in Indices(g) <=> i \in Indices(r) \cup {e}
  BY <1>1, <1>2 DEF Indices, Full
<1>5. e \in 0..n - 1
  BY <1>1, <1>2
<1>6. g.list[e] = o /\ \A i \in Indices(r) : g.list[i] = r.list[i]
  BY <1>4, <1>5, IndicesInRange DEF RingOK
<1>7. Indices(g) = Indices(r) \cup {e}
  BY <1>4
<1>8. RingOK(g)
  <2>1. g.list \in [0..n - 1 -> Objects \cup {Nil}]
    BY <1>1, <1>5 DEF RingOK
  <2>2. \A i \in Indices(g) : g.list[i] \in Objects
    BY <1>6, <1>7 DEF RingOK
  <2>3. \A i, j \in Indices(g) : g.list[i] = g.list[j] => i = j
    BY <1>6, <1>7 DEF RingOK, Entries
  <2>4. g.end \in 0..n /\ g.end # 0
    BY <1>1, <1>5
  <2>5. n >= LIST_INCREMENT
    BY DEF RingOK
  <2> HIDE DEF n
  <2> QED
    BY <1>1, <2>1, <2>2, <2>3, <2>4, <2>5 DEF RingOK
<1>9. Appended(r, g, o)
  BY <1>4, <1>6, <1>7 DEF Appended
<1> QED
  BY <1>3, <1>8, <1>9

LEMMA RingAppend ==
    ASSUME NEW r, RingOK(r), ~Full(r), NEW o \in Objects, o \notin Entries(r)
    PROVE  RingOK(Append1(r, o)) /\ Appended(r, Append1(r, o), o)
  BY FirstAppend, NextAppend

(* The first entry: the start wraps around.                                *)
LEMMA RingStart ==
    ASSUME NEW r, RingOK(r), ~(r.start = r.size /\ r.end = 0)
    PROVE  LET i == r.start % r.size
               g == [r EXCEPT !.start = i]
           IN  RingOK(g) /\ Indices(g) = Indices(r) /\ g.list = r.list
                 /\ g.start = i /\ i \in Indices(g)
<1> DEFINE n == r.size
           i == r.start % n
           g == [start |-> i, end |-> r.end, size |-> n, list |-> r.list]
<1>1. n \in Nat \ {0} /\ r.end \in 1..n /\ r.start \in 0..n
  BY DEF RingOK
<1>2. i = IF r.start = n THEN 0 ELSE r.start
  BY <1>1, Wraps
<1>3. [r EXCEPT !.start = i] = g
  BY DEF RingOK
<1> HIDE DEF i
<1>4. i \in Indices(g) /\ \A j : j \in Indices(g) <=> j \in Indices(r)
  BY <1>1, <1>2 DEF Indices
<1>5. Indices(g) = Indices(r)
  BY <1>4
<1>6. RingOK(g)
  BY <1>1, <1>2, <1>5 DEF RingOK
<1> QED
  BY <1>3, <1>4, <1>5, <1>6 DEF i

(* The next one: the entry whose finalizer has run leaves the ring.        *)
LEMMA RingNext ==
    ASSUME NEW r, RingOK(r), r.start \in Indices(r), r.start + 1 # r.end
    PROVE  LET i == (r.start + 1) % r.size
               g == [r EXCEPT !.start = i]
           IN  RingOK(g) /\ Indices(g) = Indices(r) \ {r.start} /\ g.list = r.list
                 /\ g.start = i /\ i \in Indices(g)
<1> DEFINE n == r.size
           i == (r.start + 1) % n
           g == [start |-> i, end |-> r.end, size |-> n, list |-> r.list]
<1>1. n \in Nat \ {0} /\ r.end \in 0..n /\ r.start \in 0..n - 1
  BY IndicesInRange DEF RingOK
<1>2. r.end # 0
  BY <1>1 DEF RingOK
<1>3. i = IF r.start + 1 = n THEN 0 ELSE r.start + 1
  BY <1>1, Wraps
<1>4. [r EXCEPT !.start = i] = g
  BY DEF RingOK
<1> HIDE DEF i
<1>5. i \in Indices(g) /\ \A j : j \in Indices(g) <=> j \in Indices(r) \ {r.start}
  BY <1>1, <1>2, <1>3 DEF Indices
<1>6. Indices(g) = Indices(r) \ {r.start}
  BY <1>5
<1>7. RingOK(g)
  BY <1>1, <1>2, <1>3, <1>6 DEF RingOK
<1> QED
  BY <1>4, <1>5, <1>6, <1>7 DEF i

(* The last one: the ring is empty.                                        *)
LEMMA RingLast ==
    ASSUME NEW r, RingOK(r), r.start \in Indices(r), r.start + 1 = r.end
    PROVE  LET g == [r EXCEPT !.start = r.size, !.end = 0]
           IN  RingOK(g) /\ Indices(g) = {} /\ g.list = r.list
<1> DEFINE n == r.size
           g == [start |-> n, end |-> 0, size |-> n, list |-> r.list]
<1>1. n \in Nat \ {0}
  BY IndicesInRange DEF RingOK
<1>2. [r EXCEPT !.start = r.size, !.end = 0] = g
  <2>1. [r EXCEPT !.start = r.size] = [start |-> n, end |-> r.end, size |-> n, list |-> r.list]
    BY DEF RingOK
  <2>2. [[start |-> n, end |-> r.end, size |-> n, list |-> r.list] EXCEPT !.end = 0] = g
    OBVIOUS
  <2>3. [r EXCEPT !.start = r.size, !.end = 0] = [[r EXCEPT !.start = r.size] EXCEPT !.end = 0]
    OBVIOUS
  <2> QED
    BY <2>1, <2>2, <2>3, Zenon
<1>3. Indices(g) = {}
  BY <1>1 DEF Indices
<1>4. RingOK(g)
  BY <1>1, <1>3 DEF RingOK
<1> QED
  BY <1>2, <1>3, <1>4

(* A full ring has as many different objects as it has entries: with fewer *)
(* objects than LIST_INCREMENT the ring is never full.                     *)
LEMMA FewObjectsFit ==
    ASSUME IsFiniteSet(Objects), Cardinality(Objects) < LIST_INCREMENT,
           NEW r, RingOK(r)
    PROVE  ~Full(r)
<1> SUFFICES ASSUME Full(r) PROVE FALSE
  OBVIOUS
<1> DEFINE n == r.size
           f == [i \in 1..n |-> r.list[i - 1]]
<1>1. n \in Nat /\ n >= LIST_INCREMENT /\ LIST_INCREMENT \in Nat
  BY FinalizerAssumption DEF RingOK, Full
<1>2. \A i \in 0..n - 1 : i \in Indices(r)
  BY DEF RingOK, Full, Indices
<1>3. f \in [1..n -> Objects]
  BY <1>1, <1>2 DEF RingOK
<1>4. \A i, j \in 1..n : f[i] = f[j] => i = j
  <2> SUFFICES ASSUME NEW i \in 1..n, NEW j \in 1..n, f[i] = f[j] PROVE i = j
    OBVIOUS
  <2>1. i - 1 \in 0..n - 1 /\ j - 1 \in 0..n - 1
    BY <1>1
  <2>2. i - 1 = j - 1
    BY <1>2, <2>1 DEF RingOK
  <2> QED
    BY <1>1, <2>2
<1> HIDE DEF f
<1>5. f \in Injection(1..n, Objects)
  BY <1>3, <1>4 DEF Injection, IsInjective
<1>6. Cardinality(1..n) = n
  <2>1. n \in Int /\ 1 \in Int /\ (1 > n => n = 0) /\ n - 1 + 1 = n
    BY <1>1
  <2> HIDE DEF n
  <2> QED
    BY <2>1, FS_Interval, Zenon
<1>7. n <= Cardinality(Objects)
  BY <1>5, <1>6, FS_Injection
<1>8. Cardinality(Objects) \in Nat
  BY FS_CardinalityType
<1> HIDE DEF n
<1> QED
  BY <1>1, <1>7, <1>8

-----------------------------------------------------------------------------
(* Finalizers run once, and what waits for its finalizer is kept.  The     *)
(* inductive invariant says what the three lists have to do with each      *)
(* other, with the mark bits and with where the threads are.               *)

(* Who has suspended the world, who holds run_fnlzr_lock, who adds.        *)
Stopped    == {"grab_has", "lock_run", "scan", "set_count", "sweep"}
Collecting == Stopped \cup {"gc"}
Scanning   == {"scan", "set_count"}
Adding     == {"add", "lock_has", "append"}

HoldersOK ==
    /\ PCTypeOK
    /\ {heap_lock, has_fnlzr_lock, run_fnlzr_lock, world, runningFinalizers}
          \subseteq Threads \cup {Nil}
    /\ \A t \in Threads :
          /\ pc[t] \in Collecting => heap_lock = t
          /\ pc[t] \in Stopped <=> world = t
          /\ pc[t] \in Scanning <=> run_fnlzr_lock = t

(* The objects that are being added to has_finaliser_list.                 *)
NewOK ==
    /\ new \in [Threads -> Objects \cup {Nil}]
    /\ \A t \in Threads :
          /\ new[t] # Nil =>
                /\ pc[t] \in Adding \cup {"enable"}
                /\ new[t] \in allocated /\ new[t] \notin Queued /\ ran[new[t]] = 0
                /\ \A u \in Threads : new[u] = new[t] => u = t
          /\ pc[t] \in Adding =>
                /\ new[t] # Nil
                /\ \A i \in DOMAIN has_finaliser_list : has_finaliser_list[i] # new[t]

(* The thread that runs finalizers is at the first entry of the ring; the  *)
(* finalizers of the other entries have not run.                           *)
RunningOK ==
    /\ ob \in [Threads -> Objects \cup {Nil}]
    /\ ran \in [Objects -> Nat] /\ \A o \in Objects : ran[o] <= 1
    /\ \A t \in Threads :
          /\ ob[t] # Nil <=> runningFinalizers = t
          /\ ob[t] # Nil =>
                /\ run_finaliser.start \in Indices(run_finaliser)
                /\ ob[t] = run_finaliser.list[run_finaliser.start]
          /\ pc[t] \in {"execute", "relock"} => ob[t] # Nil
          /\ pc[t] = "execute" => ran[ob[t]] = 0
    /\ \A i \in Indices(run_finaliser) :
          runningFinalizers = Nil \/ i # run_finaliser.start
             => ran[run_finaliser.list[i]] = 0

(* has_finaliser_list has each object once, and none whose finalizer ran.  *)
ListOK ==
    /\ has_finaliser_list \in Seq(Objects)
    /\ \A i \in DOMAIN has_finaliser_list :
          /\ has_finaliser_list[i] \in allocated /\ ran[has_finaliser_list[i]] = 0
          /\ \A j \in DOMAIN has_finaliser_list :
                has_finaliser_list[i] = has_finaliser_list[j] => i = j

(* While doMark scans it, neither what it has kept nor what it has not yet *)
(* looked at is in the ring; if it has kept all, nothing has gone there.   *)
ScanOK ==
    /\ Len(kept) <= scanned /\ scanned <= Len(has_finaliser_list)
    /\ \A i \in 1..Len(kept) :
          /\ kept[i] \notin Queued /\ kept[i] \in marked
          /\ \E j \in 1..scanned : kept[i] = has_finaliser_list[j]
          /\ \A j \in 1..Len(kept) : kept[i] = kept[j] => i = j
    /\ \A i \in 1..Len(has_finaliser_list) :
          i > scanned => has_finaliser_list[i] \notin Queued
    /\ Len(kept) = scanned =>
          \A i \in 1..scanned : has_finaliser_list[i] \notin Queued
                                  /\ has_finaliser_list[i] \in marked

(* Outside of the scan it has no entry of the ring, and what it has is     *)
(* marked before the sweep.                                                *)
ListsOK ==
    /\ kept \in Seq(Objects) /\ scanned \in Nat
    /\ (\A t \in Threads : pc[t] # "sweep") => ScanOK
    /\ (\A t \in Threads : pc[t] \notin Scanning \cup {"sweep"})
          => kept = << >> /\ scanned = 0
    /\ \A t \in Threads : pc[t] = "sweep" =>
          \A i \in 1..Len(has_finaliser_list) :
             has_finaliser_list[i] \notin Queued /\ has_finaliser_list[i] \in marked

(* What the next sweep must not free.                                      *)
MarksOK ==
    /\ allocated \subseteq Objects /\ reach \subseteq allocated /\ Queued \subseteq allocated
    /\ marked \subseteq Objects \cup {Nil}
    /\ world # Nil =>
          /\ reach \subseteq marked
          /\ \A u \in Threads : new[u] # Nil => new[u] \in marked
    /\ (\E t \in Threads : pc[t] \in Scanning \cup {"sweep"}) => Queued \subseteq marked

FInv ==
    /\ RingOK(run_finaliser)
    /\ HoldersOK /\ NewOK /\ RunningOK /\ ListOK /\ ListsOK /\ MarksOK

(* Where a step of thread t leaves the threads: t is at l, and others only *)
(* move from waiting to woken.                                             *)
Elsewhere == {"wait", "woken", "daemon_wait", "daemon_woken"}

Moved(t, l) ==
    /\ pc' \in [Threads -> Labels] /\ pc'[t] = l
    /\ \A u \in Threads \ {t} : pc'[u] = pc[u] \/ {pc[u], pc'[u]} \subseteq Elsewhere

LEMMA GotoMoves ==
    ASSUME PCTypeOK, NEW t \in Threads, NEW l \in Labels, Goto(t, l)
    PROVE  Moved(t, l)
  BY DEF PCTypeOK, Goto, Moved

LEMMA NotifyMoves ==
    ASSUME PCTypeOK, NEW t \in Threads, NEW l \in Labels,
           pc[t] \notin {"wait", "daemon_wait"}, NotifyAndGoto(t, l)
    PROVE  Moved(t, l)
<1>1. CASE Goto(t, l)
  BY <1>1, GotoMoves
<1>2. ASSUME NEW u \in Waiting, pc' = [pc EXCEPT ![t] = l, ![u] = Woken(u)]
      PROVE  Moved(t, l)
  <2>1. u \in Threads /\ u # t /\ Woken(u) \in {"woken", "daemon_woken"}
        /\ pc[u] \in {"wait", "daemon_wait"}
    BY <1>2 DEF Waiting, Woken
  <2>2. pc' \in [Threads -> Labels] /\ pc'[t] = l /\ pc'[u] = Woken(u)
    BY <1>2, <2>1 DEF PCTypeOK, Labels
  <2>3. \A v \in Threads \ {t} : v # u => pc'[v] = pc[v]
    BY <1>2, <2>1 DEF PCTypeOK
  <2>4. {pc[u], pc'[u]} \subseteq Elsewhere
    BY <2>1, <2>2 DEF Elsewhere
  <2> QED
    BY <2>2, <2>3, <2>4 DEF Moved
<1> QED
  BY <1>1, <1>2 DEF NotifyAndGoto

(* A thread that runs while it is not collecting: nobody is.               *)
LEMMA NobodyCollects ==
    ASSUME HoldersOK, NEW t \in Threads, MayRun(t), pc[t] \notin Stopped
    PROVE  world = Nil /\ \A u \in Threads : pc[u] \notin Stopped
  BY FinalizerAssumption DEF HoldersOK, MayRun

(* There is one collector at a time.                                       *)
LEMMA OneCollector ==
    ASSUME HoldersOK, NEW t \in Threads, pc[t] \in Collecting
    PROVE  \A u \in Threads : pc[u] \in Collecting => u = t
  BY DEF HoldersOK

-----------------------------------------------------------------------------
(* Steps that only take threads and locks from one place to another.       *)
QuietMove(t, l) ==
    /\ Moved(t, l)
    /\ l \in Scanning <=> pc[t] \in Scanning
    /\ l = "sweep" <=> pc[t] = "sweep"
    /\ l \in Adding => pc[t] \in Adding
    /\ new[t] # Nil => l \in Adding \cup {"enable"}
    /\ l # "execute" /\ (l = "relock" => ob[t] # Nil)

LEMMA QuietStep ==
    ASSUME FInv, NEW t \in Threads, NEW l \in Labels, QuietMove(t, l), HoldersOK',
           UNCHANGED <<world, heap, lists, marks, new, ob>>
    PROVE  FInv'
<1>1. UNCHANGED <<allocated, reach, ran, has_finaliser_list, run_finaliser,
                  runningFinalizers, marked, kept, scanned>>
  BY DEF heap, lists, marks
<1>2. Queued' = Queued
  BY <1>1 DEF Queued
<1>3. RingOK(run_finaliser)'
  BY <1>1 DEF FInv, RingOK
<1>4. \A u \in Threads : /\ pc'[u] \in Scanning <=> pc[u] \in Scanning
                         /\ pc'[u] = "sweep" <=> pc[u] = "sweep"
                         /\ pc'[u] \in Adding => pc[u] \in Adding
                         /\ pc'[u] # "execute" \/ pc[u] = "execute"
                         /\ pc'[u] = "relock" => pc[u] = "relock" \/ ob[u] # Nil
                         /\ new[u] # Nil /\ pc[u] \in Adding \cup {"enable"}
                               => pc'[u] \in Adding \cup {"enable"}
  BY DEF QuietMove, Moved, Elsewhere, Scanning, Adding
<1>5. NewOK'
  BY <1>1, <1>2, <1>4 DEF FInv, NewOK
<1>6. RunningOK'
  BY <1>1, <1>4 DEF FInv, RunningOK
<1>7. ListOK'
  BY <1>1 DEF FInv, ListOK
<1>8. ScanOK' = ScanOK
  BY <1>1, <1>2 DEF ScanOK
<1>9. ListsOK'
  BY <1>1, <1>2, <1>4, <1>8 DEF FInv, ListsOK
<1>10. MarksOK'
  BY <1>1, <1>2, <1>4 DEF FInv, MarksOK
<1> QED
  BY <1>3, <1>5, <1>6, <1>7, <1>9, <1>10 DEF FInv

(* They keep the holders of the locks right unless they take one.          *)
LEMMA HoldersKept ==
    ASSUME HoldersOK, NEW t \in Threads, NEW l \in Labels, Moved(t, l),
           l \in Collecting => pc[t] \in Collecting,
           l \in Stopped <=> pc[t] \in Stopped, l \in Scanning <=> pc[t] \in Scanning,
           UNCHANGED <<heap_lock, run_fnlzr_lock, world>>,
           has_fnlzr_lock' \in Threads \cup {Nil},
           runningFinalizers' \in Threads \cup {Nil}
    PROVE  HoldersOK'
<1>1. \A u \in Threads : /\ pc'[u] \in Collecting => pc[u] \in Collecting
                         /\ pc'[u] \in Stopped <=> pc[u] \in Stopped
                         /\ pc'[u] \in Scanning <=> pc[u] \in Scanning
  BY DEF Moved, Elsewhere, Collecting, Stopped, Scanning
<1> QED
  BY <1>1 DEF HoldersOK, PCTypeOK, Moved

-----------------------------------------------------------------------------
(* Each quiet step is one.                                                 *)
LEMMA MovesOnly ==
    ASSUME FInv, NEW t \in Threads,
           \/ disableSuspend(t) \/ lockHas(t) \/ gcMalloc(t) \/ grabHas(t)
           \/ finalized(t) \/ out(t)
    PROVE  FInv'
<1> USE DEF Labels, Collecting, Stopped, Scanning, Adding
<1>1. HoldersOK /\ NewOK /\ PCTypeOK
  BY DEF FInv, HoldersOK
<1>2. UNCHANGED <<heap_lock, run_fnlzr_lock, world, heap, lists, marks, new, ob>>
  BY DEF disableSuspend, lockHas, gcMalloc, grabHas, finalized, out, locks
<1>3. has_fnlzr_lock' \in Threads \cup {Nil} /\ runningFinalizers' \in Threads \cup {Nil}
  BY <1>1 DEF disableSuspend, lockHas, gcMalloc, grabHas, finalized, out, locks,
     lists, HoldersOK
<1>4. \E l \in Labels :
         /\ Goto(t, l)
         /\ l \in Collecting => pc[t] \in Collecting
         /\ l \in Stopped <=> pc[t] \in Stopped
         /\ l \in Scanning <=> pc[t] \in Scanning
         /\ l # "sweep" /\ pc[t] # "sweep"
         /\ l \in Adding => pc[t] \in Adding
         /\ new[t] # Nil => l \in Adding \cup {"enable"}
         /\ l # "execute" /\ (l = "relock" => ob[t] # Nil)
  <2>1. CASE disableSuspend(t) \/ lockHas(t)
    BY <2>1 DEF disableSuspend, lockHas
  <2>2. CASE gcMalloc(t) \/ grabHas(t) \/ finalized(t)
    BY <1>1, <2>2 DEF gcMalloc, grabHas, finalized, Java, NewOK
  <2>3. CASE out(t)
    BY <1>1, <2>3 DEF out, NewOK
  <2> QED
    BY <2>1, <2>2, <2>3
<1>5. PICK l \in Labels :
         /\ Goto(t, l)
         /\ l \in Collecting => pc[t] \in Collecting
         /\ l \in Stopped <=> pc[t] \in Stopped
         /\ l \in Scanning <=> pc[t] \in Scanning
         /\ l # "sweep" /\ pc[t] # "sweep"
         /\ l \in Adding => pc[t] \in Adding
         /\ new[t] # Nil => l \in Adding \cup {"enable"}
         /\ l # "execute" /\ (l = "relock" => ob[t] # Nil)
  BY <1>4
<1> USE DEF Labels
<1>6. Moved(t, l)
  BY <1>1, <1>5, GotoMoves
<1>7. QuietMove(t, l)
  BY <1>5, <1>6 DEF QuietMove
<1>8. HoldersOK'
  BY <1>1, <1>2, <1>3, <1>5, <1>6, HoldersKept
<1> QED
  BY <1>2, <1>7, <1>8, QuietStep

LEMMA LockHeapKeeps ==
    ASSUME FInv, NEW t \in Threads, lockHeap(t)
    PROVE  FInv'
<1>1. HoldersOK /\ NewOK /\ PCTypeOK
  BY DEF FInv, HoldersOK
<1>2. /\ pc[t] = "lock_heap" /\ heap_lock = Nil /\ heap_lock' = t /\ Goto(t, "gc")
      /\ UNCHANGED <<has_fnlzr_lock, run_fnlzr_lock, world, heap, lists, marks, new, ob>>
  BY DEF lockHeap
<1>3. Moved(t, "gc") /\ "gc" \in Labels
  BY <1>1, <1>2, GotoMoves DEF Labels
<1>4. QuietMove(t, "gc")
  BY <1>1, <1>2, <1>3 DEF QuietMove, Scanning, Adding, NewOK
<1>5. \A u \in Threads : pc[u] \notin Collecting
  BY <1>1, <1>2, FinalizerAssumption DEF HoldersOK
<1>6. \A u \in Threads : /\ pc'[u] \in Collecting => u = t
                         /\ pc'[u] \in Stopped <=> pc[u] \in Stopped
                         /\ pc'[u] \in Scanning <=> pc[u] \in Scanning
  BY <1>2, <1>3, <1>5 DEF Moved, Elsewhere, Collecting, Stopped, Scanning
<1>7. HoldersOK'
  BY <1>1, <1>2, <1>3, <1>6 DEF HoldersOK, PCTypeOK, Moved, lists
<1> QED
  BY <1>2, <1>3, <1>4, <1>7, QuietStep

LEMMA LoopKeeps ==
    ASSUME FInv, finalizerThreadLoop
    PROVE  FInv'
<1>1. HoldersOK /\ NewOK /\ PCTypeOK /\ Daemon \in Threads
  BY DEF FInv, HoldersOK, Threads
<1>2. UNCHANGED <<locks, world, heap, lists, marks, new, ob>>
  BY DEF finalizerThreadLoop
<1>3. ASSUME NEW l \in {"daemon_wait", "finalizers"}, Goto(Daemon, l),
             pc[Daemon] \in {"daemon", "daemon_woken"}
      PROVE  FInv'
  <2>1. l \in Labels /\ Moved(Daemon, l)
    BY <1>1, <1>3, GotoMoves DEF Labels
  <2>2. QuietMove(Daemon, l)
    BY <1>1, <1>3, <2>1 DEF QuietMove, Scanning, Adding, NewOK
  <2>3. HoldersOK'
    BY <1>1, <1>2, <1>3, <2>1, HoldersKept
       DEF Collecting, Stopped, Scanning, locks, lists, HoldersOK
  <2> QED
    BY <1>1, <1>2, <2>1, <2>2, <2>3, QuietStep
<1> QED
  BY <1>3 DEF finalizerThreadLoop

(* A new object is in none of the lists.                                   *)
LEMMA AllocKeeps ==
    ASSUME FInv, NEW t \in Threads, allocObject(t)
    PROVE  FInv'
<1>1. HoldersOK /\ NewOK /\ PCTypeOK /\ RunningOK /\ ListOK /\ ListsOK /\ MarksOK
  BY DEF FInv, HoldersOK
<1>2. PICK o \in Objects \ allocated :
          /\ allocated' = allocated \cup {o}
          /\ ran' = [ran EXCEPT ![o] = 0]
          /\ new' = [new EXCEPT ![t] = o]
  BY DEF allocObject
<1>3. /\ pc[t] = "java" /\ MayRun(t) /\ Goto(t, "add")
      /\ UNCHANGED <<heap_lock, has_fnlzr_lock, run_fnlzr_lock, world, reach,
                     has_finaliser_list, run_finaliser, runningFinalizers, marked, kept,
                     scanned, ob>>
  BY DEF allocObject, Java, locks, lists, marks
<1>4. Moved(t, "add") /\ "add" \in Labels
  BY <1>1, <1>3, GotoMoves DEF Labels
<1>5. world = Nil /\ \A u \in Threads : pc[u] \notin Stopped
  BY <1>1, <1>3, NobodyCollects DEF Stopped
<1>6. Queued' = Queued /\ Queued \subseteq allocated
  BY <1>1, <1>3 DEF Queued, MarksOK
<1>7. \A u \in Threads \ {t} : /\ pc'[u] \in Adding <=> pc[u] \in Adding
                               /\ pc'[u] = pc[u] \/ pc'[u] \in Elsewhere
                               /\ pc[u] \in Adding \cup {"enable"}
                                     => pc'[u] \in Adding \cup {"enable"}
  BY <1>4 DEF Moved, Adding, Elsewhere
<1>8. \A u \in Threads : pc'[u] \notin Stopped
  BY <1>4, <1>5, <1>7 DEF Moved, Stopped, Elsewhere
<1>9. RingOK(run_finaliser)'
  BY <1>3 DEF FInv, RingOK
<1>10. HoldersOK'
  BY <1>1, <1>3, <1>4, HoldersKept DEF Collecting, Stopped, Scanning, HoldersOK
<1>11. o # Nil /\ \A i \in DOMAIN has_finaliser_list : has_finaliser_list[i] # o
  BY <1>1, <1>2, FinalizerAssumption DEF ListOK
<1>12. new[t] = Nil /\ \A u \in Threads : new[u] # o
  BY <1>1, <1>2, <1>3, <1>11 DEF NewOK, Adding
<1>13. /\ new'[t] = o /\ new' \in [Threads -> Objects \cup {Nil}]
       /\ \A u \in Threads \ {t} : new'[u] = new[u]
  BY <1>1, <1>2 DEF NewOK
<1>14. /\ ran'[o] = 0 /\ ran' \in [Objects -> Nat]
       /\ \A p \in Objects : p # o => ran'[p] = ran[p]
  BY <1>1, <1>2 DEF RunningOK
<1>15. NewOK'
  <2>1. pc'[t] = "add" /\ o \in allocated' /\ o \notin Queued'
    BY <1>2, <1>4, <1>6 DEF Moved
  <2>2. ASSUME NEW u \in Threads, u # t, new[u] # Nil
        PROVE  /\ pc'[u] \in Adding \cup {"enable"}
               /\ new[u] \in allocated' /\ new[u] \notin Queued' /\ ran'[new[u]] = 0
               /\ \A v \in Threads : new'[v] = new[u] => v = u
    <3>1. /\ pc[u] \in Adding \cup {"enable"}
          /\ new[u] \in allocated /\ new[u] \notin Queued /\ ran[new[u]] = 0
          /\ \A v \in Threads : new[v] = new[u] => v = u
      BY <1>1, <2>2 DEF NewOK
    <3>2. new[u] \in Objects /\ new[u] # o
      BY <1>1, <1>12, <2>2 DEF NewOK
    <3> QED
      BY <1>2, <1>6, <1>7, <1>13, <1>14, <2>2, <3>1, <3>2
  <2>3. ASSUME NEW u \in Threads, u # t, pc'[u] \in Adding
        PROVE  new[u] # Nil /\ \A i \in DOMAIN has_finaliser_list : has_finaliser_list[i] # new[u]
    BY <1>1, <1>7, <2>3 DEF NewOK
  <2>4. \A v \in Threads : new'[v] = o => v = t
    BY <1>12, <1>13
  <2> QED
    BY <1>3, <1>11, <1>13, <1>14, <2>1, <2>2, <2>3, <2>4 DEF NewOK, Adding
<1>16. RunningOK'
  <2>1. \A i \in Indices(run_finaliser) :
           run_finaliser.list[i] \in Objects /\ run_finaliser.list[i] # o
    BY <1>2, <1>6 DEF Queued, FInv, RingOK
  <2>2. \A u \in Threads : ob[u] # Nil => ob[u] \in Objects /\ ob[u] # o
    BY <1>1, <2>1 DEF RunningOK
  <2>3. \A p \in Objects : ran'[p] <= 1
    BY <1>1, <1>14 DEF RunningOK
  <2>4. \A u \in Threads : pc'[u] \in {"execute", "relock"} => pc'[u] = pc[u]
    BY <1>4 DEF Moved, Elsewhere
  <2> QED
    BY <1>1, <1>3, <1>14, <2>1, <2>2, <2>3, <2>4 DEF RunningOK
<1>17. ListOK'
  BY <1>1, <1>2, <1>3, <1>11, <1>14 DEF ListOK
<1>18. ScanOK' = ScanOK
  BY <1>3, <1>6 DEF ScanOK
<1>19. ListsOK'
  BY <1>1, <1>3, <1>5, <1>8, <1>18 DEF ListsOK, Stopped, Scanning
<1>20. MarksOK'
  BY <1>1, <1>2, <1>3, <1>5, <1>6, <1>8 DEF MarksOK, Stopped, Scanning
<1> QED
  BY <1>9, <1>10, <1>15, <1>16, <1>17, <1>19, <1>20 DEF FInv

(* An appended object was in none of the lists; the next sweep keeps it.   *)
LEMMA AddKeeps ==
    ASSUME FInv, NEW t \in Threads, ADD_FINALIZED_OBJECT(t)
    PROVE  FInv'
<1> DEFINE n == Len(has_finaliser_list)
<1>1. HoldersOK /\ NewOK /\ PCTypeOK /\ RunningOK /\ ListOK /\ ListsOK /\ MarksOK
  BY DEF FInv, HoldersOK
<1>2. /\ pc[t] = "append" /\ Goto(t, "enable") /\ has_fnlzr_lock' = Nil
      /\ has_finaliser_list' = Append(has_finaliser_list, new[t])
      /\ UNCHANGED <<heap_lock, run_fnlzr_lock, world, allocated, reach, ran,
                     run_finaliser, runningFinalizers, marked, kept, scanned, new, ob>>
  BY DEF ADD_FINALIZED_OBJECT, heap, marks
<1>3. Moved(t, "enable") /\ "enable" \in Labels
  BY <1>1, <1>2, GotoMoves DEF Labels
<1>4. /\ new[t] \in Objects /\ new[t] # Nil /\ new[t] \in allocated /\ new[t] \notin Queued
      /\ ran[new[t]] = 0 /\ \A u \in Threads : new[u] = new[t] => u = t
      /\ \A i \in DOMAIN has_finaliser_list : has_finaliser_list[i] # new[t]
  BY <1>1, <1>2 DEF NewOK, Adding
<1>5. Queued' = Queued
  BY <1>2 DEF Queued
<1>6. \A u \in Threads : /\ pc'[u] \in Adding => pc[u] \in Adding /\ u # t
                         /\ pc[u] \in Adding \cup {"enable"}
                               => pc'[u] \in Adding \cup {"enable"}
                         /\ pc'[u] \in Scanning \cup {"sweep", "execute", "relock"}
                               => pc'[u] = pc[u]
                         /\ pc[u] \in Scanning \cup {"sweep"} => pc'[u] = pc[u]
  BY <1>2, <1>3 DEF Moved, Adding, Elsewhere, Scanning
<1>7. /\ n \in Nat /\ Len(has_finaliser_list') = n + 1
      /\ DOMAIN has_finaliser_list = 1..n /\ DOMAIN has_finaliser_list' = 1..n + 1
      /\ has_finaliser_list'[n + 1] = new[t]
      /\ \A i \in 1..n : has_finaliser_list'[i] = has_finaliser_list[i]
      /\ has_finaliser_list' \in Seq(Objects)
  BY <1>1, <1>2, <1>4 DEF ListOK
<1> HIDE DEF n
<1>8. \A i \in 1..n + 1 : i = n + 1 \/ i \in 1..n
  BY <1>7
<1>9. RingOK(run_finaliser)'
  BY <1>2 DEF FInv, RingOK
<1>10. HoldersOK'
  BY <1>1, <1>2, <1>3, HoldersKept DEF Collecting, Stopped, Scanning, HoldersOK
<1>11. NewOK'
  <2>1. ASSUME NEW u \in Threads, pc'[u] \in Adding, NEW i \in 1..n + 1
        PROVE  new[u] # Nil /\ has_finaliser_list'[i] # new[u]
    BY <1>1, <1>4, <1>6, <1>7, <1>8, <2>1 DEF NewOK
  <2>2. \A u \in Threads : pc'[u] \in Adding => new[u] # Nil
    BY <1>1, <1>6 DEF NewOK
  <2> QED
    BY <1>1, <1>2, <1>5, <1>6, <1>7, <2>1, <2>2 DEF NewOK
<1>12. RunningOK'
  BY <1>1, <1>2, <1>6 DEF RunningOK
<1>13. ListOK'
  <2>1. \A i \in 1..n + 1 :
           has_finaliser_list'[i] \in allocated /\ ran[has_finaliser_list'[i]] = 0
    BY <1>1, <1>4, <1>7, <1>8 DEF ListOK
  <2>2. ASSUME NEW i \in 1..n + 1, NEW j \in 1..n + 1,
               has_finaliser_list'[i] = has_finaliser_list'[j]
        PROVE  i = j
    BY <1>1, <1>4, <1>7, <1>8, <2>2 DEF ListOK
  <2> QED
    BY <1>2, <1>7, <2>1, <2>2 DEF ListOK
<1>14. ASSUME ScanOK PROVE ScanOK'
  <2>0. scanned \in Nat /\ Len(kept) \in Nat /\ scanned <= n /\ kept \in Seq(Objects)
    BY <1>1, <1>14 DEF ListsOK, ScanOK, n
  <2>1. \A i \in 1..scanned : has_finaliser_list'[i] = has_finaliser_list[i]
    BY <1>7, <2>0
  <2>2. scanned <= Len(has_finaliser_list')
    BY <1>7, <2>0
  <2>3. \A i \in 1..n + 1 : i > scanned => has_finaliser_list'[i] \notin Queued
    BY <1>4, <1>7, <1>8, <1>14 DEF ScanOK, n
  <2>4. ASSUME NEW i \in 1..Len(kept)
        PROVE  /\ kept[i] \notin Queued /\ kept[i] \in marked
               /\ \E j \in 1..scanned : kept[i] = has_finaliser_list'[j]
               /\ \A j \in 1..Len(kept) : kept[i] = kept[j] => i = j
    BY <1>14, <2>1 DEF ScanOK
  <2>5. Len(kept) = scanned =>
           \A i \in 1..scanned : has_finaliser_list'[i] \notin Queued
                                   /\ has_finaliser_list'[i] \in marked
    BY <1>14, <2>1 DEF ScanOK
  <2>6. Len(kept) <= scanned
    BY <1>14 DEF ScanOK
  <2> QED
    BY <1>2, <1>5, <1>7, <2>2, <2>3, <2>4, <2>5, <2>6 DEF ScanOK
<1>15. ASSUME NEW u \in Threads, pc[u] = "sweep", NEW i \in 1..n + 1
       PROVE  has_finaliser_list'[i] \notin Queued /\ has_finaliser_list'[i] \in marked
  <2>1. world = u /\ world # Nil
    BY <1>1, <1>15, FinalizerAssumption DEF HoldersOK, Stopped
  <2>2. new[t] \in marked
    BY <1>1, <1>4, <2>1 DEF MarksOK
  <2> QED
    BY <1>1, <1>4, <1>7, <1>8, <1>15, <2>2 DEF ListsOK, n
<1>16. ListsOK'
  <2>1. (\A u \in Threads : pc'[u] # "sweep") => ScanOK'
    BY <1>1, <1>6, <1>14 DEF ListsOK
  <2>2. (\A u \in Threads : pc'[u] \notin Scanning \cup {"sweep"})
           => kept' = << >> /\ scanned' = 0
    BY <1>1, <1>2, <1>6 DEF ListsOK
  <2>3. \A u \in Threads : pc'[u] = "sweep" =>
           \A i \in 1..Len(has_finaliser_list') :
              has_finaliser_list'[i] \notin Queued' /\ has_finaliser_list'[i] \in marked'
    BY <1>2, <1>5, <1>6, <1>7, <1>15
  <2> QED
    BY <1>1, <1>2, <2>1, <2>2, <2>3 DEF ListsOK
<1>17. MarksOK'
  BY <1>1, <1>2, <1>5, <1>6 DEF MarksOK
<1> QED
  BY <1>9, <1>10, <1>11, <1>12, <1>13, <1>16, <1>17 DEF FInv

(* The program gets and loses references, while nobody is collecting.      *)
LEMMA ReachKeeps ==
    ASSUME FInv, NEW t \in Threads, resurrect(t) \/ \E o \in Objects : drop(t, o)
    PROVE  FInv'
<1>1. HoldersOK /\ NewOK /\ RunningOK /\ ListOK /\ ListsOK /\ MarksOK /\ RingOK(run_finaliser)
  BY DEF FInv
<1>2. /\ pc[t] = "java" /\ MayRun(t)
      /\ UNCHANGED <<locks, world, allocated, ran, has_finaliser_list, run_finaliser,
                     runningFinalizers, marked, kept, scanned, pc, new, ob>>
  BY DEF resurrect, drop, Java, lists, marks
<1>3. UNCHANGED <<heap_lock, has_fnlzr_lock, run_fnlzr_lock>>
  BY <1>2 DEF locks
<1>4. world = Nil
  BY <1>1, <1>2, NobodyCollects DEF Stopped
<1>5. Queued' = Queued
  BY <1>2 DEF Queued
<1>6. reach' \subseteq allocated
  <2>1. CASE \E o \in Objects : drop(t, o)
    BY <1>1, <2>1 DEF drop, MarksOK
  <2>2. CASE resurrect(t)
    <3>1. ob[t] \in Queued
      BY <1>1, <2>2 DEF resurrect, RunningOK, Queued
    <3> QED
      BY <1>1, <2>2, <3>1 DEF resurrect, MarksOK
  <2> QED
    BY <2>1, <2>2
<1>7. HoldersOK' /\ RingOK(run_finaliser)' /\ RunningOK' /\ ListOK'
  <2>1. HoldersOK'
    BY <1>1, <1>2, <1>3 DEF HoldersOK, PCTypeOK
  <2>2. RingOK(run_finaliser)'
    BY <1>1, <1>2 DEF RingOK
  <2>3. RunningOK'
    BY <1>1, <1>2 DEF RunningOK
  <2>4. ListOK'
    BY <1>1, <1>2 DEF ListOK
  <2> QED
    BY <2>1, <2>2, <2>3, <2>4
<1>8. NewOK'
  BY <1>1, <1>2, <1>5 DEF NewOK
<1>9. ScanOK' = ScanOK
  BY <1>2, <1>5 DEF ScanOK
<1>10. ListsOK'
  BY <1>1, <1>2, <1>5, <1>9 DEF ListsOK
<1>11. MarksOK'
  BY <1>1, <1>2, <1>4, <1>5, <1>6 DEF MarksOK
<1> QED
  BY <1>7, <1>8, <1>10, <1>11 DEF FInv

LEMMA EnableKeeps ==
    ASSUME FInv, NEW t \in Threads, enableSuspend(t)
    PROVE  FInv'
<1>1. HoldersOK /\ NewOK /\ PCTypeOK /\ RunningOK /\ ListOK /\ ListsOK /\ MarksOK
  BY DEF FInv, HoldersOK
<1>2. /\ pc[t] = "enable" /\ MayRun(t) /\ Goto(t, "java")
      /\ reach' = reach \cup ({new[t]} \ {Nil}) /\ new' = [new EXCEPT ![t] = Nil]
      /\ UNCHANGED <<heap_lock, has_fnlzr_lock, run_fnlzr_lock, world, allocated, ran,
                     has_finaliser_list, run_finaliser, runningFinalizers, marked, kept,
                     scanned, ob>>
  BY DEF enableSuspend, locks, lists, marks
<1>3. Moved(t, "java") /\ "java" \in Labels
  BY <1>1, <1>2, GotoMoves DEF Labels
<1>4. world = Nil
  BY <1>1, <1>2, NobodyCollects DEF Stopped
<1>5. Queued' = Queued
  BY <1>2 DEF Queued
<1>6. \A u \in Threads : /\ pc'[u] \in Adding => pc[u] \in Adding /\ u # t
                         /\ u # t /\ pc[u] \in Adding \cup {"enable"}
                               => pc'[u] \in Adding \cup {"enable"}
                         /\ pc'[u] \in Scanning \cup {"sweep", "execute", "relock"}
                               => pc'[u] = pc[u]
                         /\ pc[u] \in Scanning \cup {"sweep"} => pc'[u] = pc[u]
  BY <1>2, <1>3 DEF Moved, Adding, Elsewhere, Scanning
<1>7. /\ new' \in [Threads -> Objects \cup {Nil}] /\ new'[t] = Nil
      /\ \A u \in Threads \ {t} : new'[u] = new[u]
  BY <1>1, <1>2 DEF NewOK
<1>8. RingOK(run_finaliser)'
  BY <1>2 DEF FInv, RingOK
<1>9. HoldersOK'
  BY <1>1, <1>2, <1>3, HoldersKept DEF Collecting, Stopped, Scanning, HoldersOK
<1>10. NewOK'
  <2>1. ASSUME NEW u \in Threads, new'[u] # Nil
        PROVE  /\ pc'[u] \in Adding \cup {"enable"} /\ new'[u] = new[u] /\ u # t
               /\ new[u] \in allocated /\ new[u] \notin Queued /\ ran[new[u]] = 0
               /\ \A v \in Threads : new'[v] = new[u] => v = u
    BY <1>1, <1>6, <1>7, <2>1 DEF NewOK
  <2>2. ASSUME NEW u \in Threads, pc'[u] \in Adding
        PROVE  new'[u] # Nil /\ \A i \in DOMAIN has_finaliser_list : has_finaliser_list[i] # new'[u]
    BY <1>1, <1>6, <1>7, <2>2 DEF NewOK
  <2> QED
    BY <1>2, <1>5, <1>7, <2>1, <2>2 DEF NewOK
<1>11. RunningOK'
  BY <1>1, <1>2, <1>6 DEF RunningOK
<1>12. ListOK'
  BY <1>1, <1>2 DEF ListOK
<1>13. ScanOK' = ScanOK
  BY <1>2, <1>5 DEF ScanOK
<1>14. ListsOK'
  BY <1>1, <1>2, <1>5, <1>6, <1>13 DEF ListsOK
<1>15. MarksOK'
  BY <1>1, <1>2, <1>4, <1>5, <1>6 DEF MarksOK, NewOK
<1> QED
  BY <1>8, <1>9, <1>10, <1>11, <1>12, <1>14, <1>15 DEF FInv

-----------------------------------------------------------------------------
(* The collection.                                                         *)
LEMMA RootsKeep ==
    ASSUME FInv, NEW t \in Threads, gc0(t)
    PROVE  FInv'
<1>1. HoldersOK /\ NewOK /\ PCTypeOK /\ RunningOK /\ ListOK /\ ListsOK /\ MarksOK
  BY DEF FInv, HoldersOK
<1>2. /\ pc[t] = "gc" /\ Goto(t, "grab_has") /\ world' = t
      /\ marked' = (reach \cup {new[u] : u \in Threads}) \cup {ob[u] : u \in Threads}
      /\ UNCHANGED <<heap_lock, has_fnlzr_lock, run_fnlzr_lock, allocated, reach, ran,
                     has_finaliser_list, run_finaliser, runningFinalizers, kept,
                     scanned, new, ob>>
  BY DEF gc0, locks, heap, lists
<1>3. Moved(t, "grab_has") /\ "grab_has" \in Labels
  BY <1>1, <1>2, GotoMoves DEF Labels
<1>4. \A u \in Threads : pc[u] \in Collecting => u = t
  BY <1>1, <1>2, OneCollector DEF Collecting
<1>5. \A u \in Threads : pc[u] \notin Stopped
  BY <1>2, <1>4 DEF Collecting, Stopped
<1>6. Queued' = Queued
  BY <1>2 DEF Queued
<1>7. \A u \in Threads : /\ pc'[u] \in Adding => pc[u] \in Adding
                         /\ pc[u] \in Adding \cup {"enable"}
                               => pc'[u] \in Adding \cup {"enable"}
                         /\ pc'[u] \in {"execute", "relock"} => pc'[u] = pc[u]
                         /\ pc'[u] \notin Scanning \cup {"sweep"}
                         /\ pc[u] \notin Scanning \cup {"sweep"}
                         /\ pc'[u] \in Collecting => u = t
                         /\ pc'[u] \in Stopped <=> u = t
  BY <1>2, <1>3, <1>4, <1>5 DEF Moved, Adding, Elsewhere, Scanning, Stopped, Collecting
<1>8. RingOK(run_finaliser)'
  BY <1>2 DEF FInv, RingOK
<1>9. HoldersOK'
  BY <1>1, <1>2, <1>3, <1>4, <1>7 DEF HoldersOK, PCTypeOK, Moved, Collecting, Scanning
<1>10. NewOK'
  BY <1>1, <1>2, <1>6, <1>7 DEF NewOK
<1>11. RunningOK'
  BY <1>1, <1>2, <1>7 DEF RunningOK
<1>12. ListOK'
  BY <1>1, <1>2 DEF ListOK
<1>13. kept = << >> /\ scanned = 0 /\ ScanOK
  BY <1>1, <1>7 DEF ListsOK, Scanning
<1>14. ScanOK'
  BY <1>2, <1>6, <1>13 DEF ScanOK
<1>15. ListsOK'
  BY <1>1, <1>2, <1>7, <1>13, <1>14 DEF ListsOK
<1>16. MarksOK'
  BY <1>1, <1>2, <1>6, <1>7 DEF MarksOK, NewOK, RunningOK
<1> QED
  BY <1>8, <1>9, <1>10, <1>11, <1>12, <1>15, <1>16 DEF FInv

LEMMA LockRunKeeps ==
    ASSUME FInv, NEW t \in Threads, lockRun(t)
    PROVE  FInv'
<1>1. HoldersOK /\ NewOK /\ PCTypeOK /\ RunningOK /\ ListOK /\ ListsOK /\ MarksOK
  BY DEF FInv, HoldersOK
<1>2. /\ pc[t] = "lock_run" /\ Goto(t, "scan")
      /\ run_fnlzr_lock = Nil /\ run_fnlzr_lock' = t /\ marked' = marked \cup Queued
      /\ UNCHANGED <<heap_lock, has_fnlzr_lock, world, allocated, reach, ran,
                     has_finaliser_list, run_finaliser, runningFinalizers, kept,
                     scanned, new, ob>>
  BY DEF lockRun, heap, lists
<1>3. Moved(t, "scan") /\ "scan" \in Labels
  BY <1>1, <1>2, GotoMoves DEF Labels
<1>4. \A u \in Threads : pc[u] \notin Scanning
  BY <1>1, <1>2, FinalizerAssumption DEF HoldersOK
<1>5. \A u \in Threads : pc[u] # "sweep"
  BY <1>1, <1>2, OneCollector DEF Collecting, Stopped
<1>6. Queued' = Queued
  BY <1>2 DEF Queued
<1>7. \A u \in Threads : /\ pc'[u] \in Adding => pc[u] \in Adding
                         /\ pc[u] \in Adding \cup {"enable"}
                               => pc'[u] \in Adding \cup {"enable"}
                         /\ pc'[u] \in {"execute", "relock"} => pc'[u] = pc[u]
                         /\ pc'[u] # "sweep"
                         /\ pc'[u] \in Scanning <=> u = t
                         /\ pc'[u] \in Collecting <=> pc[u] \in Collecting
                         /\ pc'[u] \in Stopped <=> pc[u] \in Stopped
  BY <1>2, <1>3, <1>4, <1>5 DEF Moved, Adding, Elsewhere, Scanning, Stopped, Collecting
<1>8. RingOK(run_finaliser)'
  BY <1>2 DEF FInv, RingOK
<1>9. HoldersOK'
  BY <1>1, <1>2, <1>3, <1>7 DEF HoldersOK, PCTypeOK, Moved
<1>10. NewOK'
  BY <1>1, <1>2, <1>6, <1>7 DEF NewOK
<1>11. RunningOK'
  BY <1>1, <1>2, <1>7 DEF RunningOK
<1>12. ListOK'
  BY <1>1, <1>2 DEF ListOK
<1>13. kept = << >> /\ scanned = 0 /\ ScanOK
  BY <1>1, <1>4, <1>5 DEF ListsOK
<1>14. ScanOK'
  BY <1>2, <1>6, <1>13 DEF ScanOK
<1>15. ListsOK'
  BY <1>1, <1>2, <1>7, <1>13, <1>14 DEF ListsOK
<1>16. MarksOK'
  BY <1>1, <1>2, <1>6, <1>7 DEF MarksOK
<1> QED
  BY <1>8, <1>9, <1>10, <1>11, <1>12, <1>15, <1>16 DEF FInv

(* The loop of doMark: an entry that is kept,                              *)
KeepsEntry(t) ==
    LET o == has_finaliser_list[scanned + 1] IN
    /\ pc[t] = "scan" /\ scanned < Len(has_finaliser_list) /\ o \in marked
    /\ kept' = Append(kept, o) /\ scanned' = scanned + 1
    /\ UNCHANGED <<locks, world, heap, lists, marked, pc, new, ob>>

LEMMA KeptKeeps ==
    ASSUME FInv, NEW t \in Threads, KeepsEntry(t)
    PROVE  FInv'
<1> DEFINE o == has_finaliser_list[scanned + 1]
           k == Len(kept)
           n == Len(has_finaliser_list)
<1>1. HoldersOK /\ NewOK /\ PCTypeOK /\ RunningOK /\ ListOK /\ ListsOK /\ MarksOK
  BY DEF FInv, HoldersOK
<1>2. /\ pc[t] = "scan" /\ scanned < n /\ o \in marked
      /\ kept' = Append(kept, o) /\ scanned' = scanned + 1
      /\ UNCHANGED <<heap_lock, has_fnlzr_lock, run_fnlzr_lock, world, allocated, reach,
                     ran, has_finaliser_list, run_finaliser, runningFinalizers, marked,
                     pc, new, ob>>
  BY DEF KeepsEntry, locks, heap, lists
<1>3. \A u \in Threads : pc[u] # "sweep"
  BY <1>1, <1>2, OneCollector DEF Collecting, Stopped
<1>4. ScanOK /\ scanned \in Nat /\ kept \in Seq(Objects) /\ has_finaliser_list \in Seq(Objects)
  BY <1>1, <1>3 DEF ListsOK, ListOK
<1>5. k \in Nat /\ n \in Nat /\ scanned + 1 \in 1..n /\ DOMAIN has_finaliser_list = 1..n
      /\ o \in Objects
  BY <1>2, <1>4
<1>6. Queued' = Queued
  BY <1>2 DEF Queued
<1>7. o \notin Queued
  BY <1>4, <1>5 DEF ScanOK
<1>8. /\ kept' \in Seq(Objects) /\ Len(kept') = k + 1 /\ kept'[k + 1] = o
      /\ \A i \in 1..k : kept'[i] = kept[i]
  BY <1>2, <1>4, <1>5
<1>9. ScanOK'
  <2> HIDE DEF o, k, n
  <2>1. k <= scanned
    BY <1>4 DEF ScanOK, k
  <2>2. Len(kept') <= scanned' /\ scanned' <= n
    BY <1>2, <1>4, <1>5, <1>8, <2>1
  <2>3. \A i \in 1..k + 1 : i = k + 1 \/ i \in 1..k
    BY <1>5
  <2>4. ASSUME NEW i \in 1..k
        PROVE  /\ kept[i] \notin Queued /\ kept[i] \in marked /\ kept[i] # o
               /\ \E j \in 1..scanned : kept[i] = has_finaliser_list[j]
               /\ \A j \in 1..k : kept[i] = kept[j] => i = j
    <3>1. PICK j \in 1..scanned : kept[i] = has_finaliser_list[j]
      BY <1>4 DEF ScanOK, k
    <3>2. j \in 1..n /\ j # scanned + 1
      BY <1>2, <1>4, <1>5
    <3>3. has_finaliser_list[j] # o
      BY <1>1, <1>5, <3>2 DEF ListOK, o
    <3> QED
      BY <1>4, <3>1, <3>3 DEF ScanOK, k
  <2>5. ASSUME NEW i \in 1..k + 1
        PROVE  /\ kept'[i] \notin Queued /\ kept'[i] \in marked
               /\ \E j \in 1..scanned + 1 : kept'[i] = has_finaliser_list[j]
               /\ \A j \in 1..k + 1 : kept'[i] = kept'[j] => i = j
    <3>1. scanned + 1 \in 1..scanned + 1 /\ \A j \in 1..scanned : j \in 1..scanned + 1
      BY <1>4
    <3>2. CASE i = k + 1
      BY <1>2, <1>7, <1>8, <2>3, <2>4, <3>1, <3>2 DEF o
    <3>3. CASE i \in 1..k
      BY <1>8, <2>3, <2>4, <3>1, <3>3
    <3> QED
      BY <2>3, <3>2, <3>3
  <2>6. \A i \in 1..n : i > scanned' => has_finaliser_list[i] \notin Queued
    BY <1>2, <1>4, <1>5 DEF ScanOK, n
  <2>7. Len(kept') = scanned' =>
           \A i \in 1..scanned' : has_finaliser_list[i] \notin Queued
                                     /\ has_finaliser_list[i] \in marked
    <3>1. \A i \in 1..scanned + 1 : i = scanned + 1 \/ i \in 1..scanned
      BY <1>4
    <3>2. Len(kept') = scanned' => k = scanned
      BY <1>2, <1>4, <1>5, <1>8
    <3> QED
      BY <1>2, <1>4, <1>7, <3>1, <3>2 DEF ScanOK, k, o
  <2> QED
    BY <1>2, <1>6, <1>8, <2>2, <2>5, <2>6, <2>7 DEF ScanOK, n
<1> HIDE DEF o, k, n
<1>10. RingOK(run_finaliser)' /\ RunningOK'
  BY <1>1, <1>2 DEF FInv, RingOK, RunningOK
<1>11. HoldersOK' /\ ListOK'
  BY <1>1, <1>2 DEF HoldersOK, PCTypeOK, ListOK
<1>12. NewOK' /\ MarksOK'
  BY <1>1, <1>2, <1>6 DEF NewOK, MarksOK
<1>13. ListsOK'
  BY <1>1, <1>2, <1>3, <1>4, <1>8, <1>9 DEF ListsOK, Scanning
<1> QED
  BY <1>10, <1>11, <1>12, <1>13 DEF FInv

(* and one that goes to the ring, which has room for it.                   *)
QueuesEntry(t) ==
    LET o == has_finaliser_list[scanned + 1] IN
    /\ pc[t] = "scan" /\ scanned < Len(has_finaliser_list) /\ o \notin marked
    /\ marked' = marked \cup {o} /\ run_finaliser' = Append1(run_finaliser, o)
    /\ scanned' = scanned + 1
    /\ UNCHANGED <<locks, world, heap, has_finaliser_list, runningFinalizers, kept,
                   pc, new, ob>>

LEMMA QueuedKeeps ==
    ASSUME FInv, ~RingIsFull, NEW t \in Threads, QueuesEntry(t)
    PROVE  FInv'
<1> DEFINE o == has_finaliser_list[scanned + 1]
           n == Len(has_finaliser_list)
           r == run_finaliser
           g == run_finaliser'
<1>1. HoldersOK /\ NewOK /\ PCTypeOK /\ RunningOK /\ ListOK /\ ListsOK /\ MarksOK
      /\ RingOK(r) /\ ~Full(r)
  BY DEF FInv, HoldersOK, RingIsFull
<1>2. /\ pc[t] = "scan" /\ scanned < n /\ o \notin marked
      /\ marked' = marked \cup {o} /\ g = Append1(r, o)
      /\ scanned' = scanned + 1
      /\ UNCHANGED <<heap_lock, has_fnlzr_lock, run_fnlzr_lock, world, allocated, reach,
                     ran, has_finaliser_list, runningFinalizers, kept, pc, new, ob>>
  BY DEF QueuesEntry, locks, heap
<1>3. \A u \in Threads : pc[u] # "sweep"
  BY <1>1, <1>2, OneCollector DEF Collecting, Stopped
<1>4. ScanOK /\ scanned \in Nat /\ kept \in Seq(Objects) /\ has_finaliser_list \in Seq(Objects)
  BY <1>1, <1>3 DEF ListsOK, ListOK
<1>5. n \in Nat /\ scanned + 1 \in 1..n /\ DOMAIN has_finaliser_list = 1..n /\ o \in Objects
  BY <1>2, <1>4
<1>6. o \notin Queued /\ o \in allocated /\ ran[o] = 0
  BY <1>1, <1>4, <1>5 DEF ScanOK, ListOK
<1>7. world = t /\ world # Nil
  BY <1>1, <1>2, FinalizerAssumption DEF HoldersOK, Stopped
<1>8. \A u \in Threads : new[u] # o
  BY <1>1, <1>2, <1>5, <1>7, FinalizerAssumption DEF MarksOK
<1> HIDE DEF o, n
<1>9. RingOK(g) /\ Appended(r, g, o)
  BY <1>1, <1>2, <1>5, <1>6, RingAppend DEF Queued, Entries
<1>10. PICK e : /\ e \notin Indices(r) /\ Indices(g) = Indices(r) \cup {e}
                /\ g.list[e] = o /\ \A i \in Indices(r) : g.list[i] = r.list[i]
                /\ Indices(r) # {} => g.start = r.start
  BY <1>9 DEF Appended
<1>11. Queued' = Queued \cup {o}
  <2>1. Queued' = {g.list[i] : i \in Indices(g)} /\ Queued = {r.list[i] : i \in Indices(r)}
    BY DEF Queued
  <2> HIDE DEF g, r
  <2>2. \A x : x \in {g.list[i] : i \in Indices(g)}
                  <=> x \in {r.list[i] : i \in Indices(r)} \cup {o}
    BY <1>10
  <2> QED
    BY <2>1, <2>2
<1>12. RingOK(run_finaliser)'
  BY <1>9
<1>13. HoldersOK' /\ ListOK'
  BY <1>1, <1>2 DEF HoldersOK, PCTypeOK, ListOK
<1>14. NewOK'
  BY <1>1, <1>2, <1>8, <1>11 DEF NewOK
<1>15. RunningOK'
  <2>1. ASSUME NEW u \in Threads, ob[u] # Nil
        PROVE  g.start \in Indices(g) /\ ob[u] = g.list[g.start]
    BY <1>1, <1>10, <2>1 DEF RunningOK
  <2>2. ASSUME NEW i \in Indices(g), runningFinalizers = Nil \/ i # g.start
        PROVE  ran[g.list[i]] = 0
    <3>1. CASE i = e
      BY <1>6, <1>10, <3>1
    <3>2. CASE i \in Indices(r)
      <4>1. g.start = r.start /\ g.list[i] = r.list[i]
        BY <1>10, <3>2
      <4> QED
        BY <1>1, <2>2, <3>2, <4>1 DEF RunningOK
    <3> QED
      BY <1>10, <3>1, <3>2
  <2>3. /\ ob \in [Threads -> Objects \cup {Nil}]
        /\ ran \in [Objects -> Nat] /\ \A p \in Objects : ran[p] <= 1
        /\ \A u \in Threads : /\ ob[u] # Nil <=> runningFinalizers = u
                              /\ pc[u] \in {"execute", "relock"} => ob[u] # Nil
                              /\ pc[u] = "execute" => ran[ob[u]] = 0
    BY <1>1 DEF RunningOK
  <2> QED
    BY <1>2, <2>1, <2>2, <2>3 DEF RunningOK
<1>16. ScanOK'
  <2>1. Len(kept) \in Nat /\ Len(kept) <= scanned
    BY <1>4 DEF ScanOK
  <2>2. scanned' <= n /\ Len(kept) < scanned'
    BY <1>2, <1>4, <1>5, <2>1
  <2>3. ASSUME NEW i \in 1..Len(kept)
        PROVE  /\ kept[i] \notin Queued \cup {o} /\ kept[i] \in marked'
               /\ \E j \in 1..scanned + 1 : kept[i] = has_finaliser_list[j]
               /\ \A j \in 1..Len(kept) : kept[i] = kept[j] => i = j
    <3>1. \A j \in 1..scanned : j \in 1..scanned + 1
      BY <1>4
    <3> QED
      BY <1>2, <1>4, <3>1 DEF ScanOK
  <2>4. ASSUME NEW i \in 1..n, i > scanned'
        PROVE  has_finaliser_list[i] \notin Queued \cup {o}
    <3>1. i # scanned + 1 /\ i > scanned
      BY <1>2, <1>4, <2>4
    <3>2. has_finaliser_list[i] # o
      BY <1>1, <1>5, <3>1 DEF ListOK, o
    <3> QED
      BY <1>4, <3>1, <3>2 DEF ScanOK, n
  <2>5. Len(kept) <= scanned' /\ Len(kept) # scanned'
    BY <1>2, <1>4, <2>1
  <2> QED
    BY <1>2, <1>11, <2>2, <2>3, <2>4, <2>5 DEF ScanOK, n
<1>17. ListsOK'
  BY <1>1, <1>2, <1>3, <1>4, <1>16 DEF ListsOK, Scanning
<1>18. MarksOK'
  BY <1>1, <1>2, <1>5, <1>6, <1>11 DEF MarksOK
<1> QED
  BY <1>12, <1>13, <1>14, <1>15, <1>17, <1>18 DEF FInv

LEMMA MarkKeeps ==
    ASSUME FInv, ~RingIsFull, NEW t \in Threads, doMark(t)
    PROVE  FInv'
<1> DEFINE o == has_finaliser_list[scanned + 1]
<1>1. HoldersOK /\ NewOK /\ PCTypeOK
  BY DEF FInv, HoldersOK
<1>2. pc[t] = "scan" /\ UNCHANGED <<locks, world, heap, has_finaliser_list, runningFinalizers,
                                    new, ob>>
  BY DEF doMark
<1>3. CASE Goto(t, "set_count") /\ UNCHANGED <<marks, run_finaliser>>
  <2>1. Moved(t, "set_count") /\ "set_count" \in Labels
    BY <1>1, <1>3, GotoMoves DEF Labels
  <2>2. QuietMove(t, "set_count")
    BY <1>1, <1>2, <2>1 DEF QuietMove, Scanning, Adding, NewOK
  <2>3. HoldersOK'
    BY <1>1, <1>2, <2>1, HoldersKept
       DEF Collecting, Stopped, Scanning, locks, HoldersOK
  <2> QED
    BY <1>2, <1>3, <2>1, <2>2, <2>3, QuietStep DEF lists
<1>4. CASE KeepsEntry(t)
  BY <1>4, KeptKeeps
<1>5. CASE QueuesEntry(t)
  BY <1>5, QueuedKeeps
<1> QED
  BY <1>3, <1>4, <1>5 DEF doMark, KeepsEntry, QueuesEntry, lists

LEMMA SetCountKeeps ==
    ASSUME FInv, NEW t \in Threads, setCount(t)
    PROVE  FInv'
<1>1. HoldersOK /\ NewOK /\ PCTypeOK /\ RunningOK /\ ListOK /\ ListsOK /\ MarksOK
  BY DEF FInv, HoldersOK
<1>2. /\ pc[t] = "set_count" /\ run_fnlzr_lock' = Nil
      /\ UNCHANGED <<heap_lock, has_fnlzr_lock, world, allocated, reach,
                     ran, run_finaliser, runningFinalizers, marked, kept, scanned,
                     new, ob>>
  BY DEF setCount, heap, marks
<1>3. Moved(t, "sweep") /\ "sweep" \in Labels
  BY <1>1, GotoMoves, NotifyMoves DEF Labels, setCount
<1>4. \A u \in Threads : pc[u] \in Collecting => u = t
  BY <1>1, <1>2, OneCollector DEF Collecting, Stopped
<1>5. Queued' = Queued
  BY <1>2 DEF Queued
<1>6. \A u \in Threads : /\ pc'[u] \in Adding => pc[u] \in Adding
                         /\ pc[u] \in Adding \cup {"enable"}
                               => pc'[u] \in Adding \cup {"enable"}
                         /\ pc'[u] \in {"execute", "relock"} => pc'[u] = pc[u]
                         /\ pc'[u] \notin Scanning
                         /\ pc'[u] = "sweep" <=> u = t
                         /\ pc'[u] \in Collecting <=> pc[u] \in Collecting
                         /\ pc'[u] \in Stopped <=> pc[u] \in Stopped
  BY <1>2, <1>3, <1>4 DEF Moved, Adding, Elsewhere, Scanning, Stopped, Collecting
<1>7. ScanOK /\ kept \in Seq(Objects) /\ scanned \in Nat /\ has_finaliser_list \in Seq(Objects)
  BY <1>1, <1>2, <1>4 DEF ListsOK, ListOK, Collecting, Stopped
<1>8. /\ has_finaliser_list' \in Seq(Objects)
      /\ \A i \in 1..Len(has_finaliser_list') :
            /\ has_finaliser_list'[i] \notin Queued /\ has_finaliser_list'[i] \in marked
            /\ \E j \in 1..Len(has_finaliser_list) : has_finaliser_list'[i] = has_finaliser_list[j]
            /\ \A j \in 1..Len(has_finaliser_list') :
                  has_finaliser_list'[i] = has_finaliser_list'[j] => i = j
  <2>1. CASE has_finaliser_list' = kept
    <3>1. \A j \in 1..scanned : j \in 1..Len(has_finaliser_list)
      BY <1>7 DEF ScanOK
    <3> QED
      BY <1>7, <2>1, <3>1 DEF ScanOK
  <2>2. CASE UNCHANGED has_finaliser_list /\ Len(kept) = Len(has_finaliser_list)
    <3>1. Len(kept) = scanned /\ scanned = Len(has_finaliser_list)
      BY <1>7, <2>2 DEF ScanOK
    <3>2. DOMAIN has_finaliser_list = 1..Len(has_finaliser_list)
      BY <1>7
    <3> QED
      BY <1>1, <1>7, <2>2, <3>1, <3>2 DEF ScanOK, ListOK
  <2> QED
    BY <2>1, <2>2 DEF setCount
<1>9. DOMAIN has_finaliser_list' = 1..Len(has_finaliser_list')
      /\ DOMAIN has_finaliser_list = 1..Len(has_finaliser_list)
  BY <1>7, <1>8
<1>10. RingOK(run_finaliser)'
  BY <1>2 DEF FInv, RingOK
<1>11. HoldersOK'
  <2>1. \A u \in Threads : u # Nil
    BY FinalizerAssumption
  <2> QED
    BY <1>1, <1>2, <1>3, <1>6, <2>1 DEF HoldersOK, PCTypeOK, Moved
<1>12. NewOK'
  <2>1. ASSUME NEW u \in Threads, pc'[u] \in Adding
        PROVE  /\ new[u] # Nil
               /\ \A i \in 1..Len(has_finaliser_list') : has_finaliser_list'[i] # new[u]
    BY <1>1, <1>6, <1>8, <1>9, <2>1 DEF NewOK
  <2> QED
    BY <1>1, <1>2, <1>5, <1>6, <1>9, <2>1 DEF NewOK
<1>13. RunningOK'
  BY <1>1, <1>2, <1>6 DEF RunningOK
<1>14. ListOK'
  <2>1. ASSUME NEW i \in 1..Len(has_finaliser_list')
        PROVE  has_finaliser_list'[i] \in allocated /\ ran[has_finaliser_list'[i]] = 0
    BY <1>1, <1>8, <1>9 DEF ListOK
  <2> QED
    BY <1>2, <1>8, <1>9, <2>1 DEF ListOK
<1>15. ListsOK'
  BY <1>2, <1>5, <1>6, <1>7, <1>8 DEF ListsOK
<1>16. MarksOK'
  BY <1>1, <1>2, <1>5, <1>6 DEF MarksOK, Scanning
<1> QED
  BY <1>10, <1>11, <1>12, <1>13, <1>14, <1>15, <1>16 DEF FInv

(* The sweep: all that the lists name is marked.                           *)
LEMMA SweepKeeps ==
    ASSUME FInv, NEW t \in Threads, doSweep(t)
    PROVE  FInv'
<1>1. HoldersOK /\ NewOK /\ PCTypeOK /\ RunningOK /\ ListOK /\ ListsOK /\ MarksOK
  BY DEF FInv, HoldersOK
<1>2. /\ pc[t] = "sweep" /\ world' = Nil /\ heap_lock' = Nil
      /\ allocated' = allocated \cap marked
      /\ marked' = {} /\ kept' = << >> /\ scanned' = 0
      /\ UNCHANGED <<has_fnlzr_lock, run_fnlzr_lock, reach, ran, has_finaliser_list,
                     run_finaliser, runningFinalizers, new, ob>>
  BY DEF doSweep, lists
<1>3. PICK l \in {"enable", "finalizers"} : Goto(t, l)
  BY DEF doSweep
<1>4. Moved(t, l)
  BY <1>1, <1>3, GotoMoves DEF Labels
<1>5. \A u \in Threads : pc[u] \in Collecting => u = t
  BY <1>1, <1>2, OneCollector DEF Collecting, Stopped
<1>6. Queued' = Queued
  BY <1>2 DEF Queued
<1>7. \A u \in Threads : /\ pc'[u] \in Adding => pc[u] \in Adding
                         /\ pc[u] \in Adding \cup {"enable"}
                               => pc'[u] \in Adding \cup {"enable"}
                         /\ pc'[u] \in {"execute", "relock"} => pc'[u] = pc[u]
                         /\ pc'[u] \notin Collecting
                         /\ pc'[u] \notin Stopped
                         /\ pc'[u] \notin Scanning /\ pc'[u] # "sweep" /\ pc[u] \notin Scanning
  BY <1>2, <1>4, <1>5 DEF Moved, Adding, Elsewhere, Scanning, Stopped, Collecting
<1>8. world = t /\ world # Nil
  BY <1>1, <1>2, FinalizerAssumption DEF HoldersOK, Stopped
<1>9. /\ reach \subseteq marked /\ Queued \subseteq marked
      /\ \A u \in Threads : new[u] # Nil => new[u] \in marked
      /\ \A i \in 1..Len(has_finaliser_list) :
            has_finaliser_list[i] \notin Queued /\ has_finaliser_list[i] \in marked
  BY <1>1, <1>2, <1>8 DEF MarksOK, ListsOK
<1>10. has_finaliser_list \in Seq(Objects) /\ Len(has_finaliser_list) \in Nat
       /\ DOMAIN has_finaliser_list = 1..Len(has_finaliser_list)
  BY <1>1 DEF ListOK
<1>11. RingOK(run_finaliser)'
  BY <1>2 DEF FInv, RingOK
<1>12. HoldersOK'
  <2>1. \A u \in Threads : u # Nil /\ run_fnlzr_lock # u
    BY <1>1, <1>7, FinalizerAssumption DEF HoldersOK
  <2> QED
    BY <1>1, <1>2, <1>4, <1>7, <2>1 DEF HoldersOK, PCTypeOK, Moved
<1>13. NewOK'
  BY <1>1, <1>2, <1>6, <1>7, <1>9 DEF NewOK
<1>14. RunningOK'
  BY <1>1, <1>2, <1>7 DEF RunningOK
<1>15. ListOK'
  BY <1>1, <1>2, <1>9, <1>10 DEF ListOK
<1>16. ScanOK'
  BY <1>2, <1>6, <1>9, <1>10 DEF ScanOK
<1>17. ListsOK'
  BY <1>2, <1>7, <1>16 DEF ListsOK
<1>18. MarksOK'
  BY <1>1, <1>2, <1>6, <1>7, <1>9 DEF MarksOK
<1> QED
  BY <1>11, <1>12, <1>13, <1>14, <1>15, <1>17, <1>18 DEF FInv

-----------------------------------------------------------------------------
(* Running the finalizers.                                                 *)
(* What a step on the ring has to show when it leaves the list, the mark   *)
(* bits and the heap alone and puts nothing into the ring.                 *)
LEMMA RingStep ==
    ASSUME FInv, NEW t \in Threads, NEW l \in Labels, Moved(t, l),
           pc[t] \notin Collecting, l \notin Collecting,
           l \in Adding => pc[t] \in Adding, new[t] = Nil,
           UNCHANGED <<locks, world, heap, has_finaliser_list, marks, new>>,
           RingOK(run_finaliser)', RunningOK', Queued' \subseteq Queued,
           runningFinalizers' \in Threads \cup {Nil}
    PROVE  FInv'
<1>1. HoldersOK /\ NewOK /\ PCTypeOK /\ ListOK /\ ListsOK /\ MarksOK
  BY DEF FInv, HoldersOK
<1>2. UNCHANGED <<heap_lock, has_fnlzr_lock, run_fnlzr_lock, world, allocated, reach, ran,
                  has_finaliser_list, marked, kept, scanned, new>>
  BY DEF locks, heap, marks
<1>3. \A u \in Threads : /\ pc'[u] \in Adding => pc[u] \in Adding
                         /\ new[u] # Nil /\ pc[u] \in Adding \cup {"enable"}
                               => pc'[u] \in Adding \cup {"enable"}
                         /\ pc'[u] \in Collecting => pc[u] \in Collecting
                         /\ pc'[u] \in Stopped <=> pc[u] \in Stopped
                         /\ pc'[u] \in Scanning <=> pc[u] \in Scanning
                         /\ pc'[u] = "sweep" <=> pc[u] = "sweep"
  BY DEF Moved, Adding, Elsewhere, Scanning, Stopped, Collecting
<1>4. HoldersOK'
  BY <1>1, <1>2, <1>3 DEF HoldersOK, PCTypeOK, Moved
<1>5. NewOK'
  BY <1>1, <1>2, <1>3 DEF NewOK
<1>6. ListOK'
  BY <1>1, <1>2 DEF ListOK
<1>7. ASSUME ScanOK PROVE ScanOK'
  BY <1>2, <1>7 DEF ScanOK
<1>8. ListsOK'
  BY <1>1, <1>2, <1>3, <1>7 DEF ListsOK
<1>9. MarksOK'
  BY <1>1, <1>2, <1>3 DEF MarksOK
<1> QED
  BY <1>4, <1>5, <1>6, <1>8, <1>9 DEF FInv

(* The first finalizer to run.                                             *)
LEMMA StartKeeps ==
    ASSUME FInv, NEW t \in Threads, runFinalizers(t), Start(t),
           runningFinalizers = Nil, ~NothingToRun
    PROVE  FInv'
<1> DEFINE r == run_finaliser
           g == run_finaliser'
           i == r.start % r.size
<1>1. HoldersOK /\ NewOK /\ PCTypeOK /\ RunningOK /\ RingOK(r)
  BY DEF FInv, HoldersOK
<1>2. /\ pc[t] \in {"finalizers", "woken"} /\ g = [r EXCEPT !.start = i]
      /\ runningFinalizers' = t /\ ob' = [ob EXCEPT ![t] = r.list[i]] /\ Goto(t, "execute")
      /\ UNCHANGED <<locks, world, heap, has_finaliser_list, marks, new, ran>>
  BY DEF runFinalizers, Start, heap
<1>3. Moved(t, "execute") /\ "execute" \in Labels
  BY <1>1, <1>2, GotoMoves DEF Labels
<1>4. RingOK(g) /\ Indices(g) = Indices(r) /\ g.list = r.list /\ g.start = i /\ i \in Indices(g)
  BY <1>1, <1>2, RingStart DEF NothingToRun
<1> HIDE DEF i
<1>5. Queued' = Queued
  BY <1>4 DEF Queued
<1>6. new[t] = Nil
  BY <1>1, <1>2 DEF NewOK, Adding
<1>7. \A u \in Threads : ob[u] = Nil /\ u # Nil
  BY <1>1, FinalizerAssumption DEF RunningOK
<1>8. RunningOK'
  <2>1. r.list[i] \in Objects /\ r.list[i] # Nil /\ ran[r.list[i]] = 0
    BY <1>1, <1>4, FinalizerAssumption DEF RingOK, RunningOK
  <2>2. /\ ob' \in [Threads -> Objects \cup {Nil}] /\ ob'[t] = r.list[i]
        /\ \A u \in Threads \ {t} : ob'[u] = Nil
    BY <1>1, <1>2, <1>7, <2>1 DEF RunningOK
  <2>3. \A u \in Threads \ {t} : pc'[u] \notin {"execute", "relock"}
    BY <1>1, <1>3, <1>7 DEF RunningOK, Moved, Elsewhere
  <2>4. \A j \in Indices(g) : ran[g.list[j]] = 0
    BY <1>1, <1>4 DEF RunningOK
  <2>5. ran' = ran /\ ran \in [Objects -> Nat] /\ \A p \in Objects : ran[p] <= 1
    BY <1>1, <1>2 DEF RunningOK
  <2> HIDE DEF r
  <2>6. \A u \in Threads :
          /\ ob'[u] # Nil <=> runningFinalizers' = u
          /\ ob'[u] # Nil => g.start \in Indices(g) /\ ob'[u] = g.list[g.start]
          /\ pc'[u] \in {"execute", "relock"} => ob'[u] # Nil
          /\ pc'[u] = "execute" => ran[ob'[u]] = 0
    BY <1>2, <1>4, <2>1, <2>2, <2>3
  <2> QED
    BY <2>2, <2>4, <2>5, <2>6 DEF RunningOK
<1>9. RingOK(run_finaliser)'
  BY <1>4
<1> QED
  BY <1>2, <1>3, <1>5, <1>6, <1>8, <1>9, RingStep DEF Collecting, Stopped, Adding

LEMMA RunKeeps ==
    ASSUME FInv, NEW t \in Threads, runFinalizers(t)
    PROVE  FInv'
<1>1. HoldersOK /\ NewOK /\ PCTypeOK /\ RunningOK
  BY DEF FInv, HoldersOK
<1>2. /\ pc[t] \in {"finalizers", "woken"}
      /\ UNCHANGED <<locks, world, heap, has_finaliser_list, marks, new>>
  BY DEF runFinalizers
<1>3. ASSUME NEW l \in {"wait", "out"}, Moved(t, l),
             UNCHANGED <<run_finaliser, runningFinalizers, ob>>
      PROVE  FInv'
  <2>1. l \in Labels
    BY DEF Labels
  <2>2. QuietMove(t, l)
    BY <1>1, <1>2, <1>3 DEF QuietMove, Scanning, Adding, NewOK
  <2>3. HoldersOK'
    BY <1>1, <1>2, <1>3, <2>1, HoldersKept
       DEF Collecting, Stopped, Scanning, locks, HoldersOK
  <2> QED
    BY <1>2, <1>3, <2>1, <2>2, <2>3, QuietStep DEF lists
<1>4. CASE Goto(t, "wait") /\ UNCHANGED <<run_finaliser, runningFinalizers, ob>>
  BY <1>1, <1>3, <1>4, GotoMoves DEF Labels
<1>5. CASE NotifyAndGoto(t, "out") /\ UNCHANGED <<run_finaliser, runningFinalizers, ob>>
  BY <1>1, <1>2, <1>3, <1>5, NotifyMoves DEF Labels
<1>6. CASE runningFinalizers = Nil /\ ~NothingToRun /\ Start(t)
  BY <1>6, StartKeeps
<1> QED
  BY <1>4, <1>5, <1>6 DEF runFinalizers

(* A finalizer runs while nobody collects: it is that of a ring entry,     *)
(* which is neither in has_finaliser_list nor new.                         *)
LEMMA ExecuteKeeps ==
    ASSUME FInv, NEW t \in Threads, executeMethod(t)
    PROVE  FInv'
<1> DEFINE o == ob[t]
           r == run_finaliser
<1>1. HoldersOK /\ NewOK /\ PCTypeOK /\ RunningOK /\ ListOK /\ ListsOK /\ MarksOK /\ RingOK(r)
  BY DEF FInv, HoldersOK
<1>2. /\ pc[t] = "execute" /\ MayRun(t) /\ Goto(t, "java") /\ ran' = [ran EXCEPT ![o] = @ + 1]
      /\ UNCHANGED <<heap_lock, has_fnlzr_lock, run_fnlzr_lock, world, allocated, reach,
                     has_finaliser_list, run_finaliser, runningFinalizers, marked, kept,
                     scanned, new, ob>>
  BY DEF executeMethod, locks, lists, marks
<1>3. Moved(t, "java") /\ "java" \in Labels
  BY <1>1, <1>2, GotoMoves DEF Labels
<1>4. world = Nil /\ \A u \in Threads : pc[u] \notin Stopped
  BY <1>1, <1>2, NobodyCollects DEF Stopped
<1>5. Queued' = Queued
  BY <1>2 DEF Queued
<1>6. /\ o \in Objects /\ o # Nil /\ ran[o] = 0 /\ runningFinalizers = t /\ runningFinalizers # Nil
      /\ r.start \in Indices(r) /\ o = r.list[r.start]
  BY <1>1, <1>2, FinalizerAssumption DEF RunningOK
<1>7. o \in Queued
  BY <1>6 DEF Queued
<1>8. \A u \in Threads : /\ pc'[u] \in Adding <=> pc[u] \in Adding
                         /\ pc[u] \in Adding \cup {"enable"}
                               => pc'[u] \in Adding \cup {"enable"}
                         /\ pc'[u] \in {"execute", "relock"} => pc'[u] = pc[u] /\ u # t
                         /\ pc'[u] \notin Stopped
  BY <1>2, <1>3, <1>4 DEF Moved, Adding, Elsewhere, Stopped
<1>9. \A u \in Threads : /\ pc[u] \notin Scanning \cup {"sweep"}
                         /\ pc'[u] \notin Scanning \cup {"sweep"}
  BY <1>4, <1>8 DEF Stopped, Scanning
<1>10. /\ ran' \in [Objects -> Nat] /\ ran'[o] = 1
       /\ \A p \in Objects : p # o => ran'[p] = ran[p]
  BY <1>1, <1>2, <1>6 DEF RunningOK
<1> HIDE DEF o
<1>11. ScanOK /\ kept = << >> /\ scanned = 0
  BY <1>1, <1>9 DEF ListsOK
<1>12. \A i \in DOMAIN has_finaliser_list :
          has_finaliser_list[i] \in Objects /\ has_finaliser_list[i] # o
  <2>1. has_finaliser_list \in Seq(Objects)
    BY <1>1 DEF ListOK
  <2>2. \A i \in DOMAIN has_finaliser_list :
           i \in 1..Len(has_finaliser_list) /\ i > 0 /\ has_finaliser_list[i] \in Objects
    BY <2>1
  <2> QED
    BY <1>7, <1>11, <2>2 DEF ScanOK
<1>13. RingOK(run_finaliser)'
  BY <1>1, <1>2 DEF RingOK
<1>14. HoldersOK'
  BY <1>1, <1>2, <1>3, HoldersKept DEF Collecting, Stopped, Scanning, HoldersOK
<1>15. NewOK'
  <2>1. \A u \in Threads : new[u] # Nil => new[u] # o /\ new[u] \in Objects
    BY <1>1, <1>7 DEF NewOK
  <2> QED
    BY <1>1, <1>2, <1>5, <1>8, <1>10, <2>1 DEF NewOK
<1>16. RunningOK'
  <2>1. \A p \in Objects : ran'[p] <= 1
    BY <1>1, <1>10 DEF RunningOK
  <2>2. \A u \in Threads : u # t => ob[u] = Nil
    BY <1>1, <1>6 DEF RunningOK
  <2>3. \A u \in Threads : pc'[u] \notin {"execute", "relock"}
    BY <1>1, <1>8, <2>2 DEF RunningOK
  <2>4. \A i \in Indices(r) : i # r.start => ran'[r.list[i]] = 0
    BY <1>1, <1>6, <1>10 DEF RingOK, RunningOK
  <2> QED
    BY <1>1, <1>2, <1>6, <1>10, <2>1, <2>3, <2>4 DEF RunningOK
<1>17. ListOK'
  BY <1>1, <1>2, <1>10, <1>12 DEF ListOK
<1>18. ScanOK' = ScanOK
  BY <1>2, <1>5 DEF ScanOK
<1>19. ListsOK'
  BY <1>1, <1>2, <1>9, <1>11, <1>18 DEF ListsOK
<1>20. MarksOK'
  BY <1>1, <1>2, <1>4, <1>5, <1>9 DEF MarksOK
<1> QED
  BY <1>13, <1>14, <1>15, <1>16, <1>17, <1>19, <1>20 DEF FInv

(* The next one, if there is one.                                          *)
LEMMA NextKeeps ==
    ASSUME FInv, NEW t \in Threads, nextFinalizer(t)
    PROVE  FInv'
<1> DEFINE r == run_finaliser
           g == run_finaliser'
           i == (r.start + 1) % r.size
<1>1. HoldersOK /\ NewOK /\ PCTypeOK /\ RunningOK /\ RingOK(r)
  BY DEF FInv, HoldersOK
<1>2. /\ pc[t] = "relock"
      /\ UNCHANGED <<locks, world, heap, has_finaliser_list, marks, new, ran>>
  BY DEF nextFinalizer, heap
<1>3. /\ runningFinalizers = t /\ r.start \in Indices(r) /\ t # Nil
      /\ \A u \in Threads : u # t => ob[u] = Nil
  BY <1>1, <1>2, FinalizerAssumption DEF RunningOK
<1>4. /\ ob \in [Threads -> Objects \cup {Nil}]
      /\ ran' = ran /\ ran \in [Objects -> Nat] /\ \A p \in Objects : ran[p] <= 1
      /\ \A j \in Indices(r) : j # r.start => ran[r.list[j]] = 0
  BY <1>1, <1>2, <1>3 DEF RunningOK
<1>5. new[t] = Nil
  BY <1>1, <1>2 DEF NewOK, Adding
<1>6. CASE /\ r.start + 1 # r.end /\ g = [r EXCEPT !.start = i]
           /\ ob' = [ob EXCEPT ![t] = r.list[i]] /\ Goto(t, "execute")
           /\ UNCHANGED runningFinalizers
  <2>1. Moved(t, "execute") /\ "execute" \in Labels
    BY <1>1, <1>6, GotoMoves DEF Labels
  <2>2. RingOK(g) /\ Indices(g) = Indices(r) \ {r.start} /\ g.list = r.list /\ g.start = i
        /\ i \in Indices(g)
    BY <1>1, <1>3, <1>6, RingNext
  <2> HIDE DEF i
  <2>3. Queued' \subseteq Queued
    BY <2>2 DEF Queued
  <2>4. r.list[i] \in Objects /\ r.list[i] # Nil /\ ran[r.list[i]] = 0
    BY <1>1, <1>4, <2>2, FinalizerAssumption DEF RingOK
  <2>5. /\ ob' \in [Threads -> Objects \cup {Nil}] /\ ob'[t] = r.list[i]
        /\ \A u \in Threads \ {t} : ob'[u] = Nil
    BY <1>3, <1>4, <1>6, <2>4
  <2>6. \A u \in Threads \ {t} : pc'[u] \notin {"execute", "relock"}
    BY <1>1, <1>3, <2>1 DEF RunningOK, Moved, Elsewhere
  <2>7. \A j \in Indices(g) : ran[g.list[j]] = 0
    BY <1>4, <2>2
  <2>8. pc'[t] = "execute"
    BY <2>1 DEF Moved
  <2>9. RunningOK'
    <3> HIDE DEF r
    <3>1. \A u \in Threads :
            /\ ob'[u] # Nil <=> runningFinalizers' = u
            /\ ob'[u] # Nil => g.start \in Indices(g) /\ ob'[u] = g.list[g.start]
            /\ pc'[u] \in {"execute", "relock"} => ob'[u] # Nil
            /\ pc'[u] = "execute" => ran[ob'[u]] = 0
      BY <1>3, <1>6, <2>2, <2>4, <2>5, <2>6
    <3> QED
      BY <1>4, <2>5, <2>7, <3>1 DEF RunningOK
  <2>10. RingOK(run_finaliser)' /\ runningFinalizers' \in Threads \cup {Nil}
    BY <1>3, <1>6, <2>2
  <2> QED
    BY <1>2, <1>5, <2>1, <2>3, <2>9, <2>10, RingStep DEF Collecting, Stopped, Adding
<1>7. CASE /\ r.start + 1 = r.end /\ g = [r EXCEPT !.start = r.size, !.end = 0]
           /\ runningFinalizers' = Nil /\ ob' = [ob EXCEPT ![t] = Nil]
           /\ NotifyAndGoto(t, "out")
  <2>1. Moved(t, "out") /\ "out" \in Labels
    BY <1>1, <1>2, <1>7, NotifyMoves DEF Labels
  <2>2. RingOK(g) /\ Indices(g) = {}
    BY <1>1, <1>3, <1>7, RingLast
  <2>3. Queued' \subseteq Queued
    BY <2>2 DEF Queued
  <2>4. \A u \in Threads : ob'[u] = Nil /\ u # Nil
    BY <1>3, <1>4, <1>7, FinalizerAssumption
  <2>5. \A u \in Threads : pc'[u] \notin {"execute", "relock"}
    BY <1>1, <1>3, <2>1 DEF RunningOK, Moved, Elsewhere
  <2>6. RunningOK'
    BY <1>4, <1>7, <2>2, <2>4, <2>5 DEF RunningOK
  <2>7. RingOK(run_finaliser)' /\ runningFinalizers' \in Threads \cup {Nil}
    BY <1>7, <2>2
  <2> QED
    BY <1>2, <1>5, <2>1, <2>3, <2>6, <2>7, RingStep DEF Collecting, Stopped, Adding
<1> QED
  BY <1>6, <1>7 DEF nextFinalizer, LastFinalizer

-----------------------------------------------------------------------------
LEMMA InitFInv == Init => FInv
<1> SUFFICES ASSUME Init PROVE FInv
  OBVIOUS
<1>1. LIST_INCREMENT \in Nat \ {0} /\ \A u \in Threads : u # Nil
  BY FinalizerAssumption
<1>2. Indices(run_finaliser) = {}
  BY DEF Init, Indices
<1>3. Queued = {}
  BY <1>2 DEF Queued
<1>4. run_finaliser = [start |-> 0, end |-> 0, size |-> 0, list |-> << >>]
  BY DEF Init
<1>5. RingOK(run_finaliser)
  BY <1>2, <1>4 DEF RingOK
<1>6. pc \in [Threads -> {"java", "daemon"}]
  BY DEF Init
<1>7. HoldersOK
  BY <1>1, <1>6 DEF Init, HoldersOK, PCTypeOK, Labels, Collecting, Stopped, Scanning
<1>8. NewOK
  BY <1>6 DEF Init, NewOK, Adding
<1>9. RunningOK
  BY <1>1, <1>2, <1>6 DEF Init, RunningOK
<1>10. ListOK
  BY DEF Init, ListOK
<1>11. ScanOK
  BY DEF Init, ScanOK
<1>12. ListsOK
  BY <1>6, <1>11 DEF Init, ListsOK
<1>13. MarksOK
  BY <1>3, <1>6 DEF Init, MarksOK, Scanning
<1> QED
  BY <1>5, <1>7, <1>8, <1>9, <1>10, <1>12, <1>13 DEF FInv

LEMMA StutterKeeps ==
    ASSUME FInv, UNCHANGED vars
    PROVE  FInv'
<1>1. UNCHANGED <<heap_lock, has_fnlzr_lock, run_fnlzr_lock, world, allocated, reach, ran,
                  has_finaliser_list, run_finaliser, runningFinalizers, marked, kept,
                  scanned, pc, new, ob>>
  BY DEF vars, locks, heap, lists, marks
<1>2. Queued' = Queued
  BY <1>1 DEF Queued
<1>3. RingOK(run_finaliser)' /\ HoldersOK'
  BY <1>1 DEF FInv, RingOK, HoldersOK, PCTypeOK
<1>4. NewOK' /\ ListOK'
  BY <1>1, <1>2 DEF FInv, NewOK, ListOK
<1>5. RunningOK'
  BY <1>1 DEF FInv, RunningOK
<1>6. ScanOK' = ScanOK
  BY <1>1, <1>2 DEF ScanOK
<1>7. ListsOK' /\ MarksOK'
  BY <1>1, <1>2, <1>6 DEF FInv, ListsOK, MarksOK
<1> QED
  BY <1>3, <1>4, <1>5, <1>7 DEF FInv

(* Every step keeps the invariant, as long as the ring has room.           *)
LEMMA FInvInductive == FInv /\ ~RingIsFull /\ [Next]_vars => FInv'
<1> SUFFICES ASSUME FInv, ~RingIsFull, [Next]_vars PROVE FInv'
  OBVIOUS
<1>1. CASE finalizerThreadLoop
  BY <1>1, LoopKeeps
<1>2. ASSUME NEW t \in Threads, Program(t) PROVE FInv'
  BY <1>2, AllocKeeps, MovesOnly, ReachKeeps DEF Program
<1>3. ASSUME NEW t \in Threads, Step(t) PROVE FInv'
  BY <1>3, MovesOnly, AddKeeps, EnableKeeps, LockHeapKeeps, RootsKeep, LockRunKeeps,
     MarkKeeps, SetCountKeeps, SweepKeeps, RunKeeps, ExecuteKeeps, NextKeeps DEF Step
<1>4. CASE UNCHANGED vars
  BY <1>4, StutterKeeps
<1> QED
  BY <1>1, <1>2, <1>3, <1>4 DEF Next

LEMMA FInvImplies == FInv => FinalizedOnce /\ QueuedAreKept
<1> SUFFICES ASSUME FInv PROVE FinalizedOnce /\ QueuedAreKept
  OBVIOUS
<1>1. FinalizedOnce
  BY DEF FInv, RunningOK, FinalizedOnce
<1>2. Queued \subseteq allocated /\ \A t \in Threads : ob[t] # Nil => ob[t] \in Queued
  BY DEF FInv, MarksOK, RunningOK, Queued
<1>3. TypeOK
  <2>1. Queued \subseteq Objects
    BY <1>2 DEF FInv, MarksOK
  <2>2. {heap_lock, has_fnlzr_lock, run_fnlzr_lock, world, runningFinalizers}
           \subseteq Threads \cup {Nil} /\ pc \in [Threads -> Labels]
    BY DEF FInv, HoldersOK, PCTypeOK
  <2>3. /\ run_finaliser.start \in 0 .. run_finaliser.size
        /\ run_finaliser.end \in 0 .. run_finaliser.size
    BY DEF FInv, RingOK
  <2>4. allocated \subseteq Objects /\ reach \subseteq allocated
        /\ marked \subseteq Objects \cup {Nil}
    BY DEF FInv, MarksOK
  <2>5. ran \in [Objects -> Nat] /\ ob \in [Threads -> Objects \cup {Nil}]
    BY DEF FInv, RunningOK
  <2>6. /\ new \in [Threads -> Objects \cup {Nil}] /\ has_finaliser_list \in Seq(Objects)
        /\ kept \in Seq(Objects) /\ scanned \in Nat
    BY DEF FInv, NewOK, ListOK, ListsOK
  <2> QED
    BY <2>1, <2>2, <2>3, <2>4, <2>5, <2>6 DEF TypeOK
<1> QED
  BY <1>1, <1>2, <1>3 DEF QueuedAreKept

(* alloc.c, doMark: "finalizers are ran only once, even if finalization    *)
(* resurrects the object": for any number of threads and objects, as long  *)
(* as no collection finds the ring full (the README says what happens      *)
(* then).                                                                  *)
THEOREM RunOnceWhileThereIsRoom == Spec /\ []~RingIsFull => []FinalizedOnce
<1>1. FInv => FinalizedOnce
  BY FInvImplies
<1> QED
  BY <1>1, InitFInv, FInvInductive, PTL DEF Spec

(* Under the same condition what waits for its finalizer is not freed.     *)
THEOREM KeptWhileThereIsRoom == Spec /\ []~RingIsFull => []QueuedAreKept
<1>1. FInv => QueuedAreKept
  BY FInvImplies
<1> QED
  BY <1>1, InitFInv, FInvInductive, PTL DEF Spec

(* A program with fewer objects with a finalizer than LIST_INCREMENT never *)
(* fills the ring, so that both hold of it without a condition on its      *)
(* behaviour.                                                              *)
THEOREM FewAreFinalizedOnce ==
    ASSUME IsFiniteSet(Objects), Cardinality(Objects) < LIST_INCREMENT
    PROVE  Spec => [](FinalizedOnce /\ QueuedAreKept /\ ~RingIsFull)
<1>1. FInv => ~RingIsFull
  BY FewObjectsFit DEF FInv, RingIsFull
<1>2. FInv => FinalizedOnce /\ QueuedAreKept
  BY FInvImplies
<1>3. FInv /\ [Next]_vars => FInv'
  BY <1>1, FInvInductive
<1> QED
  BY <1>1, <1>2, <1>3, InitFInv, PTL DEF Spec

===============================================================================
