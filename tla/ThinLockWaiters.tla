---------------------------- MODULE ThinLockWaiters ----------------------------
(***************************************************************************)
(* Proofs about what the counters of a Monitor and the contention bit of   *)
(* lock.c promise: `notifying' and `interrupting' to the threads that wait *)
(* for a notification, `entering' and `waiting' to the collector, which is *)
(* to find no Monitor on an object nobody uses, and the contention bit to  *)
(* the threads that wait for a lock.                                       *)
(***************************************************************************)
EXTENDS ThinLockSafety

(* The step of thread t, one of the disjuncts of Next.                     *)
Acts(t) ==
    \/ \E o \in Objects :
          \/ objectLock(t, o) \/ objectUnlock(t, o)
          \/ \E c \in Calls : objectWait(t, o, c) \/ objectNotify(t, o, c)
    \/ \E u \in Threads : threadInterrupt(t, u)
    \/ leaveQueue(t) \/ threadInterrupted(t)
    \/ Step(t)

(* What a step of another thread leaves to thread v: where it is, unless   *)
(* it is woken, its local variables, and the Monitors that it owns.        *)
Left(v) ==
    /\ pc'[v] = pc[v] \/ (pc[v] = "parked" /\ pc'[v] = "wake")
    /\ call'[v] = call[v] /\ obj'[v] = obj[v] /\ mon'[v] = mon[v]
    /\ depth'[v] = depth[v]
    /\ \A m \in Monitors : owner[m] = v => owner'[m] = v

LEMMA OthersLeft ==
    ASSUME IInv, NEW t \in Threads, Acts(t), NEW v \in Threads \ {t}
    PROVE  Left(v)
<1> USE ThinLockAssumption DEF IInv, TypeOK, ObjTypeOK, LocalsTypeOK, MonTypeOK, Left,
    objVars, tblVars, ctrVars, monVars, thrVars, locals, Goto, Return, OwnerHoldsMutex
<1>1. ThreadOK(t)
  OBVIOUS
<1>2. CASE \E o \in Objects :
              \/ objectLock(t, o) \/ objectUnlock(t, o)
              \/ \E c \in Calls : objectWait(t, o, c)
  BY <1>2 DEF objectLock, objectUnlock, objectWait, Begin, Locked
<1>3. ASSUME NEW o \in Objects, NEW c \in Calls, objectNotify(t, o, c) PROVE Left(v)
  BY <1>3 DEF objectNotify, Begin, NotifyOne, NotifyAll, Wake, Parked
<1>4. CASE (\E u \in Threads : threadInterrupt(t, u)) \/ leaveQueue(t) \/ threadInterrupted(t)
  BY <1>4 DEF threadInterrupt, leaveQueue, threadInterrupted
<1>5. CASE findMonitor(t) \/ findHashEntry(t)
  BY <1>5 DEF findMonitor, findHashEntry, Found
<1>6. CASE monitorLock(t) \/ storeEntering(t) \/ monitorLocked(t) \/ storeEntered(t)
  BY <1>1, <1>6 DEF monitorLock, storeEntering, monitorLocked, storeEntered, Acquired,
     SetEntering, ThreadOK, WithMutex, WithMonitor
<1>7. CASE contend(t) \/ set_flc_bit(t) \/ compareAndSwap(t) \/ fatten(t)
  BY <1>7 DEF contend, set_flc_bit, compareAndSwap, fatten, Locked
<1>8. CASE inflate(t) \/ notifyContender(t) \/ interruptWaiter(t)
  BY <1>8 DEF inflate, notifyContender, interruptWaiter, NotifyOne, NotifyAll, Wake, Parked
<1>9. CASE monitorWait(t)
  BY <1>1, <1>9 DEF monitorWait, ThreadOK, WithMonitor
<1>10. CASE testInterrupted(t) \/ wake(t) \/ timedOut(t) \/ clearInterrupted(t)
  BY <1>1, <1>10 DEF testInterrupted, wake, timedOut, clearInterrupted, Out, Resume,
     ThreadOK, WithMutex, WithMonitor
<1>11. CASE drainStore(t) \/ test_flc_bit(t) \/ monitorTryLock(t) \/ deflate(t)
  BY <1>1, <1>11 DEF drainStore, test_flc_bit, monitorTryLock, deflate, ThreadOK,
     WithMonitor
<1>12. CASE notInUse(t) \/ monitorUnlock(t) \/ notOwner(t)
  BY <1>1, <1>12 DEF notInUse, monitorUnlock, notOwner, ThreadOK, WithMonitor
<1>13. CASE setInterrupted(t) \/ tryMutex(t) \/ releaseMutex(t)
  BY <1>13 DEF setInterrupted, tryMutex, releaseMutex
<1> QED
  BY <1>2, <1>3, <1>4, <1>5, <1>6, <1>7, <1>8, <1>9, <1>10, <1>11, <1>12, <1>13
  DEF Acts, Step

-----------------------------------------------------------------------------
(* Pending notifications and interrupts.  Where a thread is the owner of   *)
(* the Monitor it works on, whatever the others call.                      *)
WithOwner == {"loop", "set_flc", "cas", "inflate", "fatten", "notify", "interrupted"}

Owning(t) ==
    pc[t] \in WithOwner \/ (pc[t] = "wait" /\ call[t] = "lock") => owner[mon[t]] = t

LEMMA OwnersOwn ==
    ASSUME IInv, \A u \in Threads : Owning(u), NEW t \in Threads, Acts(t)
    PROVE  \A u \in Threads : Owning(u)'
<1> USE DEF IInv, TypeOK
<1>1. ASSUME NEW u \in Threads \ {t} PROVE Owning(u)'
  <2>1. Left(u) /\ Owning(u) /\ ThreadOK(u)
    BY OthersLeft
  <2> QED
    BY <2>1 DEF Left, Owning, ThreadOK, WithOwner, WithMonitor, LocalsTypeOK
<1>2. Owning(t)'
  <2> USE ThinLockAssumption DEF ObjTypeOK, LocalsTypeOK, MonTypeOK, Owning, WithOwner,
      objVars, tblVars, ctrVars, monVars, thrVars, locals, Goto, Return
  <2>1. ThreadOK(t) /\ Owning(t)
    OBVIOUS
  <2>2. CASE \E o \in Objects :
                \/ objectLock(t, o) \/ objectUnlock(t, o)
                \/ \E c \in Calls : objectWait(t, o, c)
    BY <2>1, <2>2 DEF objectLock, objectUnlock, objectWait, Begin
  <2>3. ASSUME NEW o \in Objects, NEW c \in Calls, objectNotify(t, o, c) PROVE Owning(t)'
    BY <2>1, <2>3 DEF objectNotify, Begin, NotifyOne, NotifyAll, Wake, Parked
  <2>4. CASE (\E u \in Threads : threadInterrupt(t, u)) \/ leaveQueue(t) \/ threadInterrupted(t)
    BY <2>1, <2>4 DEF threadInterrupt, leaveQueue, threadInterrupted
  <2>5. CASE findMonitor(t) \/ findHashEntry(t)
    BY <2>5 DEF findMonitor, findHashEntry, Found
  <2>6. CASE monitorLock(t) \/ storeEntering(t) \/ monitorLocked(t) \/ storeEntered(t)
    BY <2>1, <2>6 DEF monitorLock, storeEntering, monitorLocked, storeEntered, Acquired,
       SetEntering, ThreadOK, WithMonitor
  <2>7. CASE contend(t) \/ set_flc_bit(t) \/ compareAndSwap(t) \/ fatten(t)
    BY <2>1, <2>7 DEF contend, set_flc_bit, compareAndSwap, fatten
  <2>8. CASE inflate(t) \/ notifyContender(t) \/ interruptWaiter(t)
    BY <2>1, <2>8 DEF inflate, notifyContender, interruptWaiter, NotifyOne, NotifyAll,
       Wake, Parked
  <2>9. CASE monitorWait(t)
    BY <2>1, <2>9 DEF monitorWait
  <2>10. CASE testInterrupted(t) \/ wake(t) \/ timedOut(t) \/ clearInterrupted(t)
    BY <2>1, <2>10 DEF testInterrupted, wake, timedOut, clearInterrupted, Out, Resume,
       ThreadOK, WithMonitor, InWait
  <2>11. CASE drainStore(t) \/ test_flc_bit(t) \/ monitorTryLock(t) \/ deflate(t)
    BY <2>1, <2>11 DEF drainStore, test_flc_bit, monitorTryLock, deflate, ThreadOK,
       WithMonitor
  <2>12. CASE notInUse(t) \/ monitorUnlock(t) \/ notOwner(t)
    BY <2>12 DEF notInUse, monitorUnlock, notOwner
  <2>13. CASE setInterrupted(t) \/ tryMutex(t) \/ releaseMutex(t)
    BY <2>13 DEF setInterrupted, tryMutex, releaseMutex
  <2> QED
    BY <2>2, <2>3, <2>4, <2>5, <2>6, <2>7, <2>8, <2>9, <2>10, <2>11, <2>12, <2>13
    DEF Acts, Step
<1> QED
  BY <1>1, <1>2

(* A timeout takes a waiter away from a notification that was counted for  *)
(* it (lock.c:172), so nobody waits with one.                              *)
NoTimedWait == "timedwait" \notin Calls

(* The threads that will take a notification or an interrupt of Monitor m, *)
(* and those that an interrupt is meant for.                               *)
Takers(m) == {t \in Threads : pc[t] = "wake" /\ mon[t] = m}
Interruptees(m) == {t \in Takers(m) : self_interrupting[t]}

WaiterOK(t) ==
    /\ call[t] # "timedwait" /\ pc[t] # "timeout"
    /\ self_interrupting[t] => pc[t] = "wake"

(* mon->waiting counts the waiters, mon->interrupting those of them that   *)
(* are being interrupted, and nothing is pending without a taker.          *)
CountedIn(m) ==
    /\ IsFiniteSet(Waiters(m)) /\ waiting[m] = Cardinality(Waiters(m))
    /\ interrupting[m] = Cardinality(Interruptees(m))
    /\ notifying[m] + interrupting[m] <= Cardinality(Takers(m))

NInv ==
    /\ \A t \in Threads : Owning(t) /\ WaiterOK(t)
    /\ \A m \in Monitors : CountedIn(m)

LEMMA WaiterSets ==
    ASSUME NEW m
    PROVE  /\ Interruptees(m) \subseteq Takers(m)
           /\ Takers(m) \subseteq Waiters(m)
BY DEF Interruptees, Takers, Waiters, InWait

LEMMA WaiterNumbers ==
    ASSUME TypeOK, NEW m \in Monitors, CountedIn(m)
    PROVE  /\ IsFiniteSet(Takers(m)) /\ IsFiniteSet(Interruptees(m))
           /\ Cardinality(Waiters(m)) \in Nat /\ Cardinality(Takers(m)) \in Nat
           /\ Cardinality(Interruptees(m)) \in Nat
           /\ Cardinality(Takers(m)) <= Cardinality(Waiters(m))
           /\ waiting[m] \in Int /\ notifying[m] \in Int /\ interrupting[m] \in Int
<1>1. IsFiniteSet(Waiters(m))
  BY DEF CountedIn
<1>2. IsFiniteSet(Takers(m)) /\ Cardinality(Takers(m)) <= Cardinality(Waiters(m))
  BY <1>1, WaiterSets, FS_Subset
<1>3. IsFiniteSet(Interruptees(m))
  BY <1>2, WaiterSets, FS_Subset
<1>4. waiting[m] \in Int /\ notifying[m] \in Int /\ interrupting[m] \in Int
  BY DEF TypeOK, MonTypeOK
<1> QED
  BY <1>1, <1>2, <1>3, <1>4, FS_CardinalityType

LEMMA OneMore ==
    ASSUME NEW S, IsFiniteSet(S), NEW x, x \notin S
    PROVE  IsFiniteSet(S \cup {x}) /\ Cardinality(S \cup {x}) = Cardinality(S) + 1
BY FS_AddElement

(* A Monitor whose counters, waiters and takers stay.                      *)
LEMMA StaysCounted ==
    ASSUME NEW m, CountedIn(m),
           waiting'[m] = waiting[m], notifying'[m] = notifying[m],
           interrupting'[m] = interrupting[m], Waiters(m)' = Waiters(m),
           Takers(m)' = Takers(m), Interruptees(m)' = Interruptees(m)
    PROVE  CountedIn(m)'
BY DEF CountedIn

(* Thread u keeps its part in the counts.                                  *)
SameWaiter(u) ==
    /\ InWait(u)' <=> InWait(u)
    /\ pc'[u] = "wake" <=> pc[u] = "wake"
    /\ InWait(u) => mon'[u] = mon[u]
    /\ self_interrupting'[u] = self_interrupting[u]

LEMMA SameSets ==
    ASSUME NEW m, \A u \in Threads : SameWaiter(u) \/ (mon[u] # m /\ mon'[u] # m)
    PROVE  Waiters(m)' = Waiters(m) /\ Takers(m)' = Takers(m)
           /\ Interruptees(m)' = Interruptees(m)
<1>1. \A u \in Threads : /\ u \in Waiters(m)' <=> u \in Waiters(m)
                         /\ u \in Takers(m)' <=> u \in Takers(m)
                         /\ u \in Interruptees(m)' <=> u \in Interruptees(m)
  BY DEF SameWaiter, Waiters, Takers, Interruptees, InWait
<1> QED
  BY <1>1 DEF Waiters, Takers, Interruptees

(* A step that leaves counters and waiters alone.                          *)
LEMMA QuietCounts ==
    ASSUME NInv, UNCHANGED <<waiting, notifying, interrupting>>,
           \A u \in Threads : SameWaiter(u)
    PROVE  \A m \in Monitors : CountedIn(m)'
<1> SUFFICES ASSUME NEW m \in Monitors PROVE CountedIn(m)'
  OBVIOUS
<1>1. CountedIn(m)
  BY DEF NInv
<1> QED
  BY <1>1, SameSets, StaysCounted

(* Whoever has the mutex finds every waiter parked, or woken already: what *)
(* comes between mon->waiting++ and parking is done with the mutex.        *)
LEMMA ParkedOrWoken ==
    ASSUME IInv, NInv, NEW t \in Threads, NEW m \in Monitors, mutex[m] = t, ~InWait(t)
    PROVE  Waiters(m) = Parked(m) \cup Takers(m)
<1>1. \A u \in Threads : ThreadOK(u) /\ WaiterOK(u)
  BY DEF IInv, NInv
<1> QED
  BY <1>1 DEF ThreadOK, WithMutex, WaiterOK, Waiters, Parked, Takers, InWait

OutsideWait == Labels \ {"flag", "parked", "wake", "timeout"}

(* Threads W of those parked on m are woken.                               *)
LEMMA TakersGrow ==
    ASSUME TypeOK, NEW t \in Threads, NEW m \in Monitors, ~InWait(t),
           NEW l \in OutsideWait, NEW W, W \subseteq Parked(m), Wake(W, t, l)
    PROVE  /\ Takers(m)' = Takers(m) \cup W
           /\ \A n \in Monitors : Waiters(n)' = Waiters(n)
           /\ \A n \in Monitors \ {m} : Takers(n)' = Takers(n)
<1>1. \A u \in Threads : /\ mon'[u] = mon[u]
                         /\ pc'[u] = IF u = t THEN l ELSE IF u \in W THEN "wake" ELSE pc[u]
  BY DEF Wake, locals, TypeOK, LocalsTypeOK
<1>2. W \subseteq {u \in Threads : pc[u] = "parked" /\ mon[u] = m} /\ t \notin W
  BY DEF Parked, InWait
<1> QED
  BY <1>1, <1>2 DEF Takers, Waiters, InWait, OutsideWait

LEMMA NotifyOneCounts ==
    ASSUME IInv, NInv, NEW t \in Threads, NEW m \in Monitors, mutex[m] = t, ~InWait(t),
           NEW l \in OutsideWait, NotifyOne(t, m, l),
           UNCHANGED <<waiting, interrupting, self_interrupting>>
    PROVE  \A n \in Monitors : CountedIn(n)'
<1>1. TypeOK /\ \A n \in Monitors : CountedIn(n)
  BY DEF IInv, NInv
<1>2. PICK W \in SUBSET Parked(m) :
        /\ Wake(W, t, l)
        /\ \/ W = {} /\ notifying' = notifying
           \/ /\ notifying' = [notifying EXCEPT ![m] = @ + 1]
              /\ notifying[m] + interrupting[m] < waiting[m]
              /\ W # {} \/ Parked(m) = {}
  <2>1. ASSUME Goto(t, l) PROVE Wake({}, t, l)
    BY <1>1, <2>1 DEF Goto, Wake, TypeOK, LocalsTypeOK
  <2>2. ASSUME NEW u \in Parked(m), Wake({u}, t, l),
               notifying[m] + interrupting[m] < waiting[m],
               notifying' = [notifying EXCEPT ![m] = @ + 1]
        PROVE  \E W \in SUBSET Parked(m) :
                 /\ Wake(W, t, l)
                 /\ \/ W = {} /\ notifying' = notifying
                    \/ /\ notifying' = [notifying EXCEPT ![m] = @ + 1]
                       /\ notifying[m] + interrupting[m] < waiting[m]
                       /\ W # {} \/ Parked(m) = {}
    <3> WITNESS {u} \in SUBSET Parked(m)
    <3> QED
      BY <2>2
  <2>3. CASE Goto(t, l) /\ (notifying' = notifying \/ Parked(m) = {})
    BY <2>1, <2>3 DEF NotifyOne
  <2> QED
    BY <2>2, <2>3 DEF NotifyOne
<1>3. /\ Takers(m)' = Takers(m) \cup W
      /\ \A n \in Monitors : Waiters(n)' = Waiters(n)
      /\ \A n \in Monitors \ {m} : Takers(n)' = Takers(n)
  BY <1>1, <1>2, TakersGrow
<1>4. \A u \in Threads : self_interrupting[u] => pc[u] = "wake"
  BY DEF NInv, WaiterOK
<1>5. \A n \in Monitors : Interruptees(n)' = Interruptees(n)
  BY <1>2, <1>3, <1>4 DEF Interruptees, Parked, Takers
<1>6. ASSUME NEW n \in Monitors, n # m PROVE CountedIn(n)'
  <2>1. notifying'[n] = notifying[n]
    BY <1>1, <1>2, <1>6 DEF TypeOK, MonTypeOK
  <2> QED
    BY <1>1, <1>3, <1>5, <1>6, <2>1, StaysCounted
<1>7. CountedIn(m)'
  <2> DEFINE w == Cardinality(Waiters(m))
             k == Cardinality(Takers(m))
             k2 == Cardinality(Takers(m) \cup W)
  <2>1. /\ w \in Nat /\ k \in Nat /\ notifying[m] \in Int /\ interrupting[m] \in Int
        /\ notifying[m] + interrupting[m] <= k /\ waiting[m] = w
    BY <1>1, WaiterNumbers DEF CountedIn
  <2>2. Takers(m) \cup W \subseteq Waiters(m) /\ IsFiniteSet(Waiters(m))
    BY <1>1, <1>2, WaiterSets DEF CountedIn, Parked, Waiters, InWait
  <2>3. k2 \in Nat /\ k <= k2 /\ k2 <= w
    BY <2>2, FS_Subset, FS_CardinalityType
  <2>4. notifying'[m] + interrupting[m] <= k2
    <3>1. CASE notifying' = notifying
      BY <2>1, <2>3, <3>1
    <3>2. CASE /\ notifying' = [notifying EXCEPT ![m] = @ + 1]
               /\ notifying[m] + interrupting[m] < waiting[m] /\ W # {}
      <4>1. PICK u \in W : u \notin Takers(m)
        BY <1>2, <3>2 DEF Parked, Takers
      <4>2. IsFiniteSet(Takers(m) \cup W)
        BY <2>2, FS_Subset
      <4>3. k # k2
        BY <4>1, <4>2, FS_Subset
      <4>4. notifying'[m] = notifying[m] + 1
        BY <1>1, <3>2 DEF TypeOK, MonTypeOK
      <4> HIDE DEF k, k2
      <4> QED
        BY <2>1, <2>3, <4>3, <4>4
    <3>3. CASE /\ notifying' = [notifying EXCEPT ![m] = @ + 1]
               /\ notifying[m] + interrupting[m] < waiting[m] /\ Parked(m) = {}
      <4>1. Waiters(m) = Takers(m)
        BY <3>3, ParkedOrWoken
      <4>2. notifying'[m] = notifying[m] + 1
        BY <1>1, <3>3 DEF TypeOK, MonTypeOK
      <4> HIDE DEF k, k2, w
      <4>3. k = w
        BY <4>1 DEF k, w
      <4> QED
        BY <2>1, <2>3, <3>3, <4>2, <4>3
    <3> QED
      BY <1>2, <3>1, <3>2, <3>3
  <2> QED
    BY <1>1, <1>3, <1>5, <2>4 DEF CountedIn
<1> QED
  BY <1>6, <1>7

(* All waiters become takers, and as many are counted.                     *)
LEMMA AllWoken ==
    ASSUME IInv, NInv, NEW t \in Threads, NEW m \in Monitors, mutex[m] = t, ~InWait(t),
           NEW l \in OutsideWait, Wake(Parked(m), t, l)
    PROVE  /\ Takers(m)' = Waiters(m)
           /\ \A n \in Monitors : Waiters(n)' = Waiters(n)
           /\ \A n \in Monitors \ {m} : Takers(n)' = Takers(n)
<1>1. TypeOK /\ Waiters(m) = Parked(m) \cup Takers(m)
  BY ParkedOrWoken DEF IInv
<1>2. Takers(m)' = Takers(m) \cup Parked(m)
  BY <1>1, TakersGrow
<1>3. /\ \A n \in Monitors : Waiters(n)' = Waiters(n)
      /\ \A n \in Monitors \ {m} : Takers(n)' = Takers(n)
  BY <1>1, TakersGrow
<1> QED
  BY <1>1, <1>2, <1>3

LEMMA NotifyAllCounts ==
    ASSUME IInv, NInv, NEW t \in Threads, NEW m \in Monitors, mutex[m] = t, ~InWait(t),
           NEW l \in OutsideWait, NotifyAll(t, m, l),
           UNCHANGED <<waiting, interrupting, self_interrupting>>
    PROVE  \A n \in Monitors : CountedIn(n)'
<1>1. TypeOK /\ \A n \in Monitors : CountedIn(n)
  BY DEF IInv, NInv
<1>2. /\ Takers(m)' = Waiters(m)
      /\ \A n \in Monitors : Waiters(n)' = Waiters(n)
      /\ \A n \in Monitors \ {m} : Takers(n)' = Takers(n)
  BY AllWoken DEF NotifyAll
<1>3. \A u \in Threads : self_interrupting[u] => pc[u] = "wake"
  BY DEF NInv, WaiterOK
<1>4. \A n \in Monitors : Interruptees(n)' = Interruptees(n)
  BY <1>2, <1>3, WaiterSets DEF Interruptees, Takers, Waiters, NotifyAll, Wake, locals
<1>5. ASSUME NEW n \in Monitors, n # m PROVE CountedIn(n)'
  <2>1. notifying'[n] = notifying[n]
    BY <1>1, <1>5 DEF NotifyAll, TypeOK, MonTypeOK
  <2> QED
    BY <1>1, <1>2, <1>4, <1>5, <2>1, StaysCounted
<1>6. CountedIn(m)'
  <2>1. notifying'[m] = waiting[m] - interrupting[m]
    BY <1>1 DEF NotifyAll, TypeOK, MonTypeOK
  <2>2. waiting[m] \in Int /\ interrupting[m] \in Int
    BY <1>1 DEF TypeOK, MonTypeOK
  <2> QED
    BY <1>1, <1>2, <1>4, <2>1, <2>2 DEF CountedIn
<1> QED
  BY <1>5, <1>6

(* threadInterrupt, with the mutex: the waiter it flags and all the others *)
(* that are parked are woken, and one of them is promised an interrupt.    *)
LEMMA InterruptCounts ==
    ASSUME IInv, NInv, NEW t \in Threads, interruptWaiter(t),
           NEW m, m = mon[t], NEW u, u = target[t]
    PROVE  \A n \in Monitors : CountedIn(n)'
<1>1. TypeOK /\ m \in Monitors /\ u \in Threads /\ mutex[m] = t /\ ~InWait(t)
  BY DEF IInv, TypeOK, LocalsTypeOK, interruptWaiter, ThreadOK, WithMonitor, WithMutex, InWait
<1>2. (\A n \in Monitors : CountedIn(n)) /\ \A v \in Threads : WaiterOK(v) /\ ThreadOK(v)
  BY DEF NInv, IInv
<1>3. CASE Goto(t, "release") /\ UNCHANGED <<self_interrupting, interrupting>>
  <2>1. \A v \in Threads : SameWaiter(v)
    BY <1>1, <1>3 DEF interruptWaiter, Goto, locals, SameWaiter, InWait, TypeOK, LocalsTypeOK
  <2> QED
    BY <1>3, <2>1, QuietCounts DEF interruptWaiter
<1>4. CASE /\ wait_mon(u) = m /\ ~self_interrupting[u]
           /\ notifying[m] + interrupting[m] < waiting[m]
           /\ self_interrupting' = [self_interrupting EXCEPT ![u] = TRUE]
           /\ interrupting' = [interrupting EXCEPT ![m] = @ + 1]
           /\ Wake(Parked(m), t, "release")
  <2>1. u \in Waiters(m)
    BY <1>1, <1>4, ThinLockAssumption DEF wait_mon, Waiters, InWait
  <2>2. "release" \in OutsideWait
    BY DEF OutsideWait, Labels
  <2>3. /\ Takers(m)' = Waiters(m)
        /\ \A n \in Monitors : Waiters(n)' = Waiters(n)
        /\ \A n \in Monitors \ {m} : Takers(n)' = Takers(n)
    BY <1>1, <1>4, <2>2, AllWoken
  <2>4. /\ self_interrupting'[u] = TRUE
        /\ \A v \in Threads \ {u} : self_interrupting'[v] = self_interrupting[v]
    BY <1>1, <1>4 DEF TypeOK, ThreadTypeOK
  <2>5. /\ interrupting'[m] = interrupting[m] + 1 /\ notifying' = notifying /\ waiting' = waiting
        /\ \A n \in Monitors \ {m} : interrupting'[n] = interrupting[n]
    BY <1>1, <1>4 DEF TypeOK, MonTypeOK, interruptWaiter
  <2>6. ASSUME NEW n \in Monitors, n # m PROVE CountedIn(n)'
    <3>1. u \notin Takers(n)
      BY <2>1, <2>6 DEF Waiters, Takers
    <3>2. Interruptees(n)' = Interruptees(n)
      BY <2>3, <2>4, <2>6, <3>1 DEF Interruptees, Takers
    <3> QED
      BY <1>2, <2>3, <2>5, <2>6, <3>2, StaysCounted
  <2>7. Interruptees(m)' = Interruptees(m) \cup {u} /\ u \notin Interruptees(m)
    <3>1. \A v \in Waiters(m) : self_interrupting[v] => v \in Takers(m)
      BY <1>2 DEF WaiterOK, Waiters, Takers
    <3> QED
      BY <1>4, <2>1, <2>3, <2>4, <3>1, WaiterSets DEF Interruptees, Takers, Waiters
  <2>8. CountedIn(m)'
    <3>1. /\ IsFiniteSet(Interruptees(m)) /\ Cardinality(Interruptees(m)) \in Nat
          /\ waiting[m] \in Int /\ notifying[m] \in Int /\ interrupting[m] \in Int
      BY <1>1, <1>2, WaiterNumbers
    <3>2. Cardinality(Interruptees(m) \cup {u}) = interrupting[m] + 1
      <4>1. interrupting[m] = Cardinality(Interruptees(m))
        BY <1>1, <1>2 DEF CountedIn
      <4> QED
        BY <2>7, <3>1, <4>1, OneMore
    <3>3. notifying'[m] + interrupting'[m] <= waiting[m]
      BY <1>4, <2>5, <3>1
    <3> QED
      BY <1>1, <1>2, <2>3, <2>5, <2>7, <3>2, <3>3 DEF CountedIn
  <2> QED
    BY <2>6, <2>8
<1> QED
  BY <1>3, <1>4 DEF interruptWaiter

(* The thread that was woken takes an interrupt, or a notification, or     *)
(* goes back because there is none.                                        *)
LEMMA WakeCounts ==
    ASSUME IInv, NInv, NEW t \in Threads, wake(t), NEW m, m = mon[t]
    PROVE  \A n \in Monitors : CountedIn(n)'
<1>1. TypeOK /\ m \in Monitors /\ t \in Takers(m) /\ t \in Waiters(m)
  BY DEF IInv, TypeOK, LocalsTypeOK, wake, ThreadOK, WithMonitor, Takers, Waiters, InWait
<1>2. (\A n \in Monitors : CountedIn(n)) /\ \A v \in Threads : WaiterOK(v)
  BY DEF NInv
<1>3. /\ IsFiniteSet(Waiters(m)) /\ IsFiniteSet(Takers(m)) /\ IsFiniteSet(Interruptees(m))
      /\ Cardinality(Waiters(m)) \in Nat /\ Cardinality(Takers(m)) \in Nat
      /\ Cardinality(Interruptees(m)) \in Nat
      /\ waiting[m] \in Int /\ notifying[m] \in Int /\ interrupting[m] \in Int
      /\ waiting[m] = Cardinality(Waiters(m)) /\ interrupting[m] = Cardinality(Interruptees(m))
      /\ notifying[m] + interrupting[m] <= Cardinality(Takers(m))
  BY <1>1, <1>2, WaiterNumbers DEF CountedIn
<1>4. /\ IsFiniteSet(Waiters(m) \ {t}) /\ Cardinality(Waiters(m) \ {t}) = waiting[m] - 1
      /\ IsFiniteSet(Takers(m) \ {t})
      /\ Cardinality(Takers(m) \ {t}) = Cardinality(Takers(m)) - 1
  BY <1>1, <1>3, FS_RemoveElement
<1>5. ASSUME (Out(t) /\ (Goto(t, "interrupted") \/ Resume(t)))
             \/ (Goto(t, "parked") /\ UNCHANGED self_interrupting),
             mon' = mon \/ Return(t)
      PROVE  /\ Takers(m)' = Takers(m) \ {t}
             /\ \A v \in Threads \ {t} : SameWaiter(v)
  <2>1. \A v \in Threads \ {t} : /\ pc'[v] = pc[v] /\ mon'[v] = mon[v]
                                 /\ self_interrupting'[v] = self_interrupting[v]
    BY <1>1, <1>5 DEF wake, Goto, Resume, Return, locals, TypeOK, LocalsTypeOK, ThreadTypeOK
  <2>2. pc'[t] # "wake"
    BY <1>1, <1>5 DEF Goto, Resume, Return, TypeOK, LocalsTypeOK
  <2> QED
    BY <2>1, <2>2 DEF Takers, SameWaiter, InWait
<1>6. ASSUME NEW n \in Monitors, n # m PROVE CountedIn(n)'
  <2>1. /\ waiting'[n] = waiting[n] /\ notifying'[n] = notifying[n]
        /\ interrupting'[n] = interrupting[n]
    BY <1>1, <1>6 DEF wake, Out, TypeOK, MonTypeOK
  <2>2. \A v \in Threads : SameWaiter(v) \/ (mon[v] # n /\ mon'[v] # n)
    BY <1>1, <1>6, ThinLockAssumption
    DEF wake, Goto, Resume, Return, locals, TypeOK, LocalsTypeOK, ThreadTypeOK, SameWaiter, InWait
  <2> QED
    BY <1>2, <2>1, <2>2, SameSets, StaysCounted
<1>7. CountedIn(m)'
  <2>1. CASE Out(t) /\ (Goto(t, "interrupted") \/ Resume(t))
    <3>1. Waiters(m)' = Waiters(m) \ {t} /\ Takers(m)' = Takers(m) \ {t}
      BY <1>1, <2>1
      DEF wake, Goto, Resume, Return, locals, TypeOK, LocalsTypeOK, Waiters, Takers, InWait
    <3>2. waiting'[m] = waiting[m] - 1
      BY <1>1, <2>1 DEF Out, TypeOK, MonTypeOK
    <3>3. CASE /\ self_interrupting[t]
               /\ self_interrupting' = [self_interrupting EXCEPT ![t] = FALSE]
               /\ interrupting' = [interrupting EXCEPT ![m] = @ - 1] /\ UNCHANGED notifying
      <4>1. t \in Interruptees(m) /\ Interruptees(m)' = Interruptees(m) \ {t}
        BY <1>1, <3>1, <3>3 DEF Interruptees, Takers, TypeOK, ThreadTypeOK
      <4>2. interrupting'[m] = interrupting[m] - 1
        BY <1>1, <3>3 DEF TypeOK, MonTypeOK
      <4>3. Cardinality(Interruptees(m) \ {t}) = interrupting[m] - 1
        BY <1>3, <4>1, FS_RemoveElement
      <4>4. notifying'[m] + interrupting'[m] <= Cardinality(Takers(m) \ {t})
        BY <1>3, <1>4, <3>3, <4>2
      <4> QED
        BY <1>4, <3>1, <3>2, <4>1, <4>2, <4>3, <4>4 DEF CountedIn
    <3>4. CASE /\ ~self_interrupting[t] /\ notifying' = [notifying EXCEPT ![m] = @ - 1]
               /\ UNCHANGED <<self_interrupting, interrupting>>
      <4>1. Interruptees(m)' = Interruptees(m)
        BY <3>1, <3>4 DEF Interruptees
      <4>2. notifying'[m] = notifying[m] - 1
        BY <1>1, <3>4 DEF TypeOK, MonTypeOK
      <4>3. notifying'[m] + interrupting[m] <= Cardinality(Takers(m) \ {t})
        BY <1>3, <1>4, <4>2
      <4> QED
        BY <1>3, <1>4, <3>1, <3>2, <3>4, <4>1, <4>3 DEF CountedIn
    <3>5. Goto(t, "parked") => FALSE
      BY <1>1, <2>1 DEF Goto, Resume, Return, TypeOK, LocalsTypeOK
    <3> QED
      BY <3>3, <3>4, <3>5 DEF wake
  <2>2. CASE /\ ~self_interrupting[t] /\ notifying[m] = 0 /\ Goto(t, "parked")
             /\ UNCHANGED <<self_interrupting, waiting, notifying, interrupting>>
    <3>1. Waiters(m)' = Waiters(m) /\ Takers(m)' = Takers(m) \ {t}
      BY <1>1, <2>2 DEF Goto, locals, TypeOK, LocalsTypeOK, Waiters, Takers, InWait
    <3>2. Interruptees(m)' = Interruptees(m) /\ Interruptees(m) \subseteq Takers(m) \ {t}
      BY <2>2, <3>1 DEF Interruptees
    <3>3. Cardinality(Interruptees(m)) <= Cardinality(Takers(m) \ {t})
      BY <1>4, <3>2, FS_Subset
    <3>4. notifying[m] + interrupting[m] <= Cardinality(Takers(m) \ {t})
      BY <1>3, <2>2, <3>3
    <3> QED
      BY <1>3, <2>2, <3>1, <3>2, <3>4 DEF CountedIn
  <2> QED
    BY <2>1, <2>2 DEF wake
<1> QED
  BY <1>6, <1>7

(* monitorWait counts a waiter that is not parked yet, and one that finds  *)
(* itself interrupted is counted no more.                                  *)
LEMMA WaitCounts ==
    ASSUME IInv, NInv, NEW t \in Threads, monitorWait(t), NEW m, m = mon[t]
    PROVE  \A n \in Monitors : CountedIn(n)'
<1>1. TypeOK /\ m \in Monitors /\ t \notin Waiters(m) /\ ~InWait(t)
  BY DEF IInv, TypeOK, LocalsTypeOK, monitorWait, ThreadOK, WithMonitor, Waiters, InWait
<1>2. \A n \in Monitors : CountedIn(n)
  BY DEF NInv
<1>3. \A v \in Threads \ {t} : SameWaiter(v)
  BY <1>1 DEF monitorWait, Goto, locals, thrVars, TypeOK, LocalsTypeOK, SameWaiter, InWait
<1>4. mon' = mon /\ self_interrupting' = self_interrupting /\ pc'[t] # "wake" /\ pc[t] # "wake"
  BY <1>1 DEF monitorWait, Goto, locals, thrVars, TypeOK, LocalsTypeOK
<1>5. UNCHANGED <<notifying, interrupting>>
  BY DEF monitorWait
<1>6. CASE owner[m] # t
  <2>1. SameWaiter(t)
    BY <1>1, <1>4, <1>6 DEF monitorWait, Goto, TypeOK, LocalsTypeOK, SameWaiter, InWait
  <2> QED
    BY <1>3, <1>5, <1>6, <2>1, QuietCounts DEF monitorWait
<1>7. CASE owner[m] = t
  <2>1. InWait(t)'
    BY <1>1, <1>7 DEF monitorWait, Goto, TypeOK, LocalsTypeOK, InWait
  <2>2. Waiters(m)' = Waiters(m) \cup {t}
    BY <1>1, <1>3, <1>4, <2>1 DEF Waiters, SameWaiter
  <2>3. Takers(m)' = Takers(m)
    BY <1>3, <1>4 DEF Takers, SameWaiter, InWait
  <2>4. Interruptees(m)' = Interruptees(m)
    BY <1>4, <2>3 DEF Interruptees
  <2>5. waiting'[m] = waiting[m] + 1 /\ \A n \in Monitors \ {m} : waiting'[n] = waiting[n]
    BY <1>1, <1>7 DEF monitorWait, TypeOK, MonTypeOK
  <2>6. ASSUME NEW n \in Monitors, n # m PROVE CountedIn(n)'
    BY <1>2, <1>3, <1>4, <1>5, <2>5, <2>6, SameSets, StaysCounted
  <2>7. /\ IsFiniteSet(Waiters(m) \cup {t})
        /\ Cardinality(Waiters(m) \cup {t}) = waiting[m] + 1
    <3>1. IsFiniteSet(Waiters(m)) /\ waiting[m] = Cardinality(Waiters(m))
      BY <1>1, <1>2 DEF CountedIn
    <3> QED
      BY <1>1, <3>1, OneMore
  <2>8. CountedIn(m)'
    BY <1>1, <1>2, <1>5, <2>2, <2>3, <2>4, <2>5, <2>7 DEF CountedIn
  <2> QED
    BY <2>6, <2>8
<1> QED
  BY <1>6, <1>7

LEMMA TestCounts ==
    ASSUME IInv, NInv, NEW t \in Threads, testInterrupted(t), NEW m, m = mon[t]
    PROVE  \A n \in Monitors : CountedIn(n)'
<1>1. TypeOK /\ m \in Monitors /\ t \in Waiters(m) /\ pc[t] = "flag"
  BY DEF IInv, TypeOK, LocalsTypeOK, testInterrupted, ThreadOK, WithMonitor, Waiters, InWait
<1>2. \A n \in Monitors : CountedIn(n)
  BY DEF NInv
<1>3. \A v \in Threads \ {t} : SameWaiter(v)
  BY <1>1 DEF testInterrupted, Goto, locals, thrVars, TypeOK, LocalsTypeOK, SameWaiter, InWait
<1>4. mon' = mon /\ self_interrupting' = self_interrupting /\ pc'[t] # "wake"
  BY <1>1 DEF testInterrupted, Goto, locals, thrVars, TypeOK, LocalsTypeOK
<1>5. UNCHANGED <<notifying, interrupting>>
  BY DEF testInterrupted
<1>6. CASE Goto(t, "parked") /\ UNCHANGED waiting
  <2>1. SameWaiter(t)
    BY <1>1, <1>4, <1>6 DEF Goto, TypeOK, LocalsTypeOK, SameWaiter, InWait
  <2> QED
    BY <1>3, <1>5, <1>6, <2>1, QuietCounts
<1>7. CASE Out(t) /\ Goto(t, "interrupted")
  <2>1. ~InWait(t)'
    BY <1>1, <1>7 DEF Goto, TypeOK, LocalsTypeOK, InWait
  <2>2. Waiters(m)' = Waiters(m) \ {t}
    BY <1>1, <1>3, <1>4, <2>1 DEF Waiters, SameWaiter
  <2>3. Takers(m)' = Takers(m)
    BY <1>1, <1>3, <1>4 DEF Takers, SameWaiter, InWait
  <2>4. Interruptees(m)' = Interruptees(m)
    BY <1>4, <2>3 DEF Interruptees
  <2>5. waiting'[m] = waiting[m] - 1 /\ \A n \in Monitors \ {m} : waiting'[n] = waiting[n]
    BY <1>1, <1>7 DEF Out, TypeOK, MonTypeOK
  <2>6. ASSUME NEW n \in Monitors, n # m PROVE CountedIn(n)'
    BY <1>2, <1>3, <1>4, <1>5, <2>5, <2>6, SameSets, StaysCounted
  <2>7. /\ IsFiniteSet(Waiters(m) \ {t})
        /\ Cardinality(Waiters(m) \ {t}) = waiting[m] - 1
    BY <1>1, <1>2, FS_RemoveElement DEF CountedIn
  <2>8. CountedIn(m)'
    BY <1>1, <1>2, <1>5, <2>2, <2>3, <2>4, <2>5, <2>7 DEF CountedIn
  <2> QED
    BY <2>6, <2>8
<1> QED
  BY <1>6, <1>7 DEF testInterrupted

(* A spurious wakeup adds a taker.                                         *)
LEMMA SpuriousCounts ==
    ASSUME IInv, NInv, NEW t \in Threads, leaveQueue(t), NEW m, m = mon[t]
    PROVE  \A n \in Monitors : CountedIn(n)'
<1>1. TypeOK /\ m \in Monitors /\ pc[t] = "parked" /\ WaiterOK(t)
  BY DEF IInv, NInv, TypeOK, LocalsTypeOK, leaveQueue, ThreadOK, WithMonitor
<1>2. \A n \in Monitors : CountedIn(n)
  BY DEF NInv
<1>3. /\ Wake({t}, t, "wake") /\ mon' = mon
      /\ UNCHANGED <<waiting, notifying, interrupting, self_interrupting>>
  <2>1. Goto(t, "wake")
    BY <1>1 DEF leaveQueue, WaiterOK
  <2> QED
    BY <1>1, <2>1 DEF leaveQueue, Goto, Wake, locals, monVars, ctrVars, thrVars, TypeOK,
       LocalsTypeOK
<1>4. \A v \in Threads \ {t} : SameWaiter(v)
  BY <1>1, <1>3 DEF Wake, SameWaiter, InWait
<1>5. pc'[t] = "wake"
  BY <1>3 DEF Wake
<1>6. Waiters(m)' = Waiters(m) /\ Takers(m)' = Takers(m) \cup {t}
  BY <1>1, <1>3, <1>4, <1>5 DEF Waiters, Takers, SameWaiter, InWait
<1>7. Interruptees(m)' = Interruptees(m)
  BY <1>1, <1>3, <1>6 DEF Interruptees, WaiterOK
<1>8. ASSUME NEW n \in Monitors, n # m PROVE CountedIn(n)'
  BY <1>2, <1>3, <1>4, <1>8, SameSets, StaysCounted
<1>9. CountedIn(m)'
  <2>1. IsFiniteSet(Takers(m)) /\ IsFiniteSet(Takers(m) \cup {t})
    BY <1>1, <1>2, WaiterNumbers, FS_AddElement
  <2>2. /\ Cardinality(Takers(m)) <= Cardinality(Takers(m) \cup {t})
        /\ Cardinality(Takers(m)) \in Nat /\ Cardinality(Takers(m) \cup {t}) \in Nat
        /\ notifying[m] \in Int /\ interrupting[m] \in Int
    BY <1>1, <1>2, <2>1, WaiterNumbers, FS_Subset, FS_CardinalityType
  <2>3. notifying[m] + interrupting[m] <= Cardinality(Takers(m) \cup {t})
    BY <1>1, <1>2, <2>2 DEF CountedIn
  <2> QED
    BY <1>1, <1>2, <1>3, <1>6, <1>7, <2>3 DEF CountedIn
<1> QED
  BY <1>8, <1>9

(* Threads that are not in monitorWait, and get there by no other step.    *)
LEMMA WaitersStayOK ==
    ASSUME IInv, NInv, NoTimedWait, NEW t \in Threads, Acts(t)
    PROVE  \A v \in Threads : WaiterOK(v)'
<1> USE DEF IInv, TypeOK, LocalsTypeOK, ThreadTypeOK, objVars, tblVars, ctrVars, monVars,
    thrVars, locals, Goto, Return, WaiterOK
<1>1. \A v \in Threads : WaiterOK(v) /\ ThreadOK(v)
  BY DEF NInv
<1>2. CASE interruptWaiter(t)
  <2>1. mutex[mon[t]] = t /\ mon[t] # Nil /\ pc[t] = "got_lock" /\ target[t] \in Threads
    BY <1>1, <1>2 DEF interruptWaiter, ThreadOK, WithMutex, WithMonitor
  <2>2. wait_mon(target[t]) = mon[t] =>
          target[t] \in Parked(mon[t]) \/ pc[target[t]] = "wake"
    BY <1>1, <2>1 DEF wait_mon, Parked, ThreadOK, WithMutex
  <2>3. CASE Goto(t, "release") /\ UNCHANGED self_interrupting
    BY <1>1, <1>2, <2>1, <2>3 DEF interruptWaiter
  <2>4. CASE /\ wait_mon(target[t]) = mon[t] /\ Wake(Parked(mon[t]), t, "release")
             /\ self_interrupting' = [self_interrupting EXCEPT ![target[t]] = TRUE]
    <3>1. \A v \in Threads :
            /\ call'[v] = call[v]
            /\ pc'[v] = IF v = t THEN "release" ELSE IF v \in Parked(mon[t]) THEN "wake" ELSE pc[v]
            /\ self_interrupting'[v] = IF v = target[t] THEN TRUE ELSE self_interrupting[v]
      BY <2>4 DEF Wake
    <3>2. target[t] # t
      BY <2>1, <2>2, <2>4 DEF Parked
    <3>3. \A v \in Threads : pc[v] = "wake" => pc'[v] = "wake"
      BY <2>1, <3>1
    <3> QED
      BY <1>1, <2>1, <2>2, <2>4, <3>1, <3>2, <3>3
  <2> QED
    BY <1>2, <2>3, <2>4 DEF interruptWaiter
<1>3. CASE UNCHANGED self_interrupting /\ ~interruptWaiter(t)
  <2>1. ASSUME NEW v \in Threads \ {t} PROVE WaiterOK(v)'
    <3>1. Left(v)
      BY <1>1, OthersLeft
    <3> QED
      BY <1>1, <1>3, <3>1 DEF Left
  <2>2. call'[t] # "timedwait" /\ pc'[t] # "timeout" /\ (pc[t] = "wake" /\ self_interrupting[t] => pc'[t] = "wake")
    <3>1. CASE \E o \in Objects : objectLock(t, o) \/ objectUnlock(t, o)
      BY <1>1, <3>1 DEF objectLock, objectUnlock, Begin
    <3>2. ASSUME NEW o \in Objects, NEW c \in Calls, objectWait(t, o, c) \/ objectNotify(t, o, c)
          PROVE  call'[t] # "timedwait" /\ pc'[t] # "timeout" /\ pc[t] # "wake"
      BY <1>1, <3>2 DEF objectWait, objectNotify, Begin, NotifyOne, NotifyAll, Wake, NoTimedWait
    <3>3. CASE \/ \E u \in Threads : threadInterrupt(t, u)
               \/ leaveQueue(t) \/ threadInterrupted(t)
      BY <1>1, <3>3 DEF threadInterrupt, leaveQueue, threadInterrupted
    <3>4. CASE Step(t)
      <4>1. CASE findMonitor(t) \/ findHashEntry(t) \/ monitorLock(t) \/ storeEntering(t)
        BY <1>1, <4>1 DEF findMonitor, findHashEntry, Found, monitorLock, storeEntering, Acquired
      <4>2. CASE monitorLocked(t) \/ storeEntered(t) \/ contend(t) \/ set_flc_bit(t)
        BY <1>1, <4>2 DEF monitorLocked, storeEntered, contend, set_flc_bit, Acquired
      <4>3. CASE compareAndSwap(t) \/ fatten(t) \/ monitorWait(t) \/ testInterrupted(t)
        BY <1>1, <4>3 DEF compareAndSwap, fatten, monitorWait, testInterrupted
      <4>4. CASE inflate(t) \/ notifyContender(t)
        BY <1>1, <4>4 DEF inflate, notifyContender, NotifyOne, NotifyAll, Wake
      <4>5. CASE wake(t) \/ timedOut(t) \/ clearInterrupted(t) \/ drainStore(t)
        BY <1>1, <1>3, <4>5 DEF wake, timedOut, clearInterrupted, drainStore, Resume
      <4>6. CASE test_flc_bit(t) \/ monitorTryLock(t) \/ deflate(t) \/ notInUse(t)
        BY <1>1, <4>6 DEF test_flc_bit, monitorTryLock, deflate, notInUse
      <4>7. CASE monitorUnlock(t) \/ notOwner(t) \/ setInterrupted(t) \/ tryMutex(t) \/ releaseMutex(t)
        BY <1>1, <4>7 DEF monitorUnlock, notOwner, setInterrupted, tryMutex, releaseMutex
      <4> QED
        BY <1>3, <3>4, <4>1, <4>2, <4>3, <4>4, <4>5, <4>6, <4>7 DEF Step
    <3> QED
      BY <3>1, <3>2, <3>3, <3>4 DEF Acts
  <2> QED
    BY <1>1, <1>3, <2>1, <2>2
<1>4. CASE ~UNCHANGED self_interrupting /\ wake(t)
  BY <1>1, <1>4 DEF wake, Resume
<1>5. UNCHANGED self_interrupting \/ interruptWaiter(t) \/ wake(t)
  BY DEF Acts, Step, objectLock, objectUnlock, objectWait, objectNotify, threadInterrupt,
     leaveQueue, threadInterrupted, findMonitor, findHashEntry, monitorLock, storeEntering,
     monitorLocked, storeEntered, contend, set_flc_bit, compareAndSwap, inflate, fatten,
     monitorWait, testInterrupted, timedOut, clearInterrupted, drainStore, test_flc_bit,
     monitorTryLock, notifyContender, deflate, notInUse, monitorUnlock, notOwner,
     setInterrupted, tryMutex, releaseMutex
<1> QED
  BY <1>2, <1>3, <1>4, <1>5

(* Every step keeps the counts: seven of them are about waiters.           *)
LEMMA CountsStay ==
    ASSUME IInv, NInv, NoTimedWait, NEW t \in Threads, Acts(t)
    PROVE  \A n \in Monitors : CountedIn(n)'
<1> USE DEF IInv, TypeOK, LocalsTypeOK
<1>1. \A v \in Threads : WaiterOK(v) /\ ThreadOK(v) /\ Owning(v)
  BY DEF NInv
<1>2. CASE interruptWaiter(t)
  BY <1>2, InterruptCounts
<1>3. CASE wake(t)
  BY <1>3, WakeCounts
<1>4. CASE monitorWait(t)
  BY <1>4, WaitCounts
<1>5. CASE testInterrupted(t)
  BY <1>5, TestCounts
<1>6. CASE leaveQueue(t)
  BY <1>6, SpuriousCounts
<1>7. CASE inflate(t)
  <2>1. /\ mon[t] \in Monitors /\ mutex[mon[t]] = t /\ ~InWait(t) /\ "fatten" \in OutsideWait
        /\ UNCHANGED <<waiting, interrupting, self_interrupting>>
    BY <1>1, <1>7, ThinLockAssumption DEF inflate, ThreadOK, WithMonitor, Owning, WithOwner,
       OwnerHoldsMutex, InWait, OutsideWait, Labels, thrVars
  <2> QED
    BY <1>7, <2>1, NotifyAllCounts DEF inflate
<1>8. CASE notifyContender(t)
  <2>1. /\ mon[t] \in Monitors /\ mutex[mon[t]] = t /\ ~InWait(t) /\ "unlock" \in OutsideWait
        /\ UNCHANGED <<waiting, interrupting, self_interrupting>>
    BY <1>1, <1>8, ThinLockAssumption DEF notifyContender, ThreadOK, WithMonitor, Owning,
       WithOwner, OwnerHoldsMutex, InWait, OutsideWait, Labels, thrVars
  <2>2. CASE NotifyOne(t, mon[t], "unlock")
    BY <2>1, <2>2, NotifyOneCounts
  <2>3. CASE Goto(t, "unlock") /\ UNCHANGED notifying
    <3>1. \A v \in Threads : SameWaiter(v)
      BY <2>1, <2>3 DEF Goto, locals, SameWaiter, InWait
    <3> QED
      BY <2>1, <2>3, <3>1, QuietCounts
  <2> QED
    BY <1>8, <2>2, <2>3 DEF notifyContender
<1>9. ASSUME NEW o \in Objects, NEW c \in Calls, objectNotify(t, o, c)
      PROVE  \A n \in Monitors : CountedIn(n)'
  <2>1. ~InWait(t) /\ UNCHANGED <<waiting, interrupting, self_interrupting>>
    BY <1>9 DEF objectNotify, InWait, thrVars
  <2>2. CASE lock[o].fat /\ owner[lock[o].mon] = t
    <3> DEFINE m == lock[o].mon
    <3>1. m \in Monitors /\ mutex[m] = t /\ "idle" \in OutsideWait
      BY <2>2, ThinLockAssumption DEF FatHasMonitor, ObjTypeOK, LockWord, OwnerHoldsMutex,
         OutsideWait, Labels
    <3>2. NotifyOne(t, m, "idle") \/ NotifyAll(t, m, "idle")
      BY <1>9, <2>2 DEF objectNotify
    <3> HIDE DEF m
    <3> QED
      BY <2>1, <3>1, <3>2, NotifyOneCounts, NotifyAllCounts
  <2>3. CASE ~(lock[o].fat /\ owner[lock[o].mon] = t)
    <3>1. Begin(t, o, c, Nil, "not_owner") /\ UNCHANGED notifying
      BY <1>9, <2>3 DEF objectNotify
    <3>2. \A v \in Threads : SameWaiter(v)
      BY <2>1, <3>1 DEF Begin, SameWaiter, InWait
    <3> QED
      BY <2>1, <3>1, <3>2, QuietCounts
  <2> QED
    BY <2>2, <2>3
<1>10. ASSUME UNCHANGED <<waiting, notifying, interrupting, self_interrupting>>,
              \A v \in Threads \ {t} : pc'[v] = pc[v] /\ mon'[v] = mon[v],
              ~InWait(t), ~InWait(t)'
       PROVE  \A n \in Monitors : CountedIn(n)'
  <2>1. \A v \in Threads : SameWaiter(v)
    BY <1>10 DEF SameWaiter, InWait
  <2> QED
    BY <1>10, <2>1, QuietCounts
<1> DEFINE Quiet == /\ UNCHANGED <<waiting, notifying, interrupting, self_interrupting>>
                    /\ \A v \in Threads \ {t} : pc'[v] = pc[v] /\ mon'[v] = mon[v]
                    /\ ~InWait(t) /\ ~InWait(t)'
<1> USE DEF objVars, tblVars, ctrVars, monVars, thrVars, locals, Goto, Return, InWait
<1>11. CASE \E o \in Objects :
               \/ objectLock(t, o) \/ objectUnlock(t, o)
               \/ \E c \in Calls : objectWait(t, o, c)
  <2>1. Quiet
    BY <1>11 DEF objectLock, objectUnlock, objectWait, Begin
  <2> QED
    BY <1>10, <2>1
<1>12. CASE (\E u \in Threads : threadInterrupt(t, u)) \/ setInterrupted(t)
            \/ tryMutex(t) \/ releaseMutex(t)
  <2>1. Quiet
    BY <1>12 DEF threadInterrupt, setInterrupted, tryMutex, releaseMutex
  <2> QED
    BY <1>10, <2>1
<1>13. CASE findMonitor(t) \/ findHashEntry(t) \/ monitorLock(t) \/ storeEntering(t)
  <2>1. Quiet
    BY <1>13 DEF findMonitor, findHashEntry, Found, monitorLock, storeEntering, Acquired
  <2> QED
    BY <1>10, <2>1
<1>14. CASE monitorLocked(t) \/ storeEntered(t) \/ contend(t) \/ set_flc_bit(t)
  <2>1. Quiet
    BY <1>14 DEF monitorLocked, storeEntered, contend, set_flc_bit, Acquired
  <2> QED
    BY <1>10, <2>1
<1>15. CASE compareAndSwap(t) \/ fatten(t) \/ clearInterrupted(t) \/ drainStore(t)
  <2>1. Quiet
    BY <1>15 DEF compareAndSwap, fatten, clearInterrupted, drainStore, Resume
  <2> QED
    BY <1>10, <2>1
<1>16. CASE test_flc_bit(t) \/ monitorTryLock(t) \/ deflate(t) \/ notInUse(t)
  <2>1. Quiet
    BY <1>16 DEF test_flc_bit, monitorTryLock, deflate, notInUse
  <2> QED
    BY <1>10, <2>1
<1>17. CASE monitorUnlock(t) \/ notOwner(t)
  <2>1. Quiet
    BY <1>17 DEF monitorUnlock, notOwner
  <2> QED
    BY <1>10, <2>1
<1>18. CASE threadInterrupted(t)
  <2>1. \A v \in Threads : SameWaiter(v)
    BY <1>18 DEF threadInterrupted, SameWaiter
  <2> QED
    BY <1>18, <2>1, QuietCounts DEF threadInterrupted
<1>19. ~timedOut(t)
  BY <1>1 DEF timedOut, WaiterOK
<1> QED
  BY <1>2, <1>3, <1>4, <1>5, <1>6, <1>7, <1>8, <1>9, <1>11, <1>12, <1>13, <1>14, <1>15,
     <1>16, <1>17, <1>18, <1>19 DEF Acts, Step

THEOREM WaitersInvariance ==
    ASSUME NoTimedWait
    PROVE  Spec => []NInv
<1>1. Init => NInv
  <2> SUFFICES ASSUME Init PROVE NInv
    OBVIOUS
  <2>1. \A t \in Threads : Owning(t) /\ WaiterOK(t)
    BY DEF Init, Owning, WithOwner, WaiterOK
  <2>2. \A m : Waiters(m) = {} /\ Takers(m) = {} /\ Interruptees(m) = {}
    BY DEF Init, Waiters, Takers, Interruptees, InWait
  <2>3. ASSUME NEW m \in Monitors PROVE CountedIn(m)
    <3>1. waiting[m] = 0 /\ notifying[m] = 0 /\ interrupting[m] = 0
      BY DEF Init
    <3>2. Waiters(m) = {} /\ Takers(m) = {} /\ Interruptees(m) = {}
      BY <2>2
    <3> QED
      BY <3>1, <3>2, FS_EmptySet DEF CountedIn
  <2> QED
    BY <2>1, <2>3 DEF NInv
<1>2. ASSUME IInv, NInv, [Next]_vars PROVE NInv'
  <2>1. CASE Next
    <3>1. PICK t \in Threads : Acts(t)
      BY <2>1 DEF Next, Acts
    <3>2. \A u \in Threads : Owning(u)
      BY <1>2 DEF NInv
    <3>3. \A u \in Threads : Owning(u)' /\ WaiterOK(u)'
      BY <1>2, <3>1, <3>2, OwnersOwn, WaitersStayOK
    <3>4. \A n \in Monitors : CountedIn(n)'
      BY <1>2, <3>1, CountsStay
    <3> QED
      BY <3>3, <3>4 DEF NInv
  <2>2. CASE UNCHANGED vars
    <3>1. \A u \in Threads : Owning(u)' /\ WaiterOK(u)'
      BY <1>2, <2>2 DEF NInv, Owning, WaiterOK, vars, monVars, thrVars, locals
    <3>2. \A u \in Threads : SameWaiter(u)
      BY <2>2 DEF SameWaiter, InWait, vars, thrVars, locals
    <3>3. \A n \in Monitors : CountedIn(n)'
      BY <1>2, <2>2, <3>2, QuietCounts DEF vars, monVars, ctrVars
    <3> QED
      BY <3>1, <3>3 DEF NInv
  <2> QED
    BY <1>2, <2>1, <2>2
<1> QED
  BY <1>1, <1>2, Invariance, PTL DEF Spec

(* A notification or an interrupt that is pending has a thread to take it, *)
(* whatever the program calls but for wait() with a timeout, and whatever  *)
(* the condition variable does (lock.c, monitorWait and monitorNotify).    *)
THEOREM PendingIsTaken ==
    ASSUME NoTimedWait
    PROVE  Spec => []NotificationsHaveTakers
<1>1. NInv => NotificationsHaveTakers
  BY DEF NInv, CountedIn, Takers, NotificationsHaveTakers
<1> QED
  BY <1>1, WaitersInvariance, PTL

-----------------------------------------------------------------------------
(* Monitors are given back.  On one processor no update of entering is     *)
(* lost: it counts the threads that wait for the mutex.                    *)
Enterers(m) == {t \in Threads : pc[t] = "mutex" /\ mon[t] = m}

EnteringOK(m) == IsFiniteSet(Enterers(m)) /\ entering[m] = Cardinality(Enterers(m))

EInv ==
    /\ \A t \in Threads : pc[t] \notin {"entering", "entered"}
    /\ \A m \in Monitors : EnteringOK(m)

LEMMA OneLess ==
    ASSUME NEW S, IsFiniteSet(S), NEW x, x \in S
    PROVE  IsFiniteSet(S \ {x}) /\ Cardinality(S \ {x}) = Cardinality(S) - 1
BY FS_RemoveElement

(* Nobody comes to the mutex of a Monitor, or gets it.                     *)
LEMMA SameEnterers ==
    ASSUME EInv, entering' = entering,
           \A u \in Threads : /\ pc'[u] = "mutex" <=> pc[u] = "mutex"
                              /\ pc[u] = "mutex" => mon'[u] = mon[u]
                              /\ pc'[u] \notin {"entering", "entered"}
    PROVE  EInv'
<1>1. ASSUME NEW m \in Monitors PROVE EnteringOK(m)'
  <2>1. Enterers(m)' = Enterers(m)
    BY DEF Enterers
  <2>2. EnteringOK(m)
    BY DEF EInv
  <2> QED
    BY <2>1, <2>2 DEF EnteringOK
<1> QED
  BY <1>1 DEF EInv

LEMMA EnterCounts ==
    ASSUME IInv, EInv, ~SMP, NEW t \in Threads, NEW m, m = mon[t], monitorLock(t)
    PROVE  EInv'
<1>1. TypeOK /\ m \in Monitors /\ pc[t] = "enter"
  BY DEF IInv, TypeOK, LocalsTypeOK, monitorLock, ThreadOK, WithMonitor
<1>2. \A u \in Threads \ {t} : pc'[u] = pc[u] /\ mon'[u] = mon[u]
  BY <1>1 DEF monitorLock, Acquired, Goto, locals, TypeOK, LocalsTypeOK
<1>3. mon' = mon /\ pc'[t] \notin {"entering", "entered"}
  BY <1>1 DEF monitorLock, Acquired, Goto, locals, TypeOK, LocalsTypeOK
<1>4. CASE owner[m] = t
  <2>1. pc'[t] # "mutex" /\ entering' = entering
    BY <1>1, <1>4 DEF monitorLock, Acquired, Goto, TypeOK, LocalsTypeOK
  <2> QED
    BY <1>1, <1>2, <1>3, <2>1, SameEnterers DEF EInv
<1>5. CASE owner[m] # t
  <2>1. pc'[t] = "mutex" /\ entering' = [entering EXCEPT ![m] = @ + 1]
    BY <1>1, <1>5 DEF monitorLock, Goto, SetEntering, TypeOK, LocalsTypeOK
  <2>2. /\ entering'[m] = entering[m] + 1
        /\ \A n \in Monitors \ {m} : entering'[n] = entering[n]
    BY <1>1, <2>1 DEF TypeOK, MonTypeOK
  <2>3. Enterers(m)' = Enterers(m) \cup {t} /\ t \notin Enterers(m)
    BY <1>1, <1>2, <1>3, <2>1 DEF Enterers
  <2>4. \A n \in Monitors \ {m} : Enterers(n)' = Enterers(n)
    BY <1>1, <1>2, <1>3, <2>1 DEF Enterers
  <2>5. EnteringOK(m)'
    BY <1>1, <2>2, <2>3, OneMore DEF EInv, EnteringOK
  <2>6. \A n \in Monitors \ {m} : EnteringOK(n)'
    BY <2>2, <2>4 DEF EInv, EnteringOK
  <2> QED
    BY <1>2, <1>3, <2>5, <2>6 DEF EInv
<1> QED
  BY <1>4, <1>5

LEMMA EnteredCounts ==
    ASSUME IInv, EInv, ~SMP, NEW t \in Threads, NEW m, m = mon[t], monitorLocked(t)
    PROVE  EInv'
<1>1. TypeOK /\ m \in Monitors /\ pc[t] = "mutex"
  BY DEF IInv, TypeOK, LocalsTypeOK, monitorLocked, ThreadOK, WithMonitor
<1>2. \A u \in Threads \ {t} : pc'[u] = pc[u] /\ mon'[u] = mon[u]
  BY <1>1 DEF monitorLocked, Acquired, Goto, locals, TypeOK, LocalsTypeOK
<1>3. /\ mon' = mon /\ pc'[t] \notin {"entering", "entered", "mutex"}
      /\ entering' = [entering EXCEPT ![m] = @ - 1]
  BY <1>1 DEF monitorLocked, Acquired, Goto, SetEntering, locals, TypeOK, LocalsTypeOK
<1>4. /\ entering'[m] = entering[m] - 1
      /\ \A n \in Monitors \ {m} : entering'[n] = entering[n]
  BY <1>1, <1>3 DEF TypeOK, MonTypeOK
<1>5. Enterers(m)' = Enterers(m) \ {t} /\ t \in Enterers(m)
  BY <1>1, <1>2, <1>3 DEF Enterers
<1>6. \A n \in Monitors \ {m} : Enterers(n)' = Enterers(n)
  BY <1>1, <1>2, <1>3 DEF Enterers
<1>7. EnteringOK(m)'
  BY <1>1, <1>4, <1>5, OneLess DEF EInv, EnteringOK
<1>8. \A n \in Monitors \ {m} : EnteringOK(n)'
  BY <1>4, <1>6 DEF EInv, EnteringOK
<1> QED
  BY <1>2, <1>3, <1>7, <1>8 DEF EInv

LEMMA EnteringStays ==
    ASSUME IInv, EInv, ~SMP, NEW t \in Threads, Acts(t)
    PROVE  EInv'
<1>1. CASE monitorLock(t)
  BY <1>1, EnterCounts
<1>2. CASE monitorLocked(t)
  BY <1>2, EnteredCounts
<1>3. ASSUME entering' = entering, pc'[t] \notin {"mutex", "entering", "entered"},
             pc[t] # "mutex"
      PROVE  EInv'
  <2>1. \A u \in Threads \ {t} : Left(u) /\ pc[u] \notin {"entering", "entered"}
    BY OthersLeft DEF EInv
  <2>2. \A u \in Threads : /\ pc'[u] = "mutex" <=> pc[u] = "mutex"
                           /\ pc[u] = "mutex" => mon'[u] = mon[u]
                           /\ pc'[u] \notin {"entering", "entered"}
    BY <1>3, <2>1 DEF Left
  <2> QED
    BY <1>3, <2>2, SameEnterers
<1> DEFINE Away == /\ entering' = entering /\ pc'[t] \notin {"mutex", "entering", "entered"}
                   /\ pc[t] # "mutex"
<1>4. pc[t] \notin {"entering", "entered"}
  BY DEF EInv
<1> USE DEF objVars, tblVars, ctrVars, monVars, thrVars, locals, Goto, Return, IInv, TypeOK,
    LocalsTypeOK
<1>5. CASE \E o \in Objects :
              \/ objectUnlock(t, o)
              \/ \E c \in Calls : objectWait(t, o, c)
  BY <1>3, <1>5 DEF objectUnlock, objectWait, Begin
<1>6. CASE \E o \in Objects : objectLock(t, o)
  BY <1>3, <1>6 DEF objectLock, Begin
<1>7. ASSUME NEW o \in Objects, NEW c \in Calls, objectNotify(t, o, c) PROVE EInv'
  BY <1>3, <1>7 DEF objectNotify, Begin, NotifyOne, NotifyAll, Wake
<1>8. CASE (\E u \in Threads : threadInterrupt(t, u)) \/ leaveQueue(t)
  BY <1>3, <1>8 DEF threadInterrupt, leaveQueue
<1>9. CASE threadInterrupted(t) \/ setInterrupted(t) \/ tryMutex(t) \/ releaseMutex(t)
  BY <1>3, <1>9 DEF threadInterrupted, setInterrupted, tryMutex, releaseMutex
<1>10. CASE findMonitor(t) \/ findHashEntry(t) \/ storeEntering(t) \/ storeEntered(t)
  BY <1>3, <1>4, <1>10 DEF findMonitor, findHashEntry, Found, storeEntering, storeEntered
<1>11. CASE contend(t) \/ set_flc_bit(t) \/ compareAndSwap(t) \/ fatten(t)
  BY <1>3, <1>11 DEF contend, set_flc_bit, compareAndSwap, fatten
<1>12. CASE inflate(t) \/ notifyContender(t) \/ interruptWaiter(t)
  BY <1>3, <1>12 DEF inflate, notifyContender, interruptWaiter, NotifyOne, NotifyAll, Wake
<1>13. CASE monitorWait(t) \/ testInterrupted(t) \/ wake(t) \/ timedOut(t)
  BY <1>3, <1>13 DEF monitorWait, testInterrupted, wake, timedOut, Resume
<1>14. CASE clearInterrupted(t) \/ drainStore(t) \/ test_flc_bit(t) \/ monitorTryLock(t)
  BY <1>3, <1>14 DEF clearInterrupted, drainStore, test_flc_bit, monitorTryLock, Resume
<1>15. CASE deflate(t) \/ notInUse(t) \/ monitorUnlock(t) \/ notOwner(t)
  BY <1>3, <1>15 DEF deflate, notInUse, monitorUnlock, notOwner
<1> QED
  BY <1>1, <1>2, <1>5, <1>6, <1>7, <1>8, <1>9, <1>10, <1>11, <1>12, <1>13, <1>14, <1>15
  DEF Acts, Step

LEMMA EnteringInvariance ==
    ASSUME ~SMP
    PROVE  Spec => []EInv
<1>1. Init => EInv
  <2> SUFFICES ASSUME Init PROVE EInv
    OBVIOUS
  <2>1. ASSUME NEW m \in Monitors PROVE EnteringOK(m)
    <3>1. Enterers(m) = {} /\ entering[m] = 0
      BY DEF Init, Enterers
    <3> QED
      BY <3>1, FS_EmptySet DEF EnteringOK
  <2> QED
    BY <2>1 DEF EInv, Init
<1>2. ASSUME IInv, EInv, [Next]_vars PROVE EInv'
  <2>1. CASE Next
    <3>1. PICK t \in Threads : Acts(t)
      BY <2>1 DEF Next, Acts
    <3> QED
      BY <1>2, <3>1, EnteringStays
  <2>2. CASE UNCHANGED vars
    BY <1>2, <2>2, SameEnterers DEF EInv, vars, monVars, ctrVars, locals
  <2> QED
    BY <1>2, <2>1, <2>2
<1> QED
  BY <1>1, <1>2, Invariance, PTL DEF Spec

(* Thread t will see to it that the lock of o is thin again: it has locked *)
(* the object, or will when it gets the mutex, or is about to deflate.     *)
Keeps(t, o) ==
    \/ depth[t][o] > 0
    \/ obj[t] = o /\ call[t] = "lock" /\ pc[t] \notin {"find", "table", "enter"}
    \/ obj[t] = o /\ pc[t] = "deflate"

FatIsKept == \A o \in Objects : lock[o].fat => \E t \in Threads : Keeps(t, o)

LEMMA OthersKeepOn ==
    ASSUME IInv, LInv, NEW t \in Threads, Acts(t), NEW v \in Threads \ {t},
           NEW o \in Objects, Keeps(v, o)
    PROVE  Keeps(v, o)'
BY OthersLeft DEF Left, Keeps

(* Only objectUnlock lets go of an object.                                 *)
LEMMA LockedStays ==
    ASSUME IInv, NEW t \in Threads, Acts(t), NEW o \in Objects, depth[t][o] > 0,
           ~objectUnlock(t, o)
    PROVE  depth'[t][o] > 0
<1>1. depth \in [Threads -> [Objects -> Nat]] /\ obj[t] \in Objects
  BY DEF IInv, TypeOK, ObjTypeOK, LocalsTypeOK
<1>2. CASE \E p \in Objects : objectUnlock(t, p)
  BY <1>1, <1>2 DEF objectUnlock
<1>3. CASE depth' = depth
  BY <1>3
<1>4. ASSUME NEW p \in Objects, Locked(t, p) PROVE depth'[t][o] > 0
  BY <1>1, <1>4 DEF Locked
<1>5. \/ \E p \in Objects : objectUnlock(t, p) \/ Locked(t, p)
      \/ depth' = depth
  BY <1>1 DEF Acts, Step, objectLock, objectWait, objectNotify, threadInterrupt,
     leaveQueue, threadInterrupted, findMonitor, findHashEntry, monitorLock, storeEntering,
     monitorLocked, storeEntered, contend, set_flc_bit, compareAndSwap, inflate, fatten,
     monitorWait, testInterrupted, wake, timedOut, clearInterrupted, drainStore,
     test_flc_bit, monitorTryLock, notifyContender, deflate, notInUse, monitorUnlock,
     notOwner, setInterrupted, tryMutex, interruptWaiter, releaseMutex
<1> QED
  BY <1>2, <1>3, <1>4, <1>5

(* A contender leaves objectLock with the object locked.                   *)
LEMMA ContenderKeepsOn ==
    ASSUME IInv, LInv, NEW t \in Threads, Acts(t), call[t] = "lock",
           pc[t] \notin {"find", "table", "enter"}, NEW o, o = obj[t]
    PROVE  Keeps(t, o)'
<1> USE DEF locals, Goto, Return, Keeps
<1>1. /\ pc \in [Threads -> Labels] /\ depth \in [Threads -> [Objects -> Nat]]
      /\ o \in Objects /\ CallAt(t)
  BY DEF IInv, TypeOK, ObjTypeOK, LocalsTypeOK, LInv, ThreadLocksOK, PlaceOK
<1>2. pc[t] \in {"entering", "mutex", "entered", "loop", "set_flc", "cas", "inflate", "fatten",
                 "wait", "flag", "parked", "wake", "timeout", "interrupted"}
  BY <1>1 DEF CallAt, Waits, Labels
<1>3. CASE contend(t)
  BY <1>1, <1>3 DEF contend, Locked
<1>4. CASE storeEntering(t) \/ monitorLocked(t) \/ storeEntered(t)
  BY <1>1, <1>4 DEF storeEntering, monitorLocked, storeEntered, Acquired
<1>5. CASE set_flc_bit(t) \/ compareAndSwap(t) \/ fatten(t) \/ monitorWait(t)
  BY <1>1, <1>5 DEF set_flc_bit, compareAndSwap, fatten, monitorWait
<1>6. CASE inflate(t)
  BY <1>1, <1>6 DEF inflate, NotifyAll, Wake
<1>7. CASE testInterrupted(t) \/ wake(t) \/ timedOut(t) \/ clearInterrupted(t) \/ leaveQueue(t)
  BY <1>1, <1>7 DEF testInterrupted, wake, timedOut, clearInterrupted, leaveQueue, Resume
<1>8. CASE threadInterrupted(t)
  BY <1>2, <1>8 DEF threadInterrupted
<1> QED
  BY <1>2, <1>3, <1>4, <1>5, <1>6, <1>7, <1>8 DEF Acts, Step, objectLock, objectUnlock,
     objectWait, objectNotify, threadInterrupt, findMonitor, findHashEntry, monitorLock,
     drainStore, test_flc_bit, monitorTryLock, notifyContender, deflate, notInUse,
     monitorUnlock, notOwner, setInterrupted, tryMutex, interruptWaiter, releaseMutex

(* A thread inside a call on a Monitor, on which object it is.             *)
LEMMA MonitorsObject ==
    ASSUME LInv, NEW u \in Threads, NEW o \in Objects, TypeOK, cache[o] # Nil,
           mon[u] = cache[o], call[u] # "interrupt"
    PROVE  obj[u] = o
BY DEF LInv, TableOK, ThreadLocksOK, PlaceOK, MonAt, TypeOK, LocalsTypeOK

(* The last unlock of a fat lock deflates it, or somebody else will.       *)
LEMMA UnlockKeepsOn ==
    ASSUME IInv, LInv, EInv, Balanced, NEW t \in Threads, NEW o \in Objects,
           objectUnlock(t, o), lock'[o].fat
    PROVE  \E u \in Threads : Keeps(u, o)'
<1>1. Acts(t) /\ TypeOK
  BY DEF Acts, IInv
<1>2. /\ lock[o].fat /\ pc[t] = "idle" /\ depth[t][o] \in Nat \ {0} /\ depth'[t][o] = depth[t][o] - 1
  <2>1. lock \in [Objects -> LockWord] /\ depth \in [Threads -> [Objects -> Nat]]
    BY <1>1 DEF TypeOK, ObjTypeOK
  <2>2. depth[t][o] \in Nat \ {0} /\ depth' = [depth EXCEPT ![t][o] = @ - 1]
    BY <2>1 DEF objectUnlock, Balanced
  <2>3. pc[t] = "idle"
    BY DEF objectUnlock
  <2>4. CASE lock[o] = Thin(t, 0)
    BY <2>1, <2>4 DEF objectUnlock, Unlocked, Thin, ThinBy
  <2>5. CASE ThinBy(t, o) /\ lock' = [lock EXCEPT ![o].count = @ - 1]
    BY <2>1, <2>5 DEF ThinBy
  <2>6. CASE ~lock[o].fat /\ lock' = lock
    BY <2>6
  <2>7. lock[o].fat
    BY <2>4, <2>5, <2>6 DEF objectUnlock
  <2> QED
    BY <2>1, <2>2, <2>3, <2>7
<1> DEFINE m == cache[o]
<1>3. m # Nil /\ m \in Monitors /\ lock[o].mon = m /\ owner[m] = t
  BY <1>1, <1>2, ThinLockAssumption DEF LInv, LockShape, ThreadLocksOK, CountsOK, HeldIsSeen, OwnsFat, ThinBy, InWait,
     TypeOK, TableTypeOK, IInv, FatHasMonitor
<1>4. depth[t][o] = count[m] + 1
  BY <1>2, <1>3 DEF LInv, ThreadLocksOK, CountsOK, FatIsCounted, InTransit, Transient
<1>5. CASE count[m] > 0
  BY <1>1, <1>2, <1>3, <1>4, <1>5 DEF Keeps, TypeOK, MonTypeOK
<1>6. CASE Uncontended(m)
  BY <1>1, <1>2, <1>3, <1>6 DEF objectUnlock, Begin, Keeps, TypeOK, LocalsTypeOK, ThinBy, Thin
<1>7. ASSUME NEW u \in Threads, u # t, Keeps(u, o) PROVE \E v \in Threads : Keeps(v, o)'
  BY <1>1, <1>7, OthersKeepOn
<1>8. \A u \in Threads : CallAt(u) /\ PlaceOK(u)
  BY DEF LInv, ThreadLocksOK, PlaceOK
<1>9. CASE entering[m] # 0
  <2>1. PICK u \in Enterers(m) : TRUE
    BY <1>3, <1>9, FS_EmptySet DEF EInv, EnteringOK
  <2>2. u \in Threads /\ u # t /\ pc[u] = "mutex" /\ mon[u] = m
    BY <1>2, <2>1 DEF Enterers
  <2>3. call[u] \in Inside \cup {"lock"}
    BY <1>8, <2>2 DEF CallAt
  <2>4. obj[u] = o
    BY <1>1, <1>3, <2>2, <2>3, MonitorsObject DEF Inside, Waits
  <2>5. call[u] = "lock"
    BY <1>2, <1>8, <2>2, <2>3, <2>4 DEF PlaceOK, Before, ThinBy
  <2> QED
    BY <1>7, <2>2, <2>4, <2>5 DEF Keeps
<1>10. CASE waiting[m] # 0
  <2>1. PICK u \in Waiters(m) : TRUE
    BY <1>3, <1>10, FS_EmptySet DEF LInv, WaitersCounted
  <2>2. u \in Threads /\ u # t /\ InWait(u) /\ mon[u] = m
    BY <1>2, <2>1 DEF Waiters, InWait
  <2>3. call[u] \in Waits \cup {"lock"}
    BY <1>8, <2>2 DEF CallAt, InWait
  <2>4. obj[u] = o
    BY <1>1, <1>3, <2>2, <2>3, MonitorsObject DEF Waits
  <2>5. CASE call[u] = "lock"
    BY <1>7, <2>2, <2>4, <2>5 DEF Keeps, InWait
  <2>6. CASE call[u] # "lock"
    <3>1. depth[u][o] = save[u] + 1 /\ save[u] \in Nat
      BY <1>8, <2>2, <2>4, <2>6 DEF PlaceOK, Waiting, IInv, ThreadOK
    <3> QED
      BY <1>7, <2>2, <3>1 DEF Keeps
  <2> QED
    BY <2>5, <2>6
<1>11. count[m] \in Nat
  BY <1>1, <1>3 DEF TypeOK, MonTypeOK
<1> QED
  BY <1>5, <1>6, <1>9, <1>10, <1>11 DEF Uncontended

(* A lock word becomes fat at the hands of somebody who keeps the object,  *)
(* and thin again when it is deflated.                                     *)
LEMMA FatKept ==
    ASSUME IInv, LInv, EInv, Balanced, FatIsKept, NEW t \in Threads, Acts(t)
    PROVE  FatIsKept'
<1> SUFFICES ASSUME NEW o \in Objects, lock'[o].fat PROVE \E u \in Threads : Keeps(u, o)'
  BY DEF FatIsKept
<1>1. CASE objectUnlock(t, o)
  BY <1>1, UnlockKeepsOn
<1>2. CASE lock[o].fat /\ ~objectUnlock(t, o)
  <2>1. PICK u \in Threads : Keeps(u, o)
    BY <1>2 DEF FatIsKept
  <2>2. CASE u # t
    BY <2>1, <2>2, OthersKeepOn
  <2>3. CASE u = t /\ depth[t][o] > 0
    BY <1>2, <2>3, LockedStays DEF Keeps
  <2>4. CASE u = t /\ obj[t] = o /\ call[t] = "lock" /\ pc[t] \notin {"find", "table", "enter"}
    BY <2>4, ContenderKeepsOn
  <2>5. CASE u = t /\ obj[t] = o /\ pc[t] = "deflate"
    <3>1. deflate(t)
      BY <2>5 DEF Acts, Step, objectLock, objectUnlock, objectWait, objectNotify, threadInterrupt,
         leaveQueue, findMonitor, findHashEntry, monitorLock, storeEntering,
         monitorLocked, storeEntered, contend, set_flc_bit, compareAndSwap, inflate, fatten,
         monitorWait, testInterrupted, wake, timedOut, clearInterrupted, drainStore,
         test_flc_bit, monitorTryLock, notifyContender, notInUse, monitorUnlock,
         notOwner, setInterrupted, tryMutex, interruptWaiter, releaseMutex, threadInterrupted
    <3> QED
      BY <2>5, <3>1 DEF deflate, Unlocked, Thin, IInv, TypeOK, ObjTypeOK
  <2> QED
    BY <2>1, <2>2, <2>3, <2>4, <2>5 DEF Keeps
<1>3. CASE ~lock[o].fat /\ ~objectUnlock(t, o)
  <2>1. fatten(t) /\ obj[t] = o
    <3>1. lock \in [Objects -> LockWord] /\ o \in Objects /\ lock' # lock
      BY <1>3 DEF IInv, TypeOK, ObjTypeOK
    <3>2. ASSUME NEW p \in Objects, objectLock(t, p) \/ objectUnlock(t, p) PROVE FALSE
      <4>1. ASSUME NEW n, lock' = [lock EXCEPT ![p].count = n] PROVE FALSE
        <5>1. lock'[o] = IF p = o THEN [lock[o] EXCEPT !.count = n] ELSE lock[o]
          BY <3>1, <4>1
        <5>2. lock[o] \in LockWord
          BY <3>1
        <5> QED
          BY <1>3, <5>1, <5>2 DEF LockWord
      <4>2. CASE lock' = [lock EXCEPT ![p] = Thin(t, 0)] \/ lock' = [lock EXCEPT ![p] = Unlocked]
        BY <1>3, <3>1, <4>2 DEF Unlocked, Thin
      <4> QED
        BY <3>1, <3>2, <4>1, <4>2 DEF objectLock, objectUnlock
    <3>3. ~(compareAndSwap(t) \/ drainStore(t) \/ deflate(t))
      BY <1>3, <3>1 DEF compareAndSwap, drainStore, deflate, Unlocked, SelfPtr, Thin
    <3>4. fatten(t)
      BY <3>1, <3>2, <3>3 DEF Acts, Step, objectWait, objectNotify, threadInterrupt,
         leaveQueue, findMonitor, findHashEntry, monitorLock, storeEntering,
         monitorLocked, storeEntered, contend, set_flc_bit, inflate,
         monitorWait, testInterrupted, wake, timedOut, clearInterrupted,
         test_flc_bit, monitorTryLock, notifyContender, notInUse, monitorUnlock,
         notOwner, setInterrupted, tryMutex, interruptWaiter, releaseMutex, threadInterrupted,
         objVars
    <3> QED
      BY <1>3, <3>1, <3>4 DEF fatten
  <2>2. CASE call[t] = "lock"
    BY <2>1, <2>2, ContenderKeepsOn DEF fatten
  <2>3. CASE call[t] \in Inside
    <3>1. ThinBy(t, o)
      BY <2>1, <2>3 DEF LInv, ThreadLocksOK, PlaceOK, Inflating, fatten
    <3>2. depth[t][o] = lock[o].count + 1 /\ lock[o].count \in Nat
      BY <2>1, <3>1 DEF LInv, ThreadLocksOK, CountsOK, ThinIsCounted, fatten, IInv, TypeOK,
         ObjTypeOK, LockWord
    <3> QED
      BY <1>3, <3>2, LockedStays DEF Keeps
  <2> QED
    BY <2>1, <2>2, <2>3 DEF fatten, LInv, ThreadLocksOK, PlaceOK, CallAt
<1> QED
  BY <1>1, <1>2, <1>3

(* An object that nobody has anything to do with has a thin lock, on one   *)
(* processor: doSweep meets no fat one (alloc.c), and no Monitor leaks.    *)
THEOREM MonitorsAreGivenBack ==
    ASSUME Balanced, NeverScavenges, ~SMP
    PROVE  Spec => []AbandonedIsThin
<1>1. Init => FatIsKept
  BY DEF Init, FatIsKept, Unlocked, Thin
<1>2. ASSUME IInv, LInv, EInv, FatIsKept, [Next]_vars PROVE FatIsKept'
  <2>1. CASE Next
    <3>1. PICK t \in Threads : Acts(t)
      BY <2>1 DEF Next, Acts
    <3> QED
      BY <1>2, <3>1, FatKept
  <2>2. CASE UNCHANGED vars
    BY <1>2, <2>2 DEF FatIsKept, Keeps, vars, objVars, locals
  <2> QED
    BY <1>2, <2>1, <2>2
<1>3. LInv /\ FatIsKept => AbandonedIsThin
  BY DEF FatIsKept, Keeps, Uses, AbandonedIsThin, LInv, ThreadLocksOK, PlaceOK, CallAt
<1> QED
  BY <1>1, <1>2, <1>3, Invariance, LocksInvariance, EnteringInvariance, PTL DEF Spec

-----------------------------------------------------------------------------
(* Contenders are remembered.  On one processor, without spurious wakeups  *)
(* and for a program that neither interrupts a thread nor sets a timeout,  *)
(* a thread that has been woken takes the notification that was meant for  *)
(* it: otherwise another may, and inflate has counted a contender as woken *)
(* that parks again, on a lock that is fat by then (lock.c, 184).          *)
Calm == ~SMP /\ ~Spurious /\ Calls \cap {"timedwait", "interrupt"} = {}

Unvisited == {"entering", "entered", "timeout", "interrupted", "drain",
              "set_interrupted", "try_mutex", "got_lock", "release"}

(* A thread of such a program; it finds the contention bit as it left it,  *)
(* and nobody parks on the Monitor between its inflate and its fatten.     *)
CalmThread(t) ==
    /\ ~interrupted[t] /\ ~self_interrupting[t] /\ pc[t] \notin Unvisited
    /\ pc[t] = "cas" => flc[obj[t]]
    /\ pc[t] = "fatten" => \A u \in Threads : pc[u] = "parked" => mon[u] # mon[t]

(* With NInv: there are as many notifications as takers.                   *)
Notified(m) == Cardinality(Takers(m)) <= notifying[m]

(* A lock word that is not free has somebody to unlock or to fatten it.    *)
Fattening(u, o) == Contender(u, o) /\ pc[u] \in {"inflate", "fatten"}

WordOK(o) ==
    \/ lock[o].fat \/ lock[o] = Unlocked
    \/ \E u \in Threads : ThinBy(u, o) \/ Fattening(u, o)

(* ContenderIsRemembered, from the moment a contender decides to wait.     *)
Asleep(t, o) == Contender(t, o) /\ pc[t] \in {"wait", "flag", "parked"}

Approaching(u, o) ==
    Contender(u, o) /\ pc[u] \in {"wake", "loop", "set_flc", "cas", "inflate"}

Seen(o) ==
    \/ flc[o] /\ \E u \in Threads : ThinBy(u, o) \/ Releasing(u, o)
    \/ \E u \in Threads : Approaching(u, o)

RInv ==
    /\ \A t \in Threads : CalmThread(t)
    /\ \A m \in Monitors : Notified(m)
    /\ \A o \in Objects : WordOK(o)
    /\ \A t \in Threads, o \in Objects : Asleep(t, o) => ~lock[o].fat /\ Seen(o)

(* What is left of Next.                                                   *)
CalmActs(t) ==
    \/ \E o \in Objects :
          \/ objectLock(t, o) \/ objectUnlock(t, o)
          \/ \E c \in Calls : objectWait(t, o, c) \/ objectNotify(t, o, c)
    \/ findMonitor(t) \/ findHashEntry(t) \/ monitorLock(t) \/ monitorLocked(t)
    \/ contend(t) \/ set_flc_bit(t) \/ compareAndSwap(t) \/ inflate(t) \/ fatten(t)
    \/ monitorWait(t) \/ testInterrupted(t) \/ wake(t)
    \/ test_flc_bit(t) \/ monitorTryLock(t) \/ notifyContender(t) \/ deflate(t)
    \/ notInUse(t) \/ monitorUnlock(t) \/ notOwner(t)

LEMMA CalmStep ==
    ASSUME NInv, RInv, Calm, NEW t \in Threads, Acts(t)
    PROVE  /\ CalmActs(t)
           /\ UNCHANGED <<interrupted, self_interrupting>>
<1>1. CalmThread(t) /\ WaiterOK(t)
  BY DEF RInv, NInv
<1>2. CalmActs(t)
  BY <1>1 DEF Acts, Step, CalmActs, Calm, CalmThread, WaiterOK, Unvisited, threadInterrupt,
     leaveQueue, threadInterrupted, storeEntering, storeEntered, timedOut, clearInterrupted,
     drainStore, setInterrupted, tryMutex, interruptWaiter, releaseMutex
<1>3. UNCHANGED <<interrupted, self_interrupting>>
  BY <1>1, <1>2 DEF CalmActs, CalmThread, thrVars, objectLock, objectUnlock,
     objectWait, objectNotify, findMonitor, findHashEntry, monitorLock, monitorLocked,
     contend, set_flc_bit, compareAndSwap, inflate, fatten, monitorWait, testInterrupted,
     wake, test_flc_bit, monitorTryLock, notifyContender, deflate, notInUse, monitorUnlock,
     notOwner
<1> QED
  BY <1>2, <1>3

(* The thread that inflates owns the Monitor: nobody else is at work on it *)
(* and all that wait on it are parked or woken.                            *)
LEMMA InflaterIsAlone ==
    ASSUME IInv, LInv, NInv, NEW t \in Threads, pc[t] \in {"inflate", "fatten", "notify"},
           NEW u \in Threads \ {t}, obj[u] = obj[t] \/ mon[u] = mon[t], call[u] # "interrupt",
           mon[u] # Nil
    PROVE  /\ mon[t] \in Monitors /\ mon[u] = mon[t] /\ owner[mon[t]] = t /\ mutex[mon[t]] = t
           /\ pc[u] # "flag" /\ pc[u] \notin WithOwner
           /\ ~(pc[u] = "wait" /\ call[u] = "lock")
<1>1. /\ ThreadOK(t) /\ Owning(t) /\ ThreadOK(u) /\ Owning(u)
      /\ CallAt(t) /\ MonAt(t) /\ MonAt(u)
  BY DEF IInv, NInv, LInv, ThreadLocksOK, PlaceOK
<1>2. mon[t] \in Monitors /\ owner[mon[t]] = t
  BY <1>1 DEF ThreadOK, WithMonitor, Owning, WithOwner, IInv, TypeOK, LocalsTypeOK
<1>3. mon[u] = mon[t]
  BY <1>1, <1>2, ThinLockAssumption DEF MonAt, CallAt, Inside, Waits
<1>4. mutex[mon[t]] = t
  BY <1>2, ThinLockAssumption DEF IInv, OwnerHoldsMutex
<1> QED
  BY <1>1, <1>2, <1>3, <1>4 DEF ThreadOK, WithMutex, Owning

LEMMA CalmThreadsStay ==
    ASSUME IInv, LInv, NInv, RInv, Calm, NEW t \in Threads, Acts(t), NEW v \in Threads
    PROVE  CalmThread(v)'
<1> USE DEF IInv, TypeOK, ObjTypeOK, LocalsTypeOK
<1>1. /\ \A u \in Threads : CalmThread(u) /\ ThreadOK(u) /\ Owning(u) /\ CallAt(u)
      /\ CalmActs(t) /\ UNCHANGED <<interrupted, self_interrupting>>
  BY CalmStep DEF RInv, NInv, LInv, ThreadLocksOK, PlaceOK
<1>2. /\ pc'[v] \notin Unvisited
      /\ pc'[v] = "cas" => pc[v] = "cas" \/ (v = t /\ set_flc_bit(t))
      /\ pc'[v] = "fatten" => (pc[v] = "fatten" /\ v # t) \/ (v = t /\ inflate(t))
      /\ pc[v] = "cas" /\ v = t => pc'[v] # "cas"
  <2>1. CASE v # t
    <3>1. Left(v)
      BY <2>1, OthersLeft
    <3> QED
      BY <1>1, <2>1, <3>1 DEF Left, CalmThread, Unvisited
  <2>2. CASE v = t
    <3> USE DEF Goto, Return, CalmThread, Unvisited
    <3>1. CASE \E o \in Objects :
                  \/ objectLock(t, o) \/ objectUnlock(t, o)
                  \/ \E c \in Calls : objectWait(t, o, c)
      BY <1>1, <2>2, <3>1 DEF objectLock, objectUnlock, objectWait, Begin, Calm
    <3>2. CASE \E o \in Objects : \E c \in Calls : objectNotify(t, o, c)
      BY <1>1, <2>2, <3>2 DEF objectNotify, Begin, NotifyOne, NotifyAll, Wake
    <3>3. CASE findMonitor(t) \/ findHashEntry(t) \/ monitorLock(t) \/ monitorLocked(t)
      BY <1>1, <2>2, <3>3 DEF findMonitor, findHashEntry, monitorLock, monitorLocked, Found,
         Acquired, Calm
    <3>4. CASE contend(t) \/ set_flc_bit(t) \/ compareAndSwap(t) \/ fatten(t)
      BY <1>1, <2>2, <3>4 DEF contend, set_flc_bit, compareAndSwap, fatten
    <3>5. CASE inflate(t) \/ notifyContender(t)
      BY <1>1, <2>2, <3>5 DEF inflate, notifyContender, NotifyOne, NotifyAll, Wake
    <3>6. CASE monitorWait(t) \/ testInterrupted(t) \/ wake(t)
      BY <1>1, <2>2, <3>6 DEF monitorWait, testInterrupted, wake, Resume
    <3>7. CASE test_flc_bit(t) \/ monitorTryLock(t) \/ deflate(t)
      BY <1>1, <2>2, <3>7 DEF test_flc_bit, monitorTryLock, deflate
    <3>8. CASE notInUse(t) \/ monitorUnlock(t) \/ notOwner(t)
      BY <1>1, <2>2, <3>8 DEF notInUse, monitorUnlock, notOwner
    <3> QED
      BY <1>1, <3>1, <3>2, <3>3, <3>4, <3>5, <3>6, <3>7, <3>8 DEF CalmActs
  <2> QED
    BY <2>1, <2>2
<1>3. ASSUME pc'[v] = "cas" PROVE flc'[obj'[v]]
  <2>1. CASE v = t
    BY <1>2, <1>3, <2>1 DEF set_flc_bit, Goto, locals
  <2>2. CASE v # t
    <3>1. pc[v] = "cas" /\ flc[obj[v]] /\ obj'[v] = obj[v] /\ call[v] = "lock" /\ mon[v] # Nil
      BY <1>1, <1>2, <1>3, <2>2, OthersLeft DEF Left, CalmThread, CallAt, ThreadOK, WithMonitor
    <3>2. CASE inflate(t)
      <4>1. obj[t] # obj[v]
        BY <2>2, <3>1, <3>2, InflaterIsAlone DEF inflate, WithOwner
      <4> QED
        BY <3>1, <3>2, <4>1 DEF inflate
    <3>3. CASE flc' = flc \/ set_flc_bit(t)
      BY <3>1, <3>3 DEF set_flc_bit
    <3>4. inflate(t) \/ flc' = flc \/ set_flc_bit(t)
      BY <1>1 DEF CalmActs, objVars, objectLock, objectUnlock, objectWait, objectNotify,
         findMonitor, findHashEntry, monitorLock, monitorLocked, contend, compareAndSwap,
         fatten, monitorWait, testInterrupted, wake, test_flc_bit, monitorTryLock,
         notifyContender, deflate, notInUse, monitorUnlock, notOwner
    <3> QED
      BY <3>2, <3>3, <3>4
  <2> QED
    BY <2>1, <2>2
<1>4. ASSUME pc'[v] = "fatten", NEW u \in Threads, pc'[u] = "parked"
      PROVE  mon'[u] # mon'[v]
  <2>1. CASE v = t
    BY <1>2, <1>4, <2>1 DEF inflate, NotifyAll, Wake, Parked, locals
  <2>2. CASE v # t
    <3>1. pc[v] = "fatten" /\ mon'[v] = mon[v] /\ mon[v] \in Monitors
      BY <1>1, <1>2, <1>4, <2>2, OthersLeft DEF Left, ThreadOK, WithMonitor
    <3>2. CASE pc[u] = "parked"
      <4>1. mon'[u] = mon[u]
        <5>1. CASE u # t
          BY <5>1, OthersLeft DEF Left
        <5>2. CASE u = t
          BY <1>1, <3>2, <5>2 DEF CalmActs, objectLock, objectUnlock, objectWait, objectNotify,
             findMonitor, findHashEntry, monitorLock, monitorLocked, contend, set_flc_bit,
             compareAndSwap, inflate, fatten, monitorWait, testInterrupted, wake, test_flc_bit,
             monitorTryLock, notifyContender, deflate, notInUse, monitorUnlock, notOwner
        <5> QED
          BY <5>1, <5>2
      <4> QED
        BY <1>1, <3>1, <3>2, <4>1 DEF CalmThread
    <3>3. CASE pc[u] # "parked"
      <4>1. u = t
        BY <1>4, <3>3, OthersLeft DEF Left
      <4>2. testInterrupted(t) \/ wake(t)
        <5> USE <4>1 DEF Goto, Return
        <5>1. CASE \E o \in Objects :
                      \/ objectLock(t, o) \/ objectUnlock(t, o)
                      \/ \E c \in Calls : objectWait(t, o, c) \/ objectNotify(t, o, c)
          BY <1>4, <3>3, <5>1 DEF objectLock, objectUnlock, objectWait, objectNotify, Begin,
             NotifyOne, NotifyAll, Wake
        <5>2. CASE findMonitor(t) \/ findHashEntry(t) \/ monitorLock(t) \/ monitorLocked(t)
          BY <1>4, <3>3, <5>2 DEF findMonitor, findHashEntry, monitorLock, monitorLocked, Found,
             Acquired
        <5>3. CASE contend(t) \/ set_flc_bit(t) \/ compareAndSwap(t) \/ fatten(t)
          BY <1>4, <3>3, <5>3 DEF contend, set_flc_bit, compareAndSwap, fatten
        <5>4. CASE inflate(t) \/ notifyContender(t) \/ monitorWait(t)
          BY <1>4, <3>3, <5>4 DEF inflate, notifyContender, monitorWait, NotifyOne, NotifyAll, Wake
        <5>5. CASE \/ test_flc_bit(t) \/ monitorTryLock(t) \/ deflate(t)
                   \/ notInUse(t) \/ monitorUnlock(t) \/ notOwner(t)
          BY <1>4, <3>3, <5>5 DEF test_flc_bit, monitorTryLock, deflate, notInUse,
             monitorUnlock, notOwner
        <5> QED
          BY <1>1, <5>1, <5>2, <5>3, <5>4, <5>5 DEF CalmActs
      <4>3. mon'[t] = mon[t]
        BY <1>4, <4>1, <4>2 DEF testInterrupted, wake, Goto, Resume, Return, locals
      <4>4. owner[mon[v]] = v /\ mutex[mon[v]] = v
        BY <1>1, <3>1, ThinLockAssumption DEF Owning, WithOwner, OwnerHoldsMutex
      <4>5. mutex[mon[t]] # v
        BY <1>1, <2>2, <4>2, ThinLockAssumption DEF testInterrupted, wake, ThreadOK, WithMutex
      <4> QED
        BY <3>1, <4>1, <4>3, <4>4, <4>5
    <3> QED
      BY <3>2, <3>3
  <2> QED
    BY <2>1, <2>2
<1> QED
  BY <1>1, <1>2, <1>3, <1>4 DEF CalmThread

(* As many threads are woken as there are notifications made.              *)
LEMMA NotifyOneTells ==
    ASSUME IInv, NInv, RInv, NEW t \in Threads, NEW m \in Monitors, mutex[m] = t, ~InWait(t),
           NEW l \in OutsideWait, NotifyOne(t, m, l)
    PROVE  \A n \in Monitors : Notified(n)'
<1>1. TypeOK /\ \A n \in Monitors : CountedIn(n) /\ Notified(n)
  BY DEF IInv, NInv, RInv
<1>2. /\ IsFiniteSet(Takers(m)) /\ Cardinality(Takers(m)) \in Nat /\ notifying[m] \in Int
      /\ Cardinality(Takers(m)) <= notifying[m] /\ waiting[m] = Cardinality(Waiters(m))
      /\ interrupting[m] = 0
  <2>1. Interruptees(m) = {}
    BY DEF Interruptees, Takers, RInv, CalmThread
  <2> QED
    BY <1>1, <2>1, WaiterNumbers, FS_EmptySet DEF CountedIn, Notified
<1>3. ASSUME NEW u \in Parked(m), Wake({u}, t, l),
             notifying' = [notifying EXCEPT ![m] = @ + 1]
      PROVE  \A n \in Monitors : Notified(n)'
  <2>1. /\ Takers(m)' = Takers(m) \cup {u}
        /\ \A n \in Monitors \ {m} : Takers(n)' = Takers(n)
    BY <1>1, <1>3, TakersGrow
  <2>2. u \notin Takers(m)
    BY DEF Parked, Takers
  <2>3. Cardinality(Takers(m)') = Cardinality(Takers(m)) + 1
    BY <1>2, <2>1, <2>2, OneMore
  <2>4. notifying'[m] = notifying[m] + 1 /\ \A n \in Monitors \ {m} : notifying'[n] = notifying[n]
    BY <1>1, <1>3 DEF TypeOK, MonTypeOK
  <2>5. Notified(m)'
    BY <1>2, <2>3, <2>4 DEF Notified
  <2>6. ASSUME NEW n \in Monitors, n # m PROVE Notified(n)'
    BY <1>1, <2>1, <2>4, <2>6 DEF Notified
  <2> QED
    BY <2>5, <2>6
<1>4. CASE Parked(m) = {} /\ notifying[m] + interrupting[m] < waiting[m]
  <2>1. Waiters(m) = Takers(m)
    BY <1>4, ParkedOrWoken
  <2> QED
    BY <1>2, <1>4, <2>1
<1>5. CASE Goto(t, l) /\ UNCHANGED notifying
  <2>1. \A n : Takers(n)' = Takers(n)
    BY <1>1, <1>5 DEF Goto, locals, Takers, InWait, OutsideWait, TypeOK, LocalsTypeOK
  <2> QED
    BY <1>1, <1>5, <2>1 DEF Notified
<1> QED
  BY <1>3, <1>4, <1>5 DEF NotifyOne

LEMMA NotifyAllTells ==
    ASSUME IInv, NInv, RInv, NEW t \in Threads, NEW m \in Monitors, mutex[m] = t, ~InWait(t),
           NEW l \in OutsideWait, NotifyAll(t, m, l)
    PROVE  \A n \in Monitors : Notified(n)'
<1>1. TypeOK /\ \A n \in Monitors : CountedIn(n) /\ Notified(n)
  BY DEF IInv, NInv, RInv
<1>2. waiting[m] = Cardinality(Waiters(m)) /\ Cardinality(Waiters(m)) \in Nat /\ interrupting[m] = 0
  <2>1. Interruptees(m) = {}
    BY DEF Interruptees, Takers, RInv, CalmThread
  <2> QED
    BY <1>1, <2>1, WaiterNumbers, FS_EmptySet DEF CountedIn
<1>3. /\ Takers(m)' = Waiters(m)
      /\ \A n \in Monitors \ {m} : Takers(n)' = Takers(n)
  BY AllWoken DEF NotifyAll
<1>4. /\ notifying'[m] = waiting[m] - interrupting[m]
      /\ \A n \in Monitors \ {m} : notifying'[n] = notifying[n]
  BY <1>1 DEF NotifyAll, TypeOK, MonTypeOK
<1>5. Notified(m)'
  BY <1>2, <1>3, <1>4 DEF Notified
<1>6. ASSUME NEW n \in Monitors, n # m PROVE Notified(n)'
  BY <1>1, <1>3, <1>4, <1>6 DEF Notified
<1> QED
  BY <1>5, <1>6

(* A thread that is woken finds a notification.                            *)
LEMMA WakeTakes ==
    ASSUME IInv, NInv, RInv, NEW t \in Threads, wake(t), NEW m, m = mon[t]
    PROVE  /\ m \in Monitors /\ Out(t) /\ Resume(t)
           /\ \A n \in Monitors : Notified(n)'
<1>1. TypeOK /\ m \in Monitors /\ t \in Takers(m)
  BY DEF IInv, TypeOK, LocalsTypeOK, wake, ThreadOK, WithMonitor, Takers
<1>2. (\A n \in Monitors : CountedIn(n) /\ Notified(n)) /\ ~self_interrupting[t]
  BY DEF NInv, RInv, CalmThread
<1>3. /\ IsFiniteSet(Takers(m)) /\ Cardinality(Takers(m)) \in Nat /\ notifying[m] \in Int
      /\ Cardinality(Takers(m)) <= notifying[m]
  BY <1>1, <1>2, WaiterNumbers DEF Notified
<1>4. Cardinality(Takers(m) \ {t}) = Cardinality(Takers(m)) - 1
      /\ Cardinality(Takers(m) \ {t}) \in Nat
  BY <1>1, <1>3, FS_RemoveElement, FS_CardinalityType
<1>5. notifying[m] # 0
  BY <1>3, <1>4
<1>6. notifying' = [notifying EXCEPT ![m] = @ - 1] /\ Out(t) /\ Resume(t)
  BY <1>2, <1>5 DEF wake
<1>7. /\ Takers(m)' = Takers(m) \ {t}
      /\ \A n \in Monitors \ {m} : Takers(n)' = Takers(n)
  BY <1>1, <1>6 DEF Resume, Goto, Return, locals, Takers, TypeOK, LocalsTypeOK
<1>8. notifying'[m] = notifying[m] - 1 /\ \A n \in Monitors \ {m} : notifying'[n] = notifying[n]
  BY <1>1, <1>6 DEF TypeOK, MonTypeOK
<1>9. Notified(m)'
  BY <1>3, <1>4, <1>7, <1>8 DEF Notified
<1>10. ASSUME NEW n \in Monitors, n # m PROVE Notified(n)'
  BY <1>2, <1>7, <1>8, <1>10 DEF Notified
<1> QED
  BY <1>1, <1>6, <1>9, <1>10

LEMMA NotifiedStays ==
    ASSUME IInv, LInv, NInv, RInv, Calm, NEW t \in Threads, Acts(t)
    PROVE  \A n \in Monitors : Notified(n)'
<1> USE DEF IInv, TypeOK, LocalsTypeOK
<1>1. /\ ThreadOK(t) /\ Owning(t) /\ CalmActs(t)
      /\ \A n \in Monitors : Notified(n)
  BY CalmStep DEF RInv, NInv
<1>2. CASE wake(t)
  BY <1>2, WakeTakes
<1>3. CASE inflate(t)
  <2>1. mon[t] \in Monitors /\ mutex[mon[t]] = t /\ ~InWait(t) /\ "fatten" \in OutsideWait
    BY <1>1, <1>3, ThinLockAssumption DEF inflate, ThreadOK, WithMonitor, Owning, WithOwner,
       OwnerHoldsMutex, InWait, OutsideWait, Labels
  <2> QED
    BY <1>3, <2>1, NotifyAllTells DEF inflate
<1>4. ASSUME UNCHANGED notifying, pc[t] # "wake", pc'[t] # "wake",
             \A v \in Threads \ {t} : pc'[v] = pc[v] /\ mon'[v] = mon[v]
      PROVE  \A n \in Monitors : Notified(n)'
  <2>1. \A n : Takers(n)' = Takers(n)
    BY <1>4 DEF Takers
  <2> QED
    BY <1>1, <1>4, <2>1 DEF Notified
<1>5. CASE notifyContender(t)
  <2>1. mon[t] \in Monitors /\ mutex[mon[t]] = t /\ ~InWait(t) /\ "unlock" \in OutsideWait
    BY <1>1, <1>5, ThinLockAssumption DEF notifyContender, ThreadOK, WithMonitor, Owning,
       WithOwner, OwnerHoldsMutex, InWait, OutsideWait, Labels
  <2>2. CASE NotifyOne(t, mon[t], "unlock")
    BY <2>1, <2>2, NotifyOneTells
  <2>3. CASE Goto(t, "unlock") /\ UNCHANGED notifying
    BY <1>4, <2>1, <2>3 DEF Goto, locals, InWait
  <2> QED
    BY <1>5, <2>2, <2>3 DEF notifyContender
<1>6. ASSUME NEW o \in Objects, NEW c \in Calls, objectNotify(t, o, c)
      PROVE  \A n \in Monitors : Notified(n)'
  <2>1. ~InWait(t)
    BY <1>6 DEF objectNotify, InWait
  <2>2. CASE lock[o].fat /\ owner[lock[o].mon] = t
    <3> DEFINE m == lock[o].mon
    <3>1. m \in Monitors /\ mutex[m] = t /\ "idle" \in OutsideWait
      BY <2>2, ThinLockAssumption DEF FatHasMonitor, ObjTypeOK, LockWord, OwnerHoldsMutex,
         OutsideWait, Labels
    <3>2. NotifyOne(t, m, "idle") \/ NotifyAll(t, m, "idle")
      BY <1>6, <2>2 DEF objectNotify
    <3> HIDE DEF m
    <3> QED
      BY <2>1, <3>1, <3>2, NotifyOneTells, NotifyAllTells
  <2>3. CASE ~(lock[o].fat /\ owner[lock[o].mon] = t)
    <3>1. Begin(t, o, c, Nil, "not_owner") /\ UNCHANGED notifying
      BY <1>6, <2>3 DEF objectNotify
    <3> QED
      BY <1>4, <2>1, <3>1 DEF Begin, InWait
  <2> QED
    BY <2>2, <2>3
<1> DEFINE Quiet == /\ UNCHANGED notifying /\ pc[t] # "wake" /\ pc'[t] # "wake"
                    /\ \A v \in Threads \ {t} : pc'[v] = pc[v] /\ mon'[v] = mon[v]
<1> USE DEF monVars, ctrVars, locals, Goto, Return
<1>7. CASE \E o \in Objects :
              \/ objectLock(t, o) \/ objectUnlock(t, o)
              \/ \E c \in Calls : objectWait(t, o, c)
  <2>1. Quiet
    BY <1>7 DEF objectLock, objectUnlock, objectWait, Begin
  <2> QED
    BY <1>4, <2>1
<1>8. CASE findMonitor(t) \/ findHashEntry(t) \/ monitorLock(t) \/ monitorLocked(t)
  <2>1. Quiet
    BY <1>8 DEF findMonitor, findHashEntry, monitorLock, monitorLocked, Found, Acquired
  <2> QED
    BY <1>4, <2>1
<1>9. CASE contend(t) \/ set_flc_bit(t) \/ compareAndSwap(t) \/ fatten(t)
  <2>1. Quiet
    BY <1>9 DEF contend, set_flc_bit, compareAndSwap, fatten
  <2> QED
    BY <1>4, <2>1
<1>10. CASE monitorWait(t) \/ testInterrupted(t) \/ test_flc_bit(t) \/ monitorTryLock(t)
  <2>1. Quiet
    BY <1>10 DEF monitorWait, testInterrupted, test_flc_bit, monitorTryLock
  <2> QED
    BY <1>4, <2>1
<1>11. CASE deflate(t) \/ notInUse(t) \/ monitorUnlock(t) \/ notOwner(t)
  <2>1. Quiet
    BY <1>11 DEF deflate, notInUse, monitorUnlock, notOwner
  <2> QED
    BY <1>4, <2>1
<1> QED
  BY <1>1, <1>2, <1>3, <1>5, <1>6, <1>7, <1>8, <1>9, <1>10, <1>11 DEF CalmActs

(* How a lock word changes.                                                *)
LEMMA WordChanges ==
    ASSUME IInv, LInv, NEW t \in Threads, CalmActs(t), NEW o \in Objects, lock'[o] # lock[o]
    PROVE  \/ (lock[o] = Unlocked \/ ThinBy(t, o)) /\ ThinBy(t, o)'
           \/ lock'[o] = Unlocked /\ (lock[o].fat \/ (ThinBy(t, o) /\ Releasing(t, o)'))
           \/ compareAndSwap(t) /\ obj[t] = o /\ lock[o] = Unlocked
           \/ fatten(t) /\ obj[t] = o /\ lock'[o].fat
<1>1. /\ lock \in [Objects -> LockWord] /\ obj[t] \in Objects /\ pc \in [Threads -> Labels]
      /\ call \in [Threads -> AllCalls \cup {"none", "overflow", "unlock"}]
      /\ obj \in [Threads -> Objects]
  BY DEF IInv, TypeOK, ObjTypeOK, LocalsTypeOK
<1>2. ASSUME NEW p \in Objects, objectLock(t, p)
      PROVE  (lock[o] = Unlocked \/ ThinBy(t, o)) /\ ThinBy(t, o)'
  <2>1. CASE lock[p] = Unlocked /\ lock' = [lock EXCEPT ![p] = Thin(t, 0)]
    BY <1>1, <2>1 DEF Thin, ThinBy
  <2>2. CASE ThinBy(t, p) /\ lock' = [lock EXCEPT ![p].count = @ + 1]
    <3>1. p = o /\ lock'[o] = [lock[o] EXCEPT !.count = @ + 1] /\ lock[o] \in LockWord
      BY <1>1, <2>2
    <3> QED
      BY <2>2, <3>1 DEF ThinBy, LockWord
  <2> QED
    BY <1>2, <2>1, <2>2 DEF objectLock
<1>3. ASSUME NEW p \in Objects, objectUnlock(t, p)
      PROVE  \/ ThinBy(t, o) /\ ThinBy(t, o)'
             \/ lock'[o] = Unlocked /\ ThinBy(t, o) /\ Releasing(t, o)'
  <2>1. CASE /\ lock[p] = Thin(t, 0) /\ lock' = [lock EXCEPT ![p] = Unlocked]
             /\ Begin(t, p, "unlock", Nil, "test_flc")
    BY <1>1, <2>1 DEF Thin, ThinBy, Releasing, Begin
  <2>2. CASE ThinBy(t, p) /\ lock' = [lock EXCEPT ![p].count = @ - 1]
    <3>1. p = o /\ lock'[o] = [lock[o] EXCEPT !.count = @ - 1] /\ lock[o] \in LockWord
      BY <1>1, <2>2
    <3> QED
      BY <2>2, <3>1 DEF ThinBy, LockWord
  <2> QED
    BY <1>3, <2>1, <2>2 DEF objectUnlock
<1>4. CASE compareAndSwap(t)
  BY <1>1, <1>4 DEF compareAndSwap
<1>5. CASE fatten(t)
  BY <1>1, <1>5 DEF fatten, Fat
<1>6. CASE deflate(t)
  BY <1>1, <1>6 DEF deflate, LInv, ThreadLocksOK, PlaceOK, Unlocking
<1>7. \/ \E p \in Objects : objectLock(t, p) \/ objectUnlock(t, p)
      \/ compareAndSwap(t) \/ fatten(t) \/ deflate(t)
  BY DEF CalmActs, objVars, objectWait, objectNotify, findMonitor, findHashEntry, monitorLock,
     monitorLocked, contend, set_flc_bit, inflate, monitorWait, testInterrupted, wake,
     test_flc_bit, monitorTryLock, notifyContender, notInUse, monitorUnlock, notOwner
<1> QED
  BY <1>2, <1>3, <1>4, <1>5, <1>6, <1>7

(* The word of a thin lock is its holder's.                                *)
LEMMA ThinWordStays ==
    ASSUME IInv, LInv, NEW t \in Threads, CalmActs(t), NEW o \in Objects,
           NEW u \in Threads, ThinBy(u, o), ~lock'[o].fat
    PROVE  ThinBy(u, o)' \/ Releasing(u, o)'
<1>1. lock[o] # Unlocked /\ ~lock[o].fat
  BY ThinLockAssumption DEF ThinBy, Unlocked, Thin
<1>2. CASE lock'[o] = lock[o]
  BY <1>2 DEF ThinBy
<1>3. CASE ThinBy(t, o)
  <2>1. u = t
    BY <1>3 DEF ThinBy
  <2> QED
    BY <1>1, <1>2, <2>1, WordChanges
<1> QED
  BY <1>1, <1>2, <1>3, WordChanges

LEMMA WordStaysOK ==
    ASSUME IInv, LInv, NInv, RInv, Calm, NEW t \in Threads, Acts(t), NEW o \in Objects
    PROVE  WordOK(o)'
<1>1. CalmActs(t) /\ WordOK(o) /\ CallAt(t) /\ pc \in [Threads -> Labels]
  BY CalmStep DEF RInv, LInv, ThreadLocksOK, PlaceOK, IInv, TypeOK, LocalsTypeOK
<1>2. CASE lock'[o] # lock[o]
  <2>1. CASE compareAndSwap(t) /\ obj[t] = o /\ lock[o] = Unlocked
    BY <1>1, <2>1 DEF compareAndSwap, Goto, locals, WordOK, Fattening, Contender, CallAt
  <2> QED
    BY <1>1, <1>2, <2>1, WordChanges DEF WordOK
<1>3. CASE lock'[o] = lock[o]
  <2>1. ASSUME NEW u \in Threads, Fattening(u, o) PROVE WordOK(o)'
    <3>1. CASE u # t
      <4>1. Left(u)
        BY <3>1, OthersLeft
      <4> QED
        BY <2>1, <4>1 DEF Left, Fattening, Contender, WordOK
    <3>2. CASE u = t /\ pc[t] = "inflate"
      <4>1. inflate(t)
        BY <1>1, <3>2 DEF CalmActs, objectLock, objectUnlock, objectWait, objectNotify,
           findMonitor, findHashEntry, monitorLock, monitorLocked, contend, set_flc_bit,
           compareAndSwap, fatten, monitorWait, testInterrupted, wake, test_flc_bit,
           monitorTryLock, notifyContender, deflate, notInUse, monitorUnlock, notOwner
      <4> QED
        BY <2>1, <3>2, <4>1 DEF inflate, NotifyAll, Wake, locals, Fattening, Contender, WordOK
    <3>3. CASE u = t /\ pc[t] = "fatten"
      <4>1. fatten(t)
        BY <1>1, <3>3 DEF CalmActs, objectLock, objectUnlock, objectWait, objectNotify,
           findMonitor, findHashEntry, monitorLock, monitorLocked, contend, set_flc_bit,
           compareAndSwap, inflate, monitorWait, testInterrupted, wake, test_flc_bit,
           monitorTryLock, notifyContender, deflate, notInUse, monitorUnlock, notOwner
      <4>2. lock'[o].fat
        BY <2>1, <3>3, <4>1 DEF fatten, Fattening, Contender, Fat, IInv, TypeOK, ObjTypeOK
      <4> QED
        BY <4>2 DEF WordOK
    <3> QED
      BY <2>1, <3>1, <3>2, <3>3 DEF Fattening
  <2> QED
    BY <1>1, <1>3, <2>1 DEF WordOK, ThinBy
<1> QED
  BY <1>2, <1>3

(* A contender that does not get the lock leaves the contention bit to a   *)
(* thread that has it: it is not being inflated, as that takes the Monitor.*)
LEMMA FailedContender ==
    ASSUME IInv, LInv, NInv, RInv, NEW t \in Threads, compareAndSwap(t), NEW o, o = obj[t],
           lock[o] # Unlocked
    PROVE  /\ ~lock[o].fat /\ flc'[o]
           /\ \E u \in Threads : ThinBy(u, o) /\ ThinBy(u, o)'
<1>1. /\ pc[t] = "cas" /\ UNCHANGED <<lock, flc>> /\ o \in Objects
      /\ CallAt(t) /\ Inflating(t) /\ ThreadOK(t) /\ Owning(t)
      /\ CalmThread(t) /\ WordOK(o) /\ ~lock[o].fat
  BY DEF compareAndSwap, IInv, TypeOK, LocalsTypeOK, LInv, ThreadLocksOK, PlaceOK, Inflating,
     NInv, RInv
<1>2. ASSUME NEW u \in Threads, Fattening(u, o) PROVE FALSE
  <2>1. pc[u] \in {"inflate", "fatten"} /\ obj[u] = o /\ t # u
    BY <1>1, <1>2 DEF Fattening, Contender
  <2>2. call[t] # "interrupt" /\ mon[t] # Nil
    BY <1>1 DEF CallAt, ThreadOK, WithMonitor
  <2> QED
    BY <1>1, <2>1, <2>2, InflaterIsAlone DEF WithOwner
<1> QED
  BY <1>1, <1>2 DEF CalmThread, WordOK, ThinBy

(* Nobody fattens a lock while a contender sleeps, and whoever is about to *)
(* wakes it first.                                                         *)
LEMMA SleeperIsParked ==
    ASSUME IInv, LInv, NInv, NEW t \in Threads, pc[t] \in {"inflate", "fatten", "notify"},
           NEW v \in Threads, NEW o \in Objects, obj[t] = o, Asleep(v, o)
    PROVE  pc[v] = "parked" /\ mon[v] = mon[t] /\ mon[t] \in Monitors /\ mutex[mon[t]] = t
<1>1. v # t /\ obj[v] = obj[t] /\ call[v] = "lock" /\ pc[v] \in {"wait", "flag", "parked"}
  BY DEF Asleep, Contender
<1>2. mon[v] # Nil
  BY <1>1 DEF IInv, ThreadOK, WithMonitor
<1> QED
  BY <1>1, <1>2, InflaterIsAlone

LEMMA SleepersLockIsThin ==
    ASSUME IInv, LInv, NInv, RInv, NEW t \in Threads, CalmActs(t), NEW v \in Threads,
           NEW o \in Objects, Asleep(v, o)
    PROVE  ~lock'[o].fat
<1>1. ~lock[o].fat /\ CalmThread(t)
  BY DEF RInv
<1>2. CASE lock'[o] = lock[o]
  BY <1>1, <1>2
<1>3. ~(fatten(t) /\ obj[t] = o)
  BY <1>1, SleeperIsParked DEF fatten, CalmThread
<1>4. CASE lock'[o] = Unlocked \/ ThinBy(t, o)'
  BY <1>4 DEF Unlocked, Thin, ThinBy
<1>5. CASE compareAndSwap(t) /\ obj[t] = o
  BY <1>1, <1>5 DEF compareAndSwap, SelfPtr, Thin, IInv, TypeOK, ObjTypeOK
<1> QED
  BY <1>1, <1>2, <1>3, <1>4, <1>5, WordChanges

(* The contender that inflates the lock has no sleeper left.               *)
LEMMA InflateWakesSleepers ==
    ASSUME IInv, LInv, NInv, NEW t \in Threads, inflate(t), NEW v \in Threads,
           NEW o \in Objects, obj[t] = o, Asleep(v, o)
    PROVE  ~Asleep(v, o)'
<1>1. pc[v] = "parked" /\ mon[v] = mon[t]
  BY SleeperIsParked DEF inflate
<1>2. pc'[v] = "fatten" \/ pc'[v] = "wake"
  BY <1>1 DEF inflate, NotifyAll, Wake, Parked
<1> QED
  BY <1>2 DEF Asleep

(* The contention bit stays set while somebody sleeps.                     *)
LEMMA BitStays ==
    ASSUME IInv, LInv, NInv, RInv, NEW t \in Threads, CalmActs(t), NEW v \in Threads,
           NEW o \in Objects, Asleep(v, o), Asleep(v, o)', flc[o]
    PROVE  flc'[o]
<1>1. ~(inflate(t) /\ obj[t] = o)
  BY InflateWakesSleepers
<1>2. flc \in [Objects -> BOOLEAN] /\ obj[t] \in Objects
  BY DEF IInv, TypeOK, ObjTypeOK, LocalsTypeOK
<1> QED
  BY <1>1, <1>2 DEF CalmActs, objVars, objectLock, objectUnlock, objectWait, objectNotify,
     findMonitor, findHashEntry, monitorLock, monitorLocked, contend, set_flc_bit,
     compareAndSwap, inflate, fatten, monitorWait, testInterrupted, wake, test_flc_bit,
     monitorTryLock, notifyContender, deflate, notInUse, monitorUnlock, notOwner

(* The releasing thread finds the bit and wakes a contender: all who wait  *)
(* on the Monitor of a thin lock are contenders.                           *)
LEMMA ReleaserWakesOne ==
    ASSUME IInv, LInv, NInv, RInv, NEW t \in Threads, notifyContender(t), NEW v \in Threads,
           NEW o \in Objects, obj[t] = o, Asleep(v, o), flc[o]
    PROVE  \E u \in Threads : Approaching(u, o)'
<1> DEFINE m == mon[t]
<1>1. /\ pc[t] = "notify" /\ pc[v] = "parked" /\ mon[v] = m /\ m \in Monitors
      /\ NotifyOne(t, m, "unlock") /\ ~lock[o].fat
  BY SleeperIsParked DEF notifyContender, RInv
<1>2. CountedIn(m) /\ Notified(m) /\ TypeOK
  BY <1>1 DEF NInv, RInv, IInv
<1>3. notifying[m] + interrupting[m] < waiting[m]
  <2>1. v \in Waiters(m) \ Takers(m)
    BY <1>1 DEF Waiters, Takers, InWait
  <2>2. Cardinality(Takers(m)) # Cardinality(Waiters(m)) /\ IsFiniteSet(Waiters(m))
    BY <1>2, <2>1, WaiterSets, FS_Subset DEF CountedIn
  <2>3. /\ Cardinality(Takers(m)) <= Cardinality(Waiters(m))
        /\ Cardinality(Takers(m)) \in Nat /\ Cardinality(Waiters(m)) \in Nat
        /\ waiting[m] = Cardinality(Waiters(m))
        /\ notifying[m] + interrupting[m] <= Cardinality(Takers(m))
        /\ notifying[m] \in Int /\ interrupting[m] \in Int
    BY <1>1, <1>2, WaiterNumbers DEF CountedIn
  <2> QED
    BY <2>2, <2>3
<1>4. PICK u \in Parked(m) : Wake({u}, t, "unlock")
  <2>1. /\ notifying[m] \in Int /\ interrupting[m] \in Int /\ waiting[m] \in Int
        /\ v \in Parked(m)
    BY <1>1, <1>2 DEF TypeOK, MonTypeOK, Parked
  <2>2. ~(notifying[m] + interrupting[m] >= waiting[m])
    BY <1>3, <2>1
  <2> QED
    BY <1>1, <2>1, <2>2 DEF NotifyOne
<1>5. u \in Threads /\ pc[u] = "parked" /\ mon[u] = m /\ u # t
  BY <1>1, <1>4 DEF Parked
<1>6. /\ CallAt(u) /\ MonAt(t) /\ MonAt(u) /\ Waiting(u) /\ CallAt(t)
  BY <1>5 DEF LInv, ThreadLocksOK, PlaceOK
<1>7. obj[u] = o
  <2>1. cache[o] = m /\ m # Nil
    BY <1>1, <1>6, ThinLockAssumption DEF MonAt, CallAt
  <2> QED
    BY <1>2, <1>5, <1>6, <2>1, MonitorsObject DEF CallAt, Waits
<1>8. call[u] = "lock"
  BY <1>1, <1>5, <1>6, <1>7 DEF Waiting, InWait
<1>9. pc'[u] = "wake" /\ call'[u] = call[u] /\ obj'[u] = obj[u]
  BY <1>4, <1>5 DEF Wake, locals
<1> QED
  BY <1>5, <1>7, <1>8, <1>9 DEF Approaching, Contender

(* A releasing thread that sees the bit goes on until it has woken one.    *)
LEMMA ReleaserGoesOn ==
    ASSUME IInv, LInv, NInv, RInv, NEW t \in Threads, Acts(t), CalmActs(t), NEW v \in Threads,
           NEW o \in Objects, Asleep(v, o), flc[o], NEW u \in Threads, Releasing(u, o)
    PROVE  Releasing(u, o)' \/ \E w \in Threads : Approaching(w, o)'
<1> USE DEF Releasing
<1>1. CASE u # t
  BY <1>1, OthersLeft DEF Left
<1>2. CASE u = t
  <2> USE <1>2 DEF Goto, locals
  <2>1. pc \in [Threads -> Labels] /\ mon \in [Threads -> Monitors \cup {Nil}]
    BY DEF IInv, TypeOK, LocalsTypeOK
  <2>2. CASE notifyContender(t)
    BY <2>2, ReleaserWakesOne
  <2>3. CASE findMonitor(t) \/ findHashEntry(t)
    BY <2>1, <2>3 DEF findMonitor, findHashEntry, Found
  <2>4. CASE test_flc_bit(t) \/ monitorTryLock(t)
    BY <2>1, <2>4 DEF test_flc_bit, monitorTryLock
  <2>5. \/ notifyContender(t) \/ findMonitor(t) \/ findHashEntry(t)
        \/ test_flc_bit(t) \/ monitorTryLock(t)
    BY DEF CalmActs, objectLock, objectUnlock, objectWait, objectNotify, monitorLock,
       monitorLocked, contend, set_flc_bit, compareAndSwap, inflate, fatten, monitorWait,
       testInterrupted, wake, deflate, notInUse, monitorUnlock, notOwner
  <2> QED
    BY <2>2, <2>3, <2>4, <2>5
<1> QED
  BY <1>1, <1>2

(* A contender that is up goes on to take the lock, or leaves its bit.     *)
LEMMA ContenderGoesOn ==
    ASSUME IInv, LInv, NInv, RInv, NEW t \in Threads, Acts(t), CalmActs(t), NEW v \in Threads,
           NEW o \in Objects, Asleep(v, o), Asleep(v, o)', NEW u \in Threads, Approaching(u, o)
    PROVE  Seen(o)'
<1> USE DEF Approaching, Contender, Seen
<1>1. CASE u # t
  BY <1>1, OthersLeft DEF Left
<1>2. CASE u = t
  <2> USE <1>2 DEF Goto, locals
  <2>1. pc \in [Threads -> Labels] /\ ~lock[o].fat
    BY DEF IInv, TypeOK, LocalsTypeOK, RInv
  <2>2. CASE wake(t)
    <3>1. Resume(t)
      BY <2>2, WakeTakes
    <3> QED
      BY <2>1, <2>2, <3>1 DEF Resume
  <2>3. CASE contend(t) \/ set_flc_bit(t)
    BY <2>1, <2>3 DEF contend, set_flc_bit
  <2>4. CASE compareAndSwap(t) /\ lock[o] = Unlocked
    BY <2>1, <2>4 DEF compareAndSwap
  <2>5. CASE compareAndSwap(t) /\ lock[o] # Unlocked
    BY <2>5, FailedContender
  <2>6. ~inflate(t)
    BY InflateWakesSleepers
  <2>7. wake(t) \/ contend(t) \/ set_flc_bit(t) \/ compareAndSwap(t) \/ inflate(t)
    BY DEF CalmActs, objectLock, objectUnlock, objectWait, objectNotify, findMonitor,
       findHashEntry, monitorLock, monitorLocked, fatten, monitorWait, testInterrupted,
       test_flc_bit, monitorTryLock, notifyContender, deflate, notInUse, monitorUnlock, notOwner
  <2> QED
    BY <2>2, <2>3, <2>4, <2>5, <2>6, <2>7
<1> QED
  BY <1>1, <1>2

(* A thread falls asleep when it did not get the lock.                     *)
LEMMA FallsAsleep ==
    ASSUME IInv, LInv, NInv, RInv, NEW t \in Threads, Acts(t), CalmActs(t), NEW v \in Threads,
           NEW o \in Objects, ~Asleep(v, o), Asleep(v, o)'
    PROVE  v = t /\ compareAndSwap(t) /\ obj[t] = o /\ lock[o] # Unlocked
<1> USE DEF Asleep, Contender
<1>1. v = t
  BY OthersLeft DEF Left
<1>2. pc \in [Threads -> Labels] /\ call \in [Threads -> AllCalls \cup {"none", "overflow", "unlock"}]
      /\ obj \in [Threads -> Objects]
  BY DEF IInv, TypeOK, LocalsTypeOK
<1> USE <1>1, <1>2 DEF Goto, Return, locals
<1>3. CASE \E p \in Objects :
              \/ objectLock(t, p) \/ objectUnlock(t, p)
              \/ \E c \in Calls : objectWait(t, p, c) \/ objectNotify(t, p, c)
  <2>1. pc[t] = "idle"
    BY <1>3 DEF objectLock, objectUnlock, objectWait, objectNotify
  <2>2. pc'[t] \notin {"wait", "flag", "parked"} \/ call'[t] # "lock"
    BY <1>3, <2>1 DEF objectLock, objectUnlock, objectWait, objectNotify, Begin, NotifyOne,
       NotifyAll, Wake
  <2> QED
    BY <2>2
<1>4. CASE findMonitor(t) \/ findHashEntry(t) \/ monitorLock(t) \/ monitorLocked(t)
  BY <1>4 DEF findMonitor, findHashEntry, monitorLock, monitorLocked, Found, Acquired
<1>5. CASE contend(t) \/ set_flc_bit(t) \/ fatten(t)
  BY <1>5 DEF contend, set_flc_bit, fatten
<1>6. CASE compareAndSwap(t)
  BY <1>6 DEF compareAndSwap
<1>7. CASE inflate(t) \/ notifyContender(t)
  BY <1>7 DEF inflate, notifyContender, NotifyOne, NotifyAll, Wake
<1>8. CASE monitorWait(t) \/ testInterrupted(t)
  BY <1>8 DEF monitorWait, testInterrupted
<1>9. CASE wake(t)
  <2>1. Resume(t)
    BY <1>9, WakeTakes
  <2> QED
    BY <1>9, <2>1 DEF wake, Resume
<1>10. CASE test_flc_bit(t) \/ monitorTryLock(t) \/ deflate(t)
  BY <1>10 DEF test_flc_bit, monitorTryLock, deflate
<1>11. CASE notInUse(t) \/ monitorUnlock(t) \/ notOwner(t)
  BY <1>11 DEF notInUse, monitorUnlock, notOwner
<1> QED
  BY <1>3, <1>4, <1>5, <1>6, <1>7, <1>8, <1>9, <1>10, <1>11 DEF CalmActs

LEMMA SleepersStaySeen ==
    ASSUME IInv, LInv, NInv, RInv, Calm, NEW t \in Threads, Acts(t), NEW v \in Threads,
           NEW o \in Objects, Asleep(v, o)'
    PROVE  ~lock'[o].fat /\ Seen(o)'
<1>1. CalmActs(t)
  BY CalmStep
<1>2. CASE ~Asleep(v, o)
  <2>1. compareAndSwap(t) /\ obj[t] = o /\ lock[o] # Unlocked
    BY <1>1, <1>2, FallsAsleep
  <2> QED
    BY <2>1, FailedContender DEF Seen, ThinBy
<1>3. CASE Asleep(v, o)
  <2>1. ~lock'[o].fat /\ Seen(o)
    BY <1>1, <1>3, SleepersLockIsThin DEF RInv
  <2>2. ASSUME flc[o], NEW u \in Threads, ThinBy(u, o) PROVE Seen(o)'
    BY <1>1, <1>3, <2>1, <2>2, BitStays, ThinWordStays DEF Seen
  <2>3. ASSUME flc[o], NEW u \in Threads, Releasing(u, o) PROVE Seen(o)'
    BY <1>1, <1>3, <2>3, BitStays, ReleaserGoesOn DEF Seen
  <2>4. ASSUME NEW u \in Threads, Approaching(u, o) PROVE Seen(o)'
    BY <1>1, <1>3, <2>4, ContenderGoesOn
  <2> QED
    BY <2>1, <2>2, <2>3, <2>4 DEF Seen
<1> QED
  BY <1>2, <1>3

(* While a contender is parked in objectLock somebody will find it: the    *)
(* holder, by the contention bit, or a contender that is about to inflate  *)
(* the lock.  So no wakeup is lost between the test of the lock word and   *)
(* pthread_cond_wait (lock.c, objectLock and objectUnlock).                *)
THEOREM ContendersAreRemembered ==
    ASSUME Balanced, NeverScavenges, Calm
    PROVE  Spec => []ContenderIsRemembered
<1>1. Init => RInv
  <2> SUFFICES ASSUME Init PROVE RInv
    OBVIOUS
  <2>1. \A t \in Threads : CalmThread(t) /\ \A o \in Objects : ~Asleep(t, o)
    BY DEF Init, CalmThread, Asleep, Unvisited
  <2>2. ASSUME NEW m \in Monitors PROVE Notified(m)
    <3>1. Takers(m) = {} /\ notifying[m] = 0
      BY DEF Init, Takers
    <3> QED
      BY <3>1, FS_EmptySet DEF Notified
  <2>3. \A o \in Objects : WordOK(o)
    BY DEF Init, WordOK
  <2> QED
    BY <2>1, <2>2, <2>3 DEF RInv
<1>2. ASSUME IInv, LInv, NInv, RInv, [Next]_vars PROVE RInv'
  <2>1. CASE Next
    <3>1. PICK t \in Threads : Acts(t)
      BY <2>1 DEF Next, Acts
    <3>2. \A v \in Threads : CalmThread(v)'
      BY <1>2, <3>1, CalmThreadsStay
    <3>3. \A m \in Monitors : Notified(m)'
      BY <1>2, <3>1, NotifiedStays
    <3>4. \A o \in Objects : WordOK(o)'
      BY <1>2, <3>1, WordStaysOK
    <3>5. \A v \in Threads, o \in Objects : Asleep(v, o)' => ~lock'[o].fat /\ Seen(o)'
      BY <1>2, <3>1, SleepersStaySeen
    <3> QED
      BY <3>2, <3>3, <3>4, <3>5 DEF RInv
  <2>2. CASE UNCHANGED vars
    <3> USE <2>2 DEF vars, objVars, monVars, ctrVars, thrVars, locals
    <3>1. \A v \in Threads : CalmThread(v)'
      BY <1>2 DEF RInv, CalmThread
    <3>2. \A m \in Monitors : Notified(m)'
      <4>1. \A m : Takers(m)' = Takers(m)
        BY DEF Takers
      <4> QED
        BY <1>2, <4>1 DEF RInv, Notified
    <3>3. \A o \in Objects : WordOK(o)'
      BY <1>2 DEF RInv, WordOK, ThinBy, Fattening, Contender
    <3>4. \A v \in Threads, o \in Objects : Asleep(v, o)' => ~lock'[o].fat /\ Seen(o)'
      BY <1>2 DEF RInv, Asleep, Seen, ThinBy, Releasing, Approaching, Contender
    <3> QED
      BY <3>1, <3>2, <3>3, <3>4 DEF RInv
  <2> QED
    BY <1>2, <2>1, <2>2
<1>3. RInv => ContenderIsRemembered
  BY DEF RInv, Asleep, Seen, Approaching, ContenderIsRemembered
<1>4. Calm => NoTimedWait
  BY DEF Calm, NoTimedWait
<1> QED
  BY <1>1, <1>2, <1>3, <1>4, Invariance, LocksInvariance, WaitersInvariance, PTL DEF Spec

===============================================================================
