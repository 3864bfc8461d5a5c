---------------------------- MODULE ThinLockSafety ----------------------------
(***************************************************************************)
(* Proofs about ThinLock, for any number of threads, objects and Monitors. *)
(*                                                                         *)
(* First, that every variable has its type and that the owner of a Monitor *)
(* holds its mutex, for any table size and whatever the program calls.     *)
(* Then that a Monitor stays with its object while the table is scavenged, *)
(* when one thread works on it.                                            *)
(* Last, that the object locks of lock.c exclude one another and that no   *)
(* lock is lost or won, for any depth of recursive locks, with delayed     *)
(* stores or without, spurious wakeups or none.  This is about programs    *)
(* that unlock what they have locked, with a table of Monitors that has    *)
(* room for every object: a Monitor that is scavenged between findMonitor  *)
(* and entering++ does fall to another object.                             *)
(***************************************************************************)
EXTENDS ThinLock, FiniteSetTheorems, TLAPS

(* Where in lock.c a thread has a Monitor in mon, and where it holds its   *)
(* mutex though another thread may be the one in mon->owner, or nobody.    *)
WithMonitor == {"enter", "entering", "mutex", "entered", "loop", "set_flc",
                "cas", "inflate", "fatten", "wait", "flag", "parked", "wake",
                "timeout", "interrupted", "trylock", "notify", "deflate",
                "unused", "unlock", "try_mutex", "got_lock", "release"}

WithMutex == {"entered", "flag", "got_lock", "release"}

(* What the local variables of a thread hold where it is: a Monitor, the   *)
(* saved recursion count of a wait, and the mutex, which monitorWait keeps *)
(* until it parks and after it has given up mon->owner.                    *)
ThreadOK(t) ==
    /\ pc[t] \in WithMonitor => mon[t] # Nil
    /\ InWait(t) => save[t] \in Nat
    /\ pc[t] \in WithMutex => mutex[mon[t]] = t
    /\ pc[t] = "flag" => owner[mon[t]] = Nil

(* A lock word whose shape bit is set holds a Monitor, so that the thread  *)
(* that follows it has one.                                                *)
FatHasMonitor == \A o \in Objects : lock[o].fat => lock[o].mon # Nil

(* The inductive invariant.  OwnerHoldsMutex is not inductive alone: that  *)
(* the thread which sets mon->owner holds the mutex depends on where it    *)
(* is, and that it has a Monitor at all on the lock word it came from.     *)
IInv == TypeOK /\ (\A t \in Threads : ThreadOK(t)) /\ FatHasMonitor /\ OwnerHoldsMutex

(* A step of a thread to another label keeps the types of its local        *)
(* variables.                                                              *)
LEMMA GotoType ==
    ASSUME LocalsTypeOK, NEW t \in Threads, NEW l \in Labels, Goto(t, l)
    PROVE  LocalsTypeOK'
BY DEF LocalsTypeOK, Goto, locals

(* The return from a call of lock.c keeps the types of the local           *)
(* variables.                                                              *)
LEMMA ReturnType ==
    ASSUME LocalsTypeOK, NEW t \in Threads, Return(t)
    PROVE  LocalsTypeOK'
BY DEF LocalsTypeOK, Return, Labels

(* findMonitor returns a Monitor, or none: the local variables keep their  *)
(* types.                                                                  *)
LEMMA FoundType ==
    ASSUME LocalsTypeOK, NEW t \in Threads, NEW m \in Monitors \cup {Nil}, Found(t, m)
    PROVE  LocalsTypeOK'
BY DEF LocalsTypeOK, Found, Labels

(* Threads that are woken, by pthread_cond_signal or by a broadcast, keep  *)
(* the types of their local variables.                                     *)
LEMMA WakeType ==
    ASSUME LocalsTypeOK, NEW t \in Threads, NEW l \in Labels, NEW W, Wake(W, t, l)
    PROVE  LocalsTypeOK'
BY DEF LocalsTypeOK, Wake, Labels, locals

(* A call that starts, or one of lock.c's functions that calls another,    *)
(* sets the local variables to values of their types.                      *)
LEMMA BeginType ==
    ASSUME LocalsTypeOK, NEW t \in Threads, NEW o \in Objects,
           NEW c \in AllCalls \cup {"none", "overflow", "unlock"},
           NEW m \in Monitors \cup {Nil}, NEW l \in Labels, Begin(t, o, c, m, l)
    PROVE  LocalsTypeOK'
BY DEF LocalsTypeOK, Begin

(* The words that lock.c writes into obj->lock are thin or fat lock words. *)
LEMMA LockWordType ==
    /\ Unlocked \in LockWord /\ SelfPtr \in LockWord
    /\ \A t \in Threads : Thin(t, 0) \in LockWord
    /\ \A m \in Monitors : Fat(m) \in LockWord
BY DEF LockWord, Unlocked, SelfPtr, Thin, Fat

(* Counting a lock for the properties keeps the depth a number.            *)
LEMMA LockedType ==
    ASSUME ObjTypeOK, NEW t \in Threads, NEW o \in Objects, Locked(t, o)
    PROVE  depth' \in [Threads -> [Objects -> Nat]]
BY DEF ObjTypeOK, Locked

(* A new entry of the table of Monitors, with the scavenging or the growth *)
(* it may lead to (hash.h), keeps the types of the table and of the free   *)
(* list, and is a Monitor.                                                 *)
LEMMA EntryType ==
    ASSUME TableTypeOK, NEW o \in Objects, NEW m \in allocMonitor, addEntry(o, m)
    PROVE  m \in Monitors /\ TableTypeOK'
<1> DEFINE table == [cache EXCEPT ![o] = m]
           used  == IF m \in fresh THEN [in_use EXCEPT ![m] = TRUE] ELSE in_use
           list  == free_list \ {m}
<1>1. m \in Monitors
  BY DEF allocMonitor, TableTypeOK
<1>2. /\ table \in [Objects -> Monitors \cup {Nil}]
      /\ used \in [Monitors -> BOOLEAN] /\ list \subseteq Monitors
      /\ fresh' \subseteq Monitors
  BY <1>1 DEF addEntry, TableTypeOK
<1>3. CASE /\ cache' = table /\ in_use' = used /\ free_list' = list
           /\ UNCHANGED hash_size
  BY <1>1, <1>2, <1>3 DEF TableTypeOK
<1>4. CASE scavenge(table, used, list)
  <2> HIDE DEF table, used, list
  <2> DEFINE entries == {p \in Objects : table[p] # Nil}
  <2>1. PICK seen \in SUBSET entries :
          LET dead  == {p \in seen : ~used[table[p]]}
              freed == {table[p] : p \in dead}
          IN  /\ cache' = [p \in Objects |-> IF p \in dead THEN Nil
                                                           ELSE table[p]]
              /\ free_list' = list \cup freed
              /\ in_use' = [n \in Monitors |-> used[n] \/ n \in freed]
              /\ \/ hash_size' = hash_size * 2
                 \/ hash_size' = hash_size
    BY <1>4 DEF scavenge
  <2>2. cache' \in [Objects -> Monitors \cup {Nil}]
    BY <1>2, <2>1
  <2>3. free_list' \subseteq Monitors
    BY <1>2, <2>1
  <2>4. in_use' \in [Monitors -> BOOLEAN]
    BY <2>1
  <2>5. hash_size' \in Nat
    BY <2>1 DEF TableTypeOK
  <2> QED
    BY <1>1, <1>2, <2>2, <2>3, <2>4, <2>5 DEF TableTypeOK
<1> QED
  BY <1>1, <1>3, <1>4 DEF addEntry

(* Each step of a thread inside of lock.c keeps the inductive invariant.   *)
LEMMA StepInvariant ==
    ASSUME IInv, NEW t \in Threads, Step(t)
    PROVE  IInv'
<1> USE DEF IInv, TypeOK, objVars, tblVars, ctrVars, monVars, thrVars
<1>1. CASE findMonitor(t)
  <2>1. /\ ObjTypeOK' /\ TableTypeOK' /\ MonTypeOK'
        /\ ThreadTypeOK' /\ FatHasMonitor' /\ OwnerHoldsMutex'
    BY <1>1 DEF findMonitor, ObjTypeOK, TableTypeOK, MonTypeOK, ThreadTypeOK,
       FatHasMonitor, OwnerHoldsMutex
  <2>2. LocalsTypeOK'
    BY <1>1, GotoType, FoundType DEF findMonitor, Labels, LocalsTypeOK,
       ObjTypeOK, LockWord
  <2>3. \A u \in Threads : ThreadOK(u)'
    BY <1>1, ThinLockAssumption DEF findMonitor, Found, Goto, MonTypeOK,
       ThreadTypeOK, LocalsTypeOK, ThreadOK, WithMonitor, WithMutex, InWait,
       OwnerHoldsMutex, locals, FatHasMonitor, ObjTypeOK, LockWord
  <2> QED
    BY <2>1, <2>2, <2>3
<1>2. CASE findHashEntry(t)
  <2>1. /\ ObjTypeOK' /\ MonTypeOK' /\ ThreadTypeOK'
        /\ FatHasMonitor' /\ OwnerHoldsMutex'
    BY <1>2 DEF findHashEntry, ObjTypeOK, MonTypeOK, ThreadTypeOK,
       FatHasMonitor, OwnerHoldsMutex
  <2>2. TableTypeOK'
    BY <1>2, EntryType DEF findHashEntry, FOUND, TableTypeOK, LocalsTypeOK
  <2>3. LocalsTypeOK'
    BY <1>2, FoundType, EntryType DEF findHashEntry, Labels, LocalsTypeOK,
       TableTypeOK
  <2>4. \A u \in Threads : ThreadOK(u)'
    BY <1>2, ThinLockAssumption, EntryType DEF findHashEntry, Found, FOUND,
       MonTypeOK, ThreadTypeOK, LocalsTypeOK, ThreadOK, WithMonitor, WithMutex,
       InWait, OwnerHoldsMutex, TableTypeOK, locals
  <2> QED
    BY <2>1, <2>2, <2>3, <2>4
<1>3. CASE monitorLock(t)
  <2>1. mon[t] \in Monitors
    BY <1>3 DEF monitorLock, LocalsTypeOK, ThreadOK, WithMonitor
  <2>2. ObjTypeOK' /\ TableTypeOK' /\ FatHasMonitor'
    BY <1>3 DEF monitorLock, ObjTypeOK, TableTypeOK, FatHasMonitor
  <2>3. MonTypeOK'
    <3>1. count' \in [Monitors -> Nat]
      BY <1>3, <2>1 DEF monitorLock, Acquired, SetEntering, Goto, MonTypeOK,
         LocalsTypeOK
    <3>2. entering' \in [Monitors -> Int]
      BY <1>3, <2>1 DEF monitorLock, Acquired, SetEntering, Goto, MonTypeOK,
         LocalsTypeOK
    <3> QED
      BY <3>1, <3>2, <1>3, <2>1 DEF monitorLock, Acquired, SetEntering, Goto,
         MonTypeOK, LocalsTypeOK
  <2>4. OwnerHoldsMutex'
    BY <1>3, <2>1, ThinLockAssumption DEF monitorLock, Acquired, SetEntering,
       Goto, OwnerHoldsMutex, MonTypeOK, LocalsTypeOK, ThreadOK, WithMutex,
       InWait
  <2>5. ThreadTypeOK'
    BY <1>3, <2>1 DEF monitorLock, Acquired, SetEntering, Goto, ThreadTypeOK,
       LocalsTypeOK, MonTypeOK
  <2>6. LocalsTypeOK'
    BY <1>3, <2>1, GotoType DEF monitorLock, Acquired, Labels
  <2>7. \A u \in Threads : ThreadOK(u)'
    BY <1>3, <2>1, ThinLockAssumption DEF monitorLock, Acquired, SetEntering,
       Goto, MonTypeOK, ThreadTypeOK, LocalsTypeOK, ThreadOK, WithMonitor,
       WithMutex, InWait, OwnerHoldsMutex, locals
  <2> QED
    BY <2>1, <2>2, <2>3, <2>4, <2>5, <2>6, <2>7
<1>4. CASE storeEntering(t)
  <2>1. mon[t] \in Monitors
    BY <1>4 DEF storeEntering, LocalsTypeOK, ThreadOK, WithMonitor
  <2>2. ObjTypeOK' /\ TableTypeOK' /\ FatHasMonitor'
    BY <1>4 DEF storeEntering, ObjTypeOK, TableTypeOK, FatHasMonitor
  <2>3. MonTypeOK'
    BY <1>4, <2>1 DEF storeEntering, SetEntering, Goto, MonTypeOK, LocalsTypeOK
  <2>4. OwnerHoldsMutex'
    BY <1>4, <2>1, ThinLockAssumption DEF storeEntering, SetEntering, Goto,
       OwnerHoldsMutex, MonTypeOK, LocalsTypeOK, ThreadOK, WithMutex, InWait
  <2>5. ThreadTypeOK'
    BY <1>4, <2>1 DEF storeEntering, SetEntering, Goto, ThreadTypeOK,
       LocalsTypeOK, MonTypeOK
  <2>6. LocalsTypeOK'
    BY <1>4, <2>1, GotoType DEF storeEntering, Labels
  <2>7. \A u \in Threads : ThreadOK(u)'
    BY <1>4, <2>1, ThinLockAssumption DEF storeEntering, SetEntering, Goto,
       MonTypeOK, ThreadTypeOK, LocalsTypeOK, ThreadOK, WithMonitor, WithMutex,
       InWait, OwnerHoldsMutex, locals
  <2> QED
    BY <2>1, <2>2, <2>3, <2>4, <2>5, <2>6, <2>7
<1>5. CASE monitorLocked(t)
  <2>1. mon[t] \in Monitors
    BY <1>5 DEF monitorLocked, LocalsTypeOK, ThreadOK, WithMonitor
  <2>2. ObjTypeOK' /\ TableTypeOK' /\ FatHasMonitor'
    BY <1>5 DEF monitorLocked, ObjTypeOK, TableTypeOK, FatHasMonitor
  <2>3. MonTypeOK'
    <3>1. mutex' \in [Monitors -> Threads \cup {Nil}]
      BY <1>5, <2>1 DEF monitorLocked, Acquired, SetEntering, Goto, MonTypeOK,
         LocalsTypeOK
    <3>2. owner' \in [Monitors -> Threads \cup {Nil}]
      BY <1>5, <2>1 DEF monitorLocked, Acquired, SetEntering, Goto, MonTypeOK,
         LocalsTypeOK
    <3>3. entering' \in [Monitors -> Int]
      BY <1>5, <2>1 DEF monitorLocked, Acquired, SetEntering, Goto, MonTypeOK,
         LocalsTypeOK
    <3> QED
      BY <3>1, <3>2, <3>3, <1>5, <2>1 DEF monitorLocked, Acquired, SetEntering,
         Goto, MonTypeOK, LocalsTypeOK
  <2>4. OwnerHoldsMutex'
    BY <1>5, <2>1, ThinLockAssumption DEF monitorLocked, Acquired, SetEntering,
       Goto, OwnerHoldsMutex, MonTypeOK, LocalsTypeOK, ThreadOK, WithMutex,
       InWait
  <2>5. ThreadTypeOK'
    BY <1>5, <2>1 DEF monitorLocked, Acquired, SetEntering, Goto, ThreadTypeOK,
       LocalsTypeOK, MonTypeOK
  <2>6. LocalsTypeOK'
    BY <1>5, <2>1, GotoType DEF monitorLocked, Acquired, Labels
  <2>7. \A u \in Threads : ThreadOK(u)'
    BY <1>5, <2>1, ThinLockAssumption DEF monitorLocked, Acquired, SetEntering,
       Goto, MonTypeOK, ThreadTypeOK, LocalsTypeOK, ThreadOK, WithMonitor,
       WithMutex, InWait, OwnerHoldsMutex, locals
  <2> QED
    BY <2>1, <2>2, <2>3, <2>4, <2>5, <2>6, <2>7
<1>6. CASE storeEntered(t)
  <2>1. mon[t] \in Monitors
    BY <1>6 DEF storeEntered, LocalsTypeOK, ThreadOK, WithMonitor
  <2>2. ObjTypeOK' /\ TableTypeOK' /\ FatHasMonitor'
    BY <1>6 DEF storeEntered, ObjTypeOK, TableTypeOK, FatHasMonitor
  <2>3. MonTypeOK'
    BY <1>6, <2>1 DEF storeEntered, Acquired, SetEntering, Goto, MonTypeOK,
       LocalsTypeOK
  <2>4. OwnerHoldsMutex'
    BY <1>6, <2>1, ThinLockAssumption DEF storeEntered, Acquired, SetEntering,
       Goto, OwnerHoldsMutex, MonTypeOK, LocalsTypeOK, ThreadOK, WithMutex,
       InWait
  <2>5. ThreadTypeOK'
    BY <1>6, <2>1 DEF storeEntered, Acquired, SetEntering, Goto, ThreadTypeOK,
       LocalsTypeOK, MonTypeOK
  <2>6. LocalsTypeOK'
    BY <1>6, <2>1, GotoType DEF storeEntered, Acquired, Labels
  <2>7. \A u \in Threads : ThreadOK(u)'
    BY <1>6, <2>1, ThinLockAssumption DEF storeEntered, Acquired, SetEntering,
       Goto, MonTypeOK, ThreadTypeOK, LocalsTypeOK, ThreadOK, WithMonitor,
       WithMutex, InWait, OwnerHoldsMutex, locals
  <2> QED
    BY <2>1, <2>2, <2>3, <2>4, <2>5, <2>6, <2>7
<1>7. CASE contend(t)
  <2>1. mon[t] \in Monitors
    BY <1>7 DEF contend, LocalsTypeOK, ThreadOK, WithMonitor
  <2>2. TableTypeOK' /\ MonTypeOK' /\ ThreadTypeOK' /\ OwnerHoldsMutex'
    BY <1>7 DEF contend, TableTypeOK, MonTypeOK, ThreadTypeOK, OwnerHoldsMutex
  <2>3. ObjTypeOK'
    BY <1>7, <2>1, LockedType DEF contend, ObjTypeOK, LocalsTypeOK
  <2>4. FatHasMonitor'
    BY <1>7, <2>1 DEF contend, Fat, SelfPtr, Unlocked, Thin, FatHasMonitor,
       ObjTypeOK, LockWord
  <2>5. LocalsTypeOK'
    BY <1>7, <2>1, GotoType, ReturnType DEF contend, Labels
  <2>6. \A u \in Threads : ThreadOK(u)'
    BY <1>7, <2>1, ThinLockAssumption DEF contend, Return, Goto, MonTypeOK,
       ThreadTypeOK, LocalsTypeOK, ThreadOK, WithMonitor, WithMutex, InWait,
       OwnerHoldsMutex, locals
  <2> QED
    BY <2>1, <2>2, <2>3, <2>4, <2>5, <2>6
<1>8. CASE set_flc_bit(t)
  <2>1. mon[t] \in Monitors
    BY <1>8 DEF set_flc_bit, LocalsTypeOK, ThreadOK, WithMonitor
  <2>2. TableTypeOK' /\ MonTypeOK' /\ ThreadTypeOK' /\ OwnerHoldsMutex'
    BY <1>8 DEF set_flc_bit, TableTypeOK, MonTypeOK, ThreadTypeOK,
       OwnerHoldsMutex
  <2>3. ObjTypeOK'
    BY <1>8, <2>1 DEF set_flc_bit, ObjTypeOK, LocalsTypeOK
  <2>4. FatHasMonitor'
    BY <1>8, <2>1 DEF set_flc_bit, Fat, SelfPtr, Unlocked, Thin, FatHasMonitor,
       ObjTypeOK, LockWord
  <2>5. LocalsTypeOK'
    BY <1>8, <2>1, GotoType DEF set_flc_bit, Labels
  <2>6. \A u \in Threads : ThreadOK(u)'
    BY <1>8, <2>1, ThinLockAssumption DEF set_flc_bit, Goto, MonTypeOK,
       ThreadTypeOK, LocalsTypeOK, ThreadOK, WithMonitor, WithMutex, InWait,
       OwnerHoldsMutex, locals
  <2> QED
    BY <2>1, <2>2, <2>3, <2>4, <2>5, <2>6
<1>9. CASE compareAndSwap(t)
  <2>1. mon[t] \in Monitors
    BY <1>9 DEF compareAndSwap, LocalsTypeOK, ThreadOK, WithMonitor
  <2>2. TableTypeOK' /\ MonTypeOK' /\ ThreadTypeOK' /\ OwnerHoldsMutex'
    BY <1>9 DEF compareAndSwap, TableTypeOK, MonTypeOK, ThreadTypeOK,
       OwnerHoldsMutex
  <2>3. ObjTypeOK'
    BY <1>9, <2>1, LockWordType DEF compareAndSwap, ObjTypeOK, LocalsTypeOK
  <2>4. FatHasMonitor'
    BY <1>9, <2>1 DEF compareAndSwap, Fat, SelfPtr, Unlocked, Thin,
       FatHasMonitor, ObjTypeOK, LockWord
  <2>5. LocalsTypeOK'
    BY <1>9, <2>1, GotoType DEF compareAndSwap, Labels
  <2>6. \A u \in Threads : ThreadOK(u)'
    BY <1>9, <2>1, ThinLockAssumption DEF compareAndSwap, Goto, MonTypeOK,
       ThreadTypeOK, LocalsTypeOK, ThreadOK, WithMonitor, WithMutex, InWait,
       OwnerHoldsMutex, locals
  <2> QED
    BY <2>1, <2>2, <2>3, <2>4, <2>5, <2>6
<1>10. CASE inflate(t)
  <2>1. mon[t] \in Monitors
    BY <1>10 DEF inflate, LocalsTypeOK, ThreadOK, WithMonitor
  <2>2. TableTypeOK' /\ ThreadTypeOK'
    BY <1>10 DEF inflate, TableTypeOK, ThreadTypeOK
  <2>3. ObjTypeOK'
    BY <1>10, <2>1 DEF inflate, ObjTypeOK, LocalsTypeOK
  <2>4. FatHasMonitor'
    BY <1>10, <2>1 DEF inflate, Fat, SelfPtr, Unlocked, Thin, FatHasMonitor,
       ObjTypeOK, LockWord
  <2>5. MonTypeOK'
    BY <1>10, <2>1 DEF inflate, NotifyAll, Wake, Parked, MonTypeOK,
       LocalsTypeOK
  <2>6. OwnerHoldsMutex'
    BY <1>10, <2>1, ThinLockAssumption DEF inflate, NotifyAll, Wake, Parked,
       OwnerHoldsMutex, MonTypeOK, LocalsTypeOK, ThreadOK, WithMutex, InWait
  <2>7. LocalsTypeOK'
    BY <1>10, <2>1, WakeType DEF inflate, NotifyAll, Labels
  <2>8. \A u \in Threads : ThreadOK(u)'
    BY <1>10, <2>1, ThinLockAssumption DEF inflate, NotifyAll, Wake, Parked,
       MonTypeOK, ThreadTypeOK, LocalsTypeOK, ThreadOK, WithMonitor, WithMutex,
       InWait, OwnerHoldsMutex, locals
  <2> QED
    BY <2>1, <2>2, <2>3, <2>4, <2>5, <2>6, <2>7, <2>8
<1>11. CASE fatten(t)
  <2>1. mon[t] \in Monitors
    BY <1>11 DEF fatten, LocalsTypeOK, ThreadOK, WithMonitor
  <2>2. TableTypeOK' /\ ThreadTypeOK'
    BY <1>11 DEF fatten, TableTypeOK, ThreadTypeOK
  <2>3. ObjTypeOK'
    BY <1>11, <2>1, LockedType, LockWordType DEF fatten, ObjTypeOK,
       LocalsTypeOK
  <2>4. FatHasMonitor'
    BY <1>11, <2>1, ThinLockAssumption DEF fatten, LocalsTypeOK, Fat, SelfPtr,
       Unlocked, Thin, FatHasMonitor, ObjTypeOK, LockWord
  <2>5. MonTypeOK'
    <3>1. count' \in [Monitors -> Nat]
      BY <1>11, <2>1, ThinLockAssumption DEF fatten, Goto, Return, MonTypeOK,
         LocalsTypeOK, ObjTypeOK, LockWord
    <3> QED
      BY <3>1, <1>11, <2>1, ThinLockAssumption DEF fatten, Goto, Return,
         MonTypeOK, LocalsTypeOK, ObjTypeOK, LockWord
  <2>6. OwnerHoldsMutex'
    BY <1>11, <2>1, ThinLockAssumption DEF fatten, Goto, Return,
       OwnerHoldsMutex, MonTypeOK, LocalsTypeOK, ThreadOK, WithMutex, InWait
  <2>7. LocalsTypeOK'
    BY <1>11, <2>1, GotoType, ReturnType DEF fatten, Labels
  <2>8. \A u \in Threads : ThreadOK(u)'
    BY <1>11, <2>1, ThinLockAssumption DEF fatten, Goto, Return, MonTypeOK,
       ThreadTypeOK, LocalsTypeOK, ThreadOK, WithMonitor, WithMutex, InWait,
       OwnerHoldsMutex, locals
  <2> QED
    BY <2>1, <2>2, <2>3, <2>4, <2>5, <2>6, <2>7, <2>8
<1>12. CASE monitorWait(t)
  <2>1. mon[t] \in Monitors
    BY <1>12 DEF monitorWait, LocalsTypeOK, ThreadOK, WithMonitor
  <2>2. ObjTypeOK' /\ TableTypeOK' /\ FatHasMonitor'
    BY <1>12 DEF monitorWait, ObjTypeOK, TableTypeOK, FatHasMonitor
  <2>3. MonTypeOK'
    <3>1. owner' \in [Monitors -> Threads \cup {Nil}]
      BY <1>12, <2>1 DEF monitorWait, Goto, MonTypeOK, LocalsTypeOK
    <3>2. count' \in [Monitors -> Nat]
      BY <1>12, <2>1 DEF monitorWait, Goto, MonTypeOK, LocalsTypeOK
    <3>3. waiting' \in [Monitors -> Int]
      BY <1>12, <2>1 DEF monitorWait, Goto, MonTypeOK, LocalsTypeOK
    <3> QED
      BY <3>1, <3>2, <3>3, <1>12, <2>1 DEF monitorWait, Goto, MonTypeOK,
         LocalsTypeOK
  <2>4. OwnerHoldsMutex'
    BY <1>12, <2>1, ThinLockAssumption DEF monitorWait, Goto, OwnerHoldsMutex,
       MonTypeOK, LocalsTypeOK, ThreadOK, WithMutex, InWait
  <2>5. ThreadTypeOK'
    BY <1>12, <2>1 DEF monitorWait, Goto, ThreadTypeOK, LocalsTypeOK, MonTypeOK
  <2>6. LocalsTypeOK'
    BY <1>12, <2>1, GotoType DEF monitorWait, Labels
  <2>7. \A u \in Threads : ThreadOK(u)'
    BY <1>12, <2>1, ThinLockAssumption DEF monitorWait, Goto, MonTypeOK,
       ThreadTypeOK, LocalsTypeOK, ThreadOK, WithMonitor, WithMutex, InWait,
       OwnerHoldsMutex, locals
  <2> QED
    BY <2>1, <2>2, <2>3, <2>4, <2>5, <2>6, <2>7
<1>13. CASE testInterrupted(t)
  <2>1. mon[t] \in Monitors
    BY <1>13 DEF testInterrupted, LocalsTypeOK, ThreadOK, WithMonitor
  <2>2. ObjTypeOK' /\ TableTypeOK' /\ FatHasMonitor'
    BY <1>13 DEF testInterrupted, ObjTypeOK, TableTypeOK, FatHasMonitor
  <2>3. MonTypeOK'
    <3>1. mutex' \in [Monitors -> Threads \cup {Nil}]
      BY <1>13, <2>1 DEF testInterrupted, Out, Goto, MonTypeOK, LocalsTypeOK
    <3>2. owner' \in [Monitors -> Threads \cup {Nil}]
      BY <1>13, <2>1 DEF testInterrupted, Out, Goto, MonTypeOK, LocalsTypeOK
    <3>3. count' \in [Monitors -> Nat]
      BY <1>13, <2>1 DEF testInterrupted, Out, Goto, MonTypeOK, LocalsTypeOK,
         ThreadTypeOK, ThreadOK, InWait
    <3>4. waiting' \in [Monitors -> Int]
      BY <1>13, <2>1 DEF testInterrupted, Out, Goto, MonTypeOK, LocalsTypeOK
    <3> QED
      BY <3>1, <3>2, <3>3, <3>4, <1>13, <2>1 DEF testInterrupted, Out, Goto,
         MonTypeOK, LocalsTypeOK
  <2>4. OwnerHoldsMutex'
    BY <1>13, <2>1, ThinLockAssumption DEF testInterrupted, Out, Goto,
       OwnerHoldsMutex, MonTypeOK, LocalsTypeOK, ThreadOK, WithMutex, InWait
  <2>5. ThreadTypeOK'
    BY <1>13, <2>1 DEF testInterrupted, Out, Goto, ThreadTypeOK, LocalsTypeOK,
       MonTypeOK, ThreadOK, InWait
  <2>6. LocalsTypeOK'
    BY <1>13, <2>1, GotoType DEF testInterrupted, Labels
  <2>7. \A u \in Threads : ThreadOK(u)'
    BY <1>13, <2>1, ThinLockAssumption DEF testInterrupted, Out, Goto,
       MonTypeOK, ThreadTypeOK, LocalsTypeOK, ThreadOK, WithMonitor, WithMutex,
       InWait, OwnerHoldsMutex, locals
  <2> QED
    BY <2>1, <2>2, <2>3, <2>4, <2>5, <2>6, <2>7
<1>14. CASE wake(t)
  <2>1. mon[t] \in Monitors
    BY <1>14 DEF wake, LocalsTypeOK, ThreadOK, WithMonitor
  <2>2. ObjTypeOK' /\ TableTypeOK' /\ FatHasMonitor'
    BY <1>14 DEF wake, ObjTypeOK, TableTypeOK, FatHasMonitor
  <2>3. MonTypeOK'
    <3>1. mutex' \in [Monitors -> Threads \cup {Nil}]
      BY <1>14, <2>1 DEF wake, Out, Goto, Resume, Return, MonTypeOK,
         LocalsTypeOK
    <3>2. owner' \in [Monitors -> Threads \cup {Nil}]
      BY <1>14, <2>1 DEF wake, Out, Goto, Resume, Return, MonTypeOK,
         LocalsTypeOK
    <3>3. count' \in [Monitors -> Nat]
      BY <1>14, <2>1 DEF wake, Out, Goto, Resume, Return, MonTypeOK,
         LocalsTypeOK, ThreadTypeOK, ThreadOK, InWait
    <3>4. waiting' \in [Monitors -> Int]
      BY <1>14, <2>1 DEF wake, Out, Goto, Resume, Return, MonTypeOK,
         LocalsTypeOK
    <3>5. notifying' \in [Monitors -> Int]
      BY <1>14, <2>1 DEF wake, Out, Goto, Resume, Return, MonTypeOK,
         LocalsTypeOK
    <3>6. interrupting' \in [Monitors -> Int]
      BY <1>14, <2>1 DEF wake, Out, Goto, Resume, Return, MonTypeOK,
         LocalsTypeOK
    <3> QED
      BY <3>1, <3>2, <3>3, <3>4, <3>5, <3>6, <1>14, <2>1 DEF wake, Out, Goto,
         Resume, Return, MonTypeOK, LocalsTypeOK
  <2>4. OwnerHoldsMutex'
    BY <1>14, <2>1, ThinLockAssumption DEF wake, Out, Goto, Resume, Return,
       OwnerHoldsMutex, MonTypeOK, LocalsTypeOK, ThreadOK, WithMutex, InWait
  <2>5. ThreadTypeOK'
    <3>1. self_interrupting' \in [Threads -> BOOLEAN]
      BY <1>14, <2>1 DEF wake, Out, Goto, Resume, Return, ThreadTypeOK,
         LocalsTypeOK, MonTypeOK
    <3>2. save' \in [Threads -> Int]
      BY <1>14, <2>1 DEF wake, Out, Goto, Resume, Return, ThreadTypeOK,
         LocalsTypeOK, MonTypeOK
    <3> QED
      BY <3>1, <3>2, <1>14, <2>1 DEF wake, Out, Goto, Resume, Return,
         ThreadTypeOK, LocalsTypeOK, MonTypeOK
  <2>6. LocalsTypeOK'
    BY <1>14, <2>1, GotoType, ReturnType DEF wake, Resume, Labels
  <2>7. \A u \in Threads : ThreadOK(u)'
    BY <1>14, <2>1, ThinLockAssumption DEF wake, Out, Goto, Resume, Return,
       MonTypeOK, ThreadTypeOK, LocalsTypeOK, ThreadOK, WithMonitor, WithMutex,
       InWait, OwnerHoldsMutex, locals
  <2> QED
    BY <2>1, <2>2, <2>3, <2>4, <2>5, <2>6, <2>7
<1>15. CASE timedOut(t)
  <2>1. mon[t] \in Monitors
    BY <1>15 DEF timedOut, LocalsTypeOK, ThreadOK, WithMonitor
  <2>2. ObjTypeOK' /\ TableTypeOK' /\ FatHasMonitor'
    BY <1>15 DEF timedOut, ObjTypeOK, TableTypeOK, FatHasMonitor
  <2>3. MonTypeOK'
    BY <1>15, <2>1 DEF timedOut, Out, Goto, Resume, Return, MonTypeOK,
       LocalsTypeOK, ThreadTypeOK, ThreadOK, InWait
  <2>4. OwnerHoldsMutex'
    BY <1>15, <2>1, ThinLockAssumption DEF timedOut, Out, Goto, Resume, Return,
       OwnerHoldsMutex, MonTypeOK, LocalsTypeOK, ThreadOK, WithMutex, InWait
  <2>5. ThreadTypeOK'
    BY <1>15, <2>1 DEF timedOut, Out, Goto, Resume, Return, ThreadTypeOK,
       LocalsTypeOK, MonTypeOK, ThreadOK, InWait
  <2>6. LocalsTypeOK'
    BY <1>15, <2>1, GotoType, ReturnType DEF timedOut, Resume, Labels
  <2>7. \A u \in Threads : ThreadOK(u)'
    BY <1>15, <2>1, ThinLockAssumption DEF timedOut, Out, Goto, Resume, Return,
       MonTypeOK, ThreadTypeOK, LocalsTypeOK, ThreadOK, WithMonitor, WithMutex,
       InWait, OwnerHoldsMutex, locals
  <2> QED
    BY <2>1, <2>2, <2>3, <2>4, <2>5, <2>6, <2>7
<1>16. CASE clearInterrupted(t)
  <2>1. mon[t] \in Monitors
    BY <1>16 DEF clearInterrupted, LocalsTypeOK, ThreadOK, WithMonitor
  <2>2. /\ ObjTypeOK' /\ TableTypeOK' /\ MonTypeOK'
        /\ FatHasMonitor' /\ OwnerHoldsMutex'
    BY <1>16 DEF clearInterrupted, ObjTypeOK, TableTypeOK, MonTypeOK,
       FatHasMonitor, OwnerHoldsMutex
  <2>3. ThreadTypeOK'
    BY <1>16, <2>1 DEF clearInterrupted, Resume, Return, Goto, ThreadTypeOK,
       LocalsTypeOK, MonTypeOK
  <2>4. LocalsTypeOK'
    BY <1>16, <2>1, GotoType, ReturnType DEF clearInterrupted, Resume, Labels
  <2>5. \A u \in Threads : ThreadOK(u)'
    BY <1>16, <2>1, ThinLockAssumption DEF clearInterrupted, Resume, Return,
       Goto, MonTypeOK, ThreadTypeOK, LocalsTypeOK, ThreadOK, WithMonitor,
       WithMutex, InWait, OwnerHoldsMutex, locals
  <2> QED
    BY <2>1, <2>2, <2>3, <2>4, <2>5
<1>17. CASE drainStore(t)
  <2>1. TableTypeOK' /\ MonTypeOK' /\ ThreadTypeOK' /\ OwnerHoldsMutex'
    BY <1>17 DEF drainStore, TableTypeOK, MonTypeOK, ThreadTypeOK,
       OwnerHoldsMutex
  <2>2. ObjTypeOK'
    BY <1>17, LockWordType DEF drainStore, ObjTypeOK, LocalsTypeOK
  <2>3. FatHasMonitor'
    BY <1>17 DEF drainStore, Fat, SelfPtr, Unlocked, Thin, FatHasMonitor,
       ObjTypeOK, LockWord
  <2>4. LocalsTypeOK'
    BY <1>17, ReturnType DEF drainStore, Labels
  <2>5. \A u \in Threads : ThreadOK(u)'
    BY <1>17, ThinLockAssumption DEF drainStore, Return, MonTypeOK,
       ThreadTypeOK, LocalsTypeOK, ThreadOK, WithMonitor, WithMutex, InWait,
       OwnerHoldsMutex
  <2> QED
    BY <2>1, <2>2, <2>3, <2>4, <2>5
<1>18. CASE test_flc_bit(t)
  <2>1. /\ ObjTypeOK' /\ TableTypeOK' /\ MonTypeOK'
        /\ ThreadTypeOK' /\ FatHasMonitor' /\ OwnerHoldsMutex'
    BY <1>18 DEF test_flc_bit, ObjTypeOK, TableTypeOK, MonTypeOK, ThreadTypeOK,
       FatHasMonitor, OwnerHoldsMutex
  <2>2. LocalsTypeOK'
    BY <1>18, GotoType, ReturnType DEF test_flc_bit, Labels
  <2>3. \A u \in Threads : ThreadOK(u)'
    BY <1>18, ThinLockAssumption DEF test_flc_bit, Goto, Return, MonTypeOK,
       ThreadTypeOK, LocalsTypeOK, ThreadOK, WithMonitor, WithMutex, InWait,
       OwnerHoldsMutex, locals
  <2> QED
    BY <2>1, <2>2, <2>3
<1>19. CASE monitorTryLock(t)
  <2>1. mon[t] \in Monitors
    BY <1>19 DEF monitorTryLock, LocalsTypeOK, ThreadOK, WithMonitor
  <2>2. ObjTypeOK' /\ TableTypeOK' /\ ThreadTypeOK' /\ FatHasMonitor'
    BY <1>19 DEF monitorTryLock, ObjTypeOK, TableTypeOK, ThreadTypeOK,
       FatHasMonitor
  <2>3. MonTypeOK'
    <3>1. mutex' \in [Monitors -> Threads \cup {Nil}]
      BY <1>19, <2>1 DEF monitorTryLock, Goto, MonTypeOK, LocalsTypeOK
    <3>2. owner' \in [Monitors -> Threads \cup {Nil}]
      BY <1>19, <2>1 DEF monitorTryLock, Goto, MonTypeOK, LocalsTypeOK
    <3>3. count' \in [Monitors -> Nat]
      BY <1>19, <2>1 DEF monitorTryLock, Goto, MonTypeOK, LocalsTypeOK
    <3> QED
      BY <3>1, <3>2, <3>3, <1>19, <2>1 DEF monitorTryLock, Goto, MonTypeOK,
         LocalsTypeOK
  <2>4. OwnerHoldsMutex'
    BY <1>19, <2>1, ThinLockAssumption DEF monitorTryLock, Goto,
       OwnerHoldsMutex, MonTypeOK, LocalsTypeOK, ThreadOK, WithMutex, InWait
  <2>5. LocalsTypeOK'
    BY <1>19, <2>1, GotoType DEF monitorTryLock, Labels
  <2>6. \A u \in Threads : ThreadOK(u)'
    BY <1>19, <2>1, ThinLockAssumption DEF monitorTryLock, Goto, MonTypeOK,
       ThreadTypeOK, LocalsTypeOK, ThreadOK, WithMonitor, WithMutex, InWait,
       OwnerHoldsMutex, locals
  <2> QED
    BY <2>1, <2>2, <2>3, <2>4, <2>5, <2>6
<1>20. CASE notifyContender(t)
  <2>1. mon[t] \in Monitors
    BY <1>20 DEF notifyContender, LocalsTypeOK, ThreadOK, WithMonitor
  <2>2. ObjTypeOK' /\ TableTypeOK' /\ ThreadTypeOK' /\ FatHasMonitor'
    BY <1>20 DEF notifyContender, ObjTypeOK, TableTypeOK, ThreadTypeOK,
       FatHasMonitor
  <2>3. MonTypeOK'
    BY <1>20, <2>1 DEF notifyContender, NotifyOne, Wake, Parked, Goto,
       MonTypeOK, LocalsTypeOK
  <2>4. OwnerHoldsMutex'
    BY <1>20, <2>1, ThinLockAssumption DEF notifyContender, NotifyOne, Wake,
       Parked, Goto, OwnerHoldsMutex, MonTypeOK, LocalsTypeOK, ThreadOK,
       WithMutex, InWait
  <2>5. LocalsTypeOK'
    BY <1>20, <2>1, GotoType, WakeType DEF notifyContender, NotifyOne, Labels
  <2>6. \A u \in Threads : ThreadOK(u)'
    BY <1>20, <2>1, ThinLockAssumption DEF notifyContender, NotifyOne, Wake,
       Parked, Goto, MonTypeOK, ThreadTypeOK, LocalsTypeOK, ThreadOK,
       WithMonitor, WithMutex, InWait, OwnerHoldsMutex, locals
  <2> QED
    BY <2>1, <2>2, <2>3, <2>4, <2>5, <2>6
<1>21. CASE deflate(t)
  <2>1. mon[t] \in Monitors
    BY <1>21 DEF deflate, LocalsTypeOK, ThreadOK, WithMonitor
  <2>2. TableTypeOK' /\ MonTypeOK' /\ ThreadTypeOK' /\ OwnerHoldsMutex'
    BY <1>21 DEF deflate, TableTypeOK, MonTypeOK, ThreadTypeOK, OwnerHoldsMutex
  <2>3. ObjTypeOK'
    BY <1>21, <2>1, LockWordType DEF deflate, ObjTypeOK, LocalsTypeOK
  <2>4. FatHasMonitor'
    BY <1>21, <2>1 DEF deflate, Fat, SelfPtr, Unlocked, Thin, FatHasMonitor,
       ObjTypeOK, LockWord
  <2>5. LocalsTypeOK'
    BY <1>21, <2>1, GotoType DEF deflate, Labels
  <2>6. \A u \in Threads : ThreadOK(u)'
    BY <1>21, <2>1, ThinLockAssumption DEF deflate, Goto, MonTypeOK,
       ThreadTypeOK, LocalsTypeOK, ThreadOK, WithMonitor, WithMutex, InWait,
       OwnerHoldsMutex, locals
  <2> QED
    BY <2>1, <2>2, <2>3, <2>4, <2>5, <2>6
<1>22. CASE notInUse(t)
  <2>1. mon[t] \in Monitors
    BY <1>22 DEF notInUse, LocalsTypeOK, ThreadOK, WithMonitor
  <2>2. /\ ObjTypeOK' /\ MonTypeOK' /\ ThreadTypeOK'
        /\ FatHasMonitor' /\ OwnerHoldsMutex'
    BY <1>22 DEF notInUse, ObjTypeOK, MonTypeOK, ThreadTypeOK, FatHasMonitor,
       OwnerHoldsMutex
  <2>3. TableTypeOK'
    BY <1>22, <2>1 DEF notInUse, Goto, TableTypeOK, LocalsTypeOK
  <2>4. LocalsTypeOK'
    BY <1>22, <2>1, GotoType DEF notInUse, Labels
  <2>5. \A u \in Threads : ThreadOK(u)'
    BY <1>22, <2>1, ThinLockAssumption DEF notInUse, Goto, MonTypeOK,
       ThreadTypeOK, LocalsTypeOK, ThreadOK, WithMonitor, WithMutex, InWait,
       OwnerHoldsMutex, locals
  <2> QED
    BY <2>1, <2>2, <2>3, <2>4, <2>5
<1>23. CASE monitorUnlock(t)
  <2>1. mon[t] \in Monitors
    BY <1>23 DEF monitorUnlock, LocalsTypeOK, ThreadOK, WithMonitor
  <2>2. ObjTypeOK' /\ TableTypeOK' /\ ThreadTypeOK' /\ FatHasMonitor'
    BY <1>23 DEF monitorUnlock, ObjTypeOK, TableTypeOK, ThreadTypeOK,
       FatHasMonitor
  <2>3. MonTypeOK'
    <3>1. mutex' \in [Monitors -> Threads \cup {Nil}]
      BY <1>23, <2>1 DEF monitorUnlock, Return, MonTypeOK, LocalsTypeOK
    <3>2. owner' \in [Monitors -> Threads \cup {Nil}]
      BY <1>23, <2>1 DEF monitorUnlock, Return, MonTypeOK, LocalsTypeOK
    <3>3. count' \in [Monitors -> Nat]
      BY <1>23, <2>1 DEF monitorUnlock, Return, MonTypeOK, LocalsTypeOK
    <3> QED
      BY <3>1, <3>2, <3>3, <1>23, <2>1 DEF monitorUnlock, Return, MonTypeOK,
         LocalsTypeOK
  <2>4. OwnerHoldsMutex'
    BY <1>23, <2>1, ThinLockAssumption DEF monitorUnlock, Return,
       OwnerHoldsMutex, MonTypeOK, LocalsTypeOK, ThreadOK, WithMutex, InWait
  <2>5. LocalsTypeOK'
    BY <1>23, <2>1, ReturnType DEF monitorUnlock, Labels
  <2>6. \A u \in Threads : ThreadOK(u)'
    BY <1>23, <2>1, ThinLockAssumption DEF monitorUnlock, Return, MonTypeOK,
       ThreadTypeOK, LocalsTypeOK, ThreadOK, WithMonitor, WithMutex, InWait,
       OwnerHoldsMutex
  <2> QED
    BY <2>1, <2>2, <2>3, <2>4, <2>5, <2>6
<1>24. CASE notOwner(t)
  <2>1. /\ ObjTypeOK' /\ TableTypeOK' /\ MonTypeOK'
        /\ ThreadTypeOK' /\ FatHasMonitor' /\ OwnerHoldsMutex'
    BY <1>24 DEF notOwner, ObjTypeOK, TableTypeOK, MonTypeOK, ThreadTypeOK,
       FatHasMonitor, OwnerHoldsMutex
  <2>2. LocalsTypeOK'
    BY <1>24, ReturnType DEF notOwner, Labels
  <2>3. \A u \in Threads : ThreadOK(u)'
    BY <1>24, ThinLockAssumption DEF notOwner, Return, MonTypeOK, ThreadTypeOK,
       LocalsTypeOK, ThreadOK, WithMonitor, WithMutex, InWait, OwnerHoldsMutex
  <2> QED
    BY <2>1, <2>2, <2>3
<1>25. CASE setInterrupted(t)
  <2>1. /\ ObjTypeOK' /\ TableTypeOK' /\ MonTypeOK'
        /\ FatHasMonitor' /\ OwnerHoldsMutex'
    BY <1>25 DEF setInterrupted, ObjTypeOK, TableTypeOK, MonTypeOK,
       FatHasMonitor, OwnerHoldsMutex
  <2>2. ThreadTypeOK'
    BY <1>25 DEF setInterrupted, Return, Goto, ThreadTypeOK, LocalsTypeOK,
       MonTypeOK
  <2>3. LocalsTypeOK'
    BY <1>25, GotoType, ReturnType DEF setInterrupted, Labels
  <2>4. \A u \in Threads : ThreadOK(u)'
    BY <1>25, ThinLockAssumption DEF setInterrupted, Return, Goto, MonTypeOK,
       ThreadTypeOK, LocalsTypeOK, ThreadOK, WithMonitor, WithMutex, InWait,
       OwnerHoldsMutex, locals
  <2> QED
    BY <2>1, <2>2, <2>3, <2>4
<1>26. CASE tryMutex(t)
  <2>1. mon[t] \in Monitors
    BY <1>26 DEF tryMutex, LocalsTypeOK, ThreadOK, WithMonitor
  <2>2. ObjTypeOK' /\ TableTypeOK' /\ FatHasMonitor'
    BY <1>26 DEF tryMutex, ObjTypeOK, TableTypeOK, FatHasMonitor
  <2>3. MonTypeOK'
    <3>1. mutex' \in [Monitors -> Threads \cup {Nil}]
      BY <1>26, <2>1 DEF tryMutex, Goto, Return, MonTypeOK, LocalsTypeOK
    <3> QED
      BY <3>1, <1>26, <2>1 DEF tryMutex, Goto, Return, MonTypeOK, LocalsTypeOK
  <2>4. OwnerHoldsMutex'
    BY <1>26, <2>1, ThinLockAssumption DEF tryMutex, Goto, Return,
       OwnerHoldsMutex, MonTypeOK, LocalsTypeOK, ThreadOK, WithMutex, InWait
  <2>5. ThreadTypeOK'
    BY <1>26, <2>1 DEF tryMutex, Goto, Return, ThreadTypeOK, LocalsTypeOK,
       MonTypeOK
  <2>6. LocalsTypeOK'
    BY <1>26, <2>1, GotoType, ReturnType DEF tryMutex, Labels, LocalsTypeOK,
       locals
  <2>7. \A u \in Threads : ThreadOK(u)'
    BY <1>26, <2>1, ThinLockAssumption DEF tryMutex, Goto, Return, MonTypeOK,
       ThreadTypeOK, LocalsTypeOK, ThreadOK, WithMonitor, WithMutex, InWait,
       OwnerHoldsMutex, locals
  <2> QED
    BY <2>1, <2>2, <2>3, <2>4, <2>5, <2>6, <2>7
<1>27. CASE interruptWaiter(t)
  <2>1. mon[t] \in Monitors
    BY <1>27 DEF interruptWaiter, LocalsTypeOK, ThreadOK, WithMonitor
  <2>2. ObjTypeOK' /\ TableTypeOK' /\ FatHasMonitor'
    BY <1>27 DEF interruptWaiter, ObjTypeOK, TableTypeOK, FatHasMonitor
  <2>3. MonTypeOK'
    BY <1>27, <2>1 DEF interruptWaiter, Wake, Parked, Goto, wait_mon,
       MonTypeOK, LocalsTypeOK
  <2>4. OwnerHoldsMutex'
    BY <1>27, <2>1, ThinLockAssumption DEF interruptWaiter, Wake, Parked, Goto,
       wait_mon, OwnerHoldsMutex, MonTypeOK, LocalsTypeOK, ThreadOK, WithMutex,
       InWait
  <2>5. ThreadTypeOK'
    BY <1>27, <2>1 DEF interruptWaiter, Wake, Parked, Goto, wait_mon,
       ThreadTypeOK, LocalsTypeOK, MonTypeOK
  <2>6. LocalsTypeOK'
    BY <1>27, <2>1, GotoType, WakeType DEF interruptWaiter, Labels
  <2>7. \A u \in Threads : ThreadOK(u)'
    BY <1>27, <2>1, ThinLockAssumption DEF interruptWaiter, Wake, Parked, Goto,
       wait_mon, MonTypeOK, ThreadTypeOK, LocalsTypeOK, ThreadOK, WithMonitor,
       WithMutex, InWait, OwnerHoldsMutex, locals
  <2> QED
    BY <2>1, <2>2, <2>3, <2>4, <2>5, <2>6, <2>7
<1>28. CASE releaseMutex(t)
  <2>1. mon[t] \in Monitors
    BY <1>28 DEF releaseMutex, LocalsTypeOK, ThreadOK, WithMonitor
  <2>2. ObjTypeOK' /\ TableTypeOK' /\ ThreadTypeOK' /\ FatHasMonitor'
    BY <1>28 DEF releaseMutex, ObjTypeOK, TableTypeOK, ThreadTypeOK,
       FatHasMonitor
  <2>3. MonTypeOK'
    BY <1>28, <2>1 DEF releaseMutex, Return, MonTypeOK, LocalsTypeOK
  <2>4. OwnerHoldsMutex'
    BY <1>28, <2>1, ThinLockAssumption DEF releaseMutex, Return,
       OwnerHoldsMutex, MonTypeOK, LocalsTypeOK, ThreadOK, WithMutex, InWait
  <2>5. LocalsTypeOK'
    BY <1>28, <2>1, ReturnType DEF releaseMutex, Labels
  <2>6. \A u \in Threads : ThreadOK(u)'
    BY <1>28, <2>1, ThinLockAssumption DEF releaseMutex, Return, MonTypeOK,
       ThreadTypeOK, LocalsTypeOK, ThreadOK, WithMonitor, WithMutex, InWait,
       OwnerHoldsMutex
  <2> QED
    BY <2>1, <2>2, <2>3, <2>4, <2>5, <2>6
<1> QED
  BY <1>1, <1>2, <1>3, <1>4, <1>5, <1>6, <1>7, <1>8, <1>9, <1>10, <1>11, <1>12,
     <1>13, <1>14, <1>15, <1>16, <1>17, <1>18, <1>19, <1>20, <1>21, <1>22,
     <1>23, <1>24, <1>25, <1>26, <1>27, <1>28 DEF Step

(* So does each call of a thread that is outside of it, misuse included.   *)
LEMMA CallInvariant ==
    ASSUME IInv, NEW t \in Threads, NEW o \in Objects,
           \/ objectLock(t, o) \/ objectUnlock(t, o)
           \/ \E c \in Calls : objectWait(t, o, c) \/ objectNotify(t, o, c)
           \/ \E u \in Threads : threadInterrupt(t, u)
           \/ leaveQueue(t) \/ threadInterrupted(t)
    PROVE  IInv'
<1> USE ThinLockAssumption
    DEF IInv, TypeOK, objVars, tblVars, ctrVars, monVars, thrVars
<1>1. CASE objectLock(t, o)
  <2>1. /\ TableTypeOK' /\ MonTypeOK' /\ ThreadTypeOK' /\ OwnerHoldsMutex'
    BY <1>1 DEF objectLock, TableTypeOK, MonTypeOK, ThreadTypeOK,
       OwnerHoldsMutex
  <2>2. lock' \in [Objects -> LockWord]
    <3>1. CASE lock' = [lock EXCEPT ![o] = Thin(t, 0)]
      BY <3>1, LockWordType DEF ObjTypeOK
    <3>2. CASE lock' = [lock EXCEPT ![o].count = @ + 1]
      <4>1. lock[o] \in LockWord
        BY DEF ObjTypeOK
      <4>2. [lock[o] EXCEPT !.count = @ + 1] \in LockWord
        BY <4>1 DEF LockWord
      <4> QED
        BY <3>2, <4>2 DEF ObjTypeOK
    <3> QED
      BY <1>1, <3>1, <3>2 DEF objectLock, ObjTypeOK
  <2>3. ObjTypeOK'
    BY <1>1, <2>2, LockedType DEF objectLock, ObjTypeOK
  <2>4. FatHasMonitor'
    <3>1. lock \in [Objects -> LockWord] /\ FatHasMonitor
      BY DEF ObjTypeOK
    <3>2. CASE lock' = [lock EXCEPT ![o] = Thin(t, 0)]
      <4>1. lock'[o].fat = FALSE /\ \A p \in Objects \ {o} : lock'[p] = lock[p]
        BY <3>1, <3>2 DEF Thin
      <4> QED
        BY <3>1, <4>1 DEF FatHasMonitor
    <3>3. CASE lock' = [lock EXCEPT ![o].count = @ + 1]
      <4>1. \A p \in Objects : lock'[p].fat = lock[p].fat /\ lock'[p].mon = lock[p].mon
        BY <3>1, <3>3 DEF LockWord
      <4> QED
        BY <3>1, <4>1 DEF FatHasMonitor
    <3>4. CASE UNCHANGED lock
      BY <3>1, <3>4 DEF FatHasMonitor
    <3> QED
      BY <1>1, <3>2, <3>3, <3>4 DEF objectLock
  <2>5. LocalsTypeOK'
    BY <1>1, BeginType DEF objectLock, LocalsTypeOK, AllCalls, Labels, locals
  <2>6. \A u \in Threads : ThreadOK(u)'
    BY <1>1 DEF objectLock, Begin, locals, MonTypeOK, ThreadTypeOK,
       LocalsTypeOK, ThreadOK, WithMonitor, WithMutex, InWait
  <2> QED
    BY <2>1, <2>3, <2>4, <2>5, <2>6
<1>2. CASE objectUnlock(t, o)
  <2>1. /\ TableTypeOK' /\ MonTypeOK' /\ OwnerHoldsMutex'
    BY <1>2 DEF objectUnlock, TableTypeOK, MonTypeOK, OwnerHoldsMutex
  <2>2. lock' \in [Objects -> LockWord]
    <3>1. CASE lock' = [lock EXCEPT ![o] = Unlocked]
      BY <3>1, LockWordType DEF ObjTypeOK
    <3>2. CASE lock[o].count > 0 /\ lock' = [lock EXCEPT ![o].count = @ - 1]
      <4>1. lock[o] \in LockWord /\ lock[o].count \in Nat /\ lock[o].count - 1 \in Nat
        BY <3>2 DEF ObjTypeOK, LockWord
      <4>2. [lock[o] EXCEPT !.count = @ - 1] \in LockWord
        BY <4>1 DEF LockWord
      <4> QED
        BY <3>2, <4>2 DEF ObjTypeOK
    <3> QED
      BY <1>2, <3>1, <3>2 DEF objectUnlock, ObjTypeOK
  <2>3. depth' \in [Threads -> [Objects -> Nat]]
    BY <1>2 DEF objectUnlock, ObjTypeOK
  <2>4. ObjTypeOK' /\ ThreadTypeOK'
    BY <1>2, <2>2, <2>3 DEF objectUnlock, ObjTypeOK, ThreadTypeOK
  <2>5. FatHasMonitor'
    <3>1. CASE lock' = [lock EXCEPT ![o] = Unlocked]
      BY <3>1 DEF Unlocked, Thin, FatHasMonitor, ObjTypeOK
    <3>2. CASE lock' = [lock EXCEPT ![o].count = @ - 1]
      BY <3>2 DEF FatHasMonitor, ObjTypeOK, LockWord
    <3> QED
      BY <1>2, <3>1, <3>2 DEF objectUnlock, FatHasMonitor
  <2>6. LocalsTypeOK'
    BY <1>2, BeginType DEF objectUnlock, LocalsTypeOK, ObjTypeOK, LockWord,
       Labels, locals
  <2>7. \A u \in Threads : ThreadOK(u)'
    BY <1>2 DEF objectUnlock, Begin, locals, ObjTypeOK, LockWord, MonTypeOK,
       ThreadTypeOK, LocalsTypeOK, ThreadOK, WithMonitor, WithMutex, InWait,
       FatHasMonitor
  <2> QED
    BY <2>1, <2>4, <2>5, <2>6, <2>7
<1>3. ASSUME NEW c \in Calls, objectWait(t, o, c)
      PROVE  IInv'
  <2>1. /\ ObjTypeOK' /\ TableTypeOK' /\ MonTypeOK' /\ ThreadTypeOK'
        /\ FatHasMonitor' /\ OwnerHoldsMutex'
    BY <1>3 DEF objectWait, ObjTypeOK, TableTypeOK, MonTypeOK, ThreadTypeOK,
       FatHasMonitor, OwnerHoldsMutex
  <2>2. LocalsTypeOK'
    BY <1>3, BeginType DEF objectWait, ObjTypeOK, LockWord, Labels, AllCalls
  <2>3. \A u \in Threads : ThreadOK(u)'
    BY <1>3 DEF objectWait, Begin, ObjTypeOK, LockWord, MonTypeOK,
       ThreadTypeOK, LocalsTypeOK, ThreadOK, WithMonitor, WithMutex, InWait,
       FatHasMonitor
  <2> QED
    BY <2>1, <2>2, <2>3
<1>4. ASSUME NEW c \in Calls, objectNotify(t, o, c)
      PROVE  IInv'
  <2>1. /\ ObjTypeOK' /\ TableTypeOK' /\ ThreadTypeOK' /\ FatHasMonitor'
        /\ OwnerHoldsMutex'
    BY <1>4 DEF objectNotify, ObjTypeOK, TableTypeOK, ThreadTypeOK,
       FatHasMonitor, OwnerHoldsMutex
  <2>2. MonTypeOK'
    BY <1>4 DEF objectNotify, NotifyOne, NotifyAll, MonTypeOK, ObjTypeOK,
       LockWord
  <2>3. LocalsTypeOK'
    BY <1>4, BeginType, GotoType, WakeType
    DEF objectNotify, NotifyOne, NotifyAll, AllCalls, Labels
  <2>4. \A u \in Threads : ThreadOK(u)'
    BY <1>4 DEF objectNotify, NotifyOne, NotifyAll, Wake, Parked, Goto, Begin,
       locals, MonTypeOK, ThreadTypeOK, LocalsTypeOK, ThreadOK, WithMonitor,
       WithMutex, InWait
  <2> QED
    BY <2>1, <2>2, <2>3, <2>4
<1>5. ASSUME NEW u \in Threads, threadInterrupt(t, u)
      PROVE  IInv'
  <2>1. /\ ObjTypeOK' /\ TableTypeOK' /\ MonTypeOK' /\ ThreadTypeOK'
        /\ FatHasMonitor' /\ OwnerHoldsMutex'
    BY <1>5 DEF threadInterrupt, ObjTypeOK, TableTypeOK, MonTypeOK,
       ThreadTypeOK, FatHasMonitor, OwnerHoldsMutex
  <2>2. LocalsTypeOK'
    BY <1>5 DEF threadInterrupt, wait_mon, LocalsTypeOK, AllCalls, Labels
  <2>3. \A v \in Threads : ThreadOK(v)'
    BY <1>5 DEF threadInterrupt, MonTypeOK, ThreadTypeOK, LocalsTypeOK,
       ThreadOK, WithMonitor, WithMutex, InWait
  <2> QED
    BY <2>1, <2>2, <2>3
<1>6. CASE leaveQueue(t)
  <2>1. /\ ObjTypeOK' /\ TableTypeOK' /\ MonTypeOK' /\ ThreadTypeOK'
        /\ FatHasMonitor' /\ OwnerHoldsMutex'
    BY <1>6 DEF leaveQueue, ObjTypeOK, TableTypeOK, MonTypeOK, ThreadTypeOK,
       FatHasMonitor, OwnerHoldsMutex
  <2>2. LocalsTypeOK'
    BY <1>6, GotoType DEF leaveQueue, Labels
  <2>3. \A u \in Threads : ThreadOK(u)'
    BY <1>6 DEF leaveQueue, Goto, locals, MonTypeOK, ThreadTypeOK,
       LocalsTypeOK, ThreadOK, WithMonitor, WithMutex, InWait
  <2> QED
    BY <2>1, <2>2, <2>3
<1>7. CASE threadInterrupted(t)
  BY <1>7 DEF threadInterrupted, ObjTypeOK, TableTypeOK, MonTypeOK,
     ThreadTypeOK, LocalsTypeOK, locals, ThreadOK, InWait, FatHasMonitor,
     OwnerHoldsMutex
<1> QED
  BY <1>1, <1>2, <1>3, <1>4, <1>5, <1>6, <1>7

(* It holds when the program starts.                                       *)
LEMMA InitInvariant == Init => IInv
<1> SUFFICES ASSUME Init PROVE IInv
  OBVIOUS
<1>1. ObjTypeOK
  BY LockWordType DEF Init, ObjTypeOK
<1>2. TableTypeOK /\ MonTypeOK /\ ThreadTypeOK
  BY ThinLockAssumption DEF Init, TableTypeOK, MonTypeOK, ThreadTypeOK
<1>3. LocalsTypeOK
  BY ThinLockAssumption DEF Init, LocalsTypeOK, Labels
<1>4. FatHasMonitor /\ OwnerHoldsMutex /\ \A t \in Threads : ThreadOK(t)
  BY DEF Init, FatHasMonitor, Unlocked, Thin, OwnerHoldsMutex, ThreadOK,
     WithMonitor, WithMutex, InWait
<1> QED
  BY <1>1, <1>2, <1>3, <1>4 DEF IInv, TypeOK

(* The inductive invariant holds in every state: whatever is called, on    *)
(* any number of objects, every thread has the Monitor and the mutex its   *)
(* place in lock.c needs.                                                  *)
THEOREM Invariance == Spec => []IInv
<1>1. ASSUME IInv, [Next]_vars
      PROVE  IInv'
  <2>1. CASE Next
    <3>1. PICK t \in Threads :
            \/ \E o \in Objects :
                  \/ objectLock(t, o) \/ objectUnlock(t, o)
                  \/ \E c \in Calls : objectWait(t, o, c) \/ objectNotify(t, o, c)
            \/ \E u \in Threads : threadInterrupt(t, u)
            \/ leaveQueue(t) \/ threadInterrupted(t)
            \/ Step(t)
      BY <2>1 DEF Next
    <3>2. CASE Step(t)
      BY <1>1, <3>2, StepInvariant
    <3>3. CASE ~Step(t)
      <4>1. PICK o \in Objects :
              \/ objectLock(t, o) \/ objectUnlock(t, o)
              \/ \E c \in Calls : objectWait(t, o, c) \/ objectNotify(t, o, c)
              \/ \E u \in Threads : threadInterrupt(t, u)
              \/ leaveQueue(t) \/ threadInterrupted(t)
        BY <3>1, <3>3, ThinLockAssumption
      <4> QED
        BY <1>1, <4>1, CallInvariant
    <3> QED
      BY <3>2, <3>3
  <2>2. CASE UNCHANGED vars
    <3>1. ObjTypeOK' /\ TableTypeOK' /\ MonTypeOK'
      BY <1>1, <2>2 DEF IInv, TypeOK, ObjTypeOK, TableTypeOK, MonTypeOK,
         vars, objVars, tblVars, ctrVars, monVars
    <3>2. ThreadTypeOK' /\ LocalsTypeOK'
      BY <1>1, <2>2 DEF IInv, TypeOK, ThreadTypeOK, LocalsTypeOK, vars, thrVars,
         locals
    <3>3. FatHasMonitor' /\ OwnerHoldsMutex'
      BY <1>1, <2>2 DEF IInv, FatHasMonitor, OwnerHoldsMutex, vars, objVars,
         monVars
    <3>4. \A t \in Threads : ThreadOK(t)'
      BY <1>1, <2>2 DEF IInv, ThreadOK, InWait, vars, monVars, locals
    <3> QED
      BY <3>1, <3>2, <3>3, <3>4 DEF IInv, TypeOK
  <2> QED
    BY <1>1, <2>1, <2>2
<1> QED
  BY <1>1, InitInvariant, PTL DEF Spec

(* The variables of lock.c keep their types: lock words, the table of      *)
(* Monitors, the counters of a Monitor, which only lost updates could make *)
(* negative, and the local variables of every thread.                      *)
THEOREM TypeCorrect == Spec => []TypeOK
BY Invariance, PTL DEF IInv

(* mon->owner is either nobody or the thread that holds the mutex of the   *)
(* Monitor: two threads never take one another for the owner of a Monitor  *)
(* (lock.c, monitorLock, monitorTryLock, monitorUnlock, monitorWait), even *)
(* when the program unlocks what it has not locked.                        *)
THEOREM MonitorsAreOwnedExclusively == Spec => []OwnerHoldsMutex
BY Invariance, PTL DEF IInv

-----------------------------------------------------------------------------
(* A Monitor stays with its object while the table is scavenged, too, as   *)
(* long as one thread works on it: what it finds is marked in use before   *)
(* the table is scavenged again, and it clears the mark itself.            *)

(* An entry of the table has a Monitor of its own.                         *)
HashedOnce ==
    \A o \in Objects :
        cache[o] # Nil =>
            /\ cache[o] \notin free_list \cup fresh
            /\ \A p \in Objects : cache[p] = cache[o] => p = o

(* The free list holds the Monitors as a new entry takes them.             *)
FreeIsMarked == \A m \in free_list : m \notin fresh /\ in_use[m]

(* The table is scavenged of Monitors to which no lock word points.        *)
FatIsHashed ==
    \A o \in Objects :
        IF lock[o].fat THEN cache[o] = lock[o].mon /\ in_use[lock[o].mon]
                       ELSE lock[o].mon = Nil

(* Where lock.c goes on with the Monitor it has found, until it unlocks it *)
(* or is back from a wait.                                                 *)
Using == {"enter", "entering", "mutex", "entered", "loop", "set_flc", "cas", "inflate",
          "fatten", "wait", "flag", "parked", "wake", "timeout", "interrupted"}

MonIsHashed(t) ==
    /\ pc[t] \in Using => cache[obj[t]] = mon[t] /\ in_use[mon[t]]
    /\ pc[t] \in {"deflate", "unused"} => cache[obj[t]] = mon[t]
    /\ pc[t] = "unused" => ~lock[obj[t]].fat

MInv == HashedOnce /\ FreeIsMarked /\ FatIsHashed /\ \A t \in Threads : MonIsHashed(t)

(* A step that leaves the table alone and makes no lock fat, of a thread   *)
(* that goes on with the Monitor it has or with none.                      *)
LEMMA TableUntouched ==
    ASSUME NEW t, Threads = {t}, MInv, UNCHANGED tblVars,
           \A o \in Objects :
              /\ lock'[o].fat => lock[o].fat /\ lock'[o].mon = lock[o].mon
              /\ ~lock'[o].fat => lock'[o].mon = Nil,
           pc'[t] \notin {"deflate", "unused"},
           pc'[t] \in Using => pc[t] \in Using /\ mon'[t] = mon[t] /\ obj'[t] = obj[t]
    PROVE  MInv'
<1>1. HashedOnce' /\ FreeIsMarked'
  BY DEF MInv, HashedOnce, FreeIsMarked, tblVars
<1>2. FatIsHashed'
  BY DEF MInv, FatIsHashed, tblVars
<1>3. MonIsHashed(t)'
  BY DEF MInv, MonIsHashed, tblVars, Using
<1> QED
  BY <1>1, <1>2, <1>3 DEF MInv

(* findHashEntry enters a Monitor off the free list or a new one, which    *)
(* the scavenging that may follow does not take: it is marked in use.      *)
LEMMA EntryIsHashed ==
    ASSUME TypeOK, FatHasMonitor, HashedOnce, FreeIsMarked, FatIsHashed, NEW o \in Objects, cache[o] = Nil,
           NEW m \in allocMonitor, addEntry(o, m), UNCHANGED lock
    PROVE  /\ HashedOnce' /\ FreeIsMarked' /\ FatIsHashed'
           /\ cache'[o] = m /\ in_use'[m]
<1> DEFINE table == [cache EXCEPT ![o] = m]
           used  == IF m \in fresh THEN [in_use EXCEPT ![m] = TRUE] ELSE in_use
           list  == free_list \ {m}
<1>1. /\ m \in Monitors /\ m # Nil /\ m \in free_list \cup fresh
      /\ cache \in [Objects -> Monitors \cup {Nil}] /\ in_use \in [Monitors -> BOOLEAN]
      /\ free_list \subseteq Monitors /\ fresh \subseteq Monitors
  BY ThinLockAssumption DEF allocMonitor, TypeOK, TableTypeOK
<1>2. /\ table \in [Objects -> Monitors \cup {Nil}] /\ used \in [Monitors -> BOOLEAN]
      /\ table[o] = m /\ used[m]
      /\ \A p \in Objects \ {o} : table[p] = cache[p]
      /\ \A n \in Monitors : in_use[n] => used[n]
  BY <1>1 DEF FreeIsMarked
<1>3. \A p \in Objects :
         table[p] # Nil =>
            /\ table[p] \notin list \cup (fresh \ {m})
            /\ \A q \in Objects : table[q] = table[p] => q = p
  BY <1>1, <1>2 DEF HashedOnce
<1>4. list \subseteq Monitors /\ \A n \in list : n \notin fresh \ {m} /\ used[n]
  BY <1>1, <1>2 DEF FreeIsMarked
<1>5. \A p \in Objects :
         IF lock[p].fat THEN table[p] = lock[p].mon /\ used[lock[p].mon] /\ table[p] # Nil
                        ELSE lock[p].mon = Nil
  <2>1. ASSUME NEW p \in Objects, lock[p].fat
        PROVE  /\ cache[p] = lock[p].mon /\ in_use[lock[p].mon] /\ p # o
               /\ lock[p].mon \in Monitors
    BY <1>1, <2>1 DEF FatHasMonitor, FatIsHashed
  <2> HIDE DEF table, used, list
  <2>2. ASSUME NEW p \in Objects, lock[p].fat
        PROVE  table[p] = lock[p].mon /\ used[lock[p].mon] /\ table[p] # Nil
    BY <1>1, <1>2, <2>1, <2>2, ThinLockAssumption
  <2> QED
    BY <2>2 DEF FatIsHashed
<1>6. fresh' = fresh \ {m} /\ lock' = lock
  BY DEF addEntry
<1>7. CASE cache' = table /\ in_use' = used /\ free_list' = list
  BY <1>2, <1>3, <1>4, <1>5, <1>6, <1>7 DEF HashedOnce, FreeIsMarked, FatIsHashed
<1>8. CASE scavenge(table, used, list)
  <2> HIDE DEF table, used, list
  <2>1. PICK seen \in SUBSET Objects :
          LET dead  == {p \in seen : ~used[table[p]]}
              freed == {table[p] : p \in dead}
          IN  /\ \A p \in seen : table[p] # Nil
              /\ cache' = [p \in Objects |-> IF p \in dead THEN Nil ELSE table[p]]
              /\ free_list' = list \cup freed
              /\ in_use' = [n \in Monitors |-> used[n] \/ n \in freed]
    BY <1>8 DEF scavenge
  <2> DEFINE dead  == {p \in seen : ~used[table[p]]}
             freed == {table[p] : p \in dead}
  <2>2. /\ dead \subseteq Objects /\ o \notin dead
        /\ \A p \in dead : table[p] \in Monitors /\ ~used[table[p]]
        /\ cache' = [p \in Objects |-> IF p \in dead THEN Nil ELSE table[p]]
        /\ free_list' = list \cup freed
        /\ in_use' = [n \in Monitors |-> used[n] \/ n \in freed]
    BY <1>2, <2>1
  <2>3. \A n \in freed : \E p \in dead : n = table[p]
    OBVIOUS
  <2> HIDE DEF dead, freed
  <2>4. cache'[o] = m /\ in_use'[m]
    BY <1>1, <1>2, <2>2
  <2>5. HashedOnce'
    <3>1. ASSUME NEW p \in Objects, cache'[p] # Nil
          PROVE  /\ p \notin dead /\ table[p] # Nil /\ cache'[p] = table[p]
                 /\ table[p] \notin freed
      BY <1>3, <2>2, <2>3, <3>1
    <3>2. ASSUME NEW p \in Objects, cache'[p] # Nil
          PROVE  cache'[p] \notin free_list' \cup fresh'
      BY <1>3, <1>6, <2>2, <3>1, <3>2
    <3>3. ASSUME NEW p \in Objects, cache'[p] # Nil, NEW q \in Objects, cache'[q] = cache'[p]
          PROVE  q = p
      BY <1>3, <3>1, <3>3
    <3> QED
      BY <3>2, <3>3 DEF HashedOnce
  <2>6. FreeIsMarked'
    <3>1. ASSUME NEW n \in freed PROVE n \in Monitors /\ n \notin fresh \ {m}
      BY <1>3, <2>2, <2>3, ThinLockAssumption
    <3>2. ASSUME NEW n \in list \cup freed PROVE n \notin fresh' /\ in_use'[n]
      BY <1>4, <1>6, <2>2, <3>1
    <3> QED
      BY <2>2, <3>2 DEF FreeIsMarked
  <2>7. FatIsHashed'
    BY <1>2, <1>5, <1>6, <2>2 DEF FatIsHashed
  <2> QED
    BY <2>4, <2>5, <2>6, <2>7
<1> QED
  BY <1>7, <1>8 DEF addEntry

(* One step per action: most leave the table alone.                        *)
LEMMA MonitorStays ==
    ASSUME NEW t, Threads = {t}, IInv, MInv, Next
    PROVE  MInv'
<1> USE DEF objVars, tblVars, ctrVars, monVars, thrVars, locals
<1>1. /\ t \in Threads /\ TypeOK /\ ThreadOK(t) /\ LocalsTypeOK /\ ObjTypeOK /\ FatHasMonitor
      /\ HashedOnce /\ FreeIsMarked /\ FatIsHashed /\ MonIsHashed(t)
      /\ pc \in [Threads -> Labels] /\ obj \in [Threads -> Objects]
      /\ mon \in [Threads -> Monitors \cup {Nil}] /\ obj[t] \in Objects
      /\ lock \in [Objects -> LockWord]
  BY DEF IInv, MInv, TypeOK, LocalsTypeOK, ObjTypeOK
<1>2. \A o \in Objects : ~lock[o].fat => lock[o].mon = Nil
  BY <1>1 DEF FatIsHashed
<1>3. ASSUME NEW o \in Objects, objectLock(t, o)
      PROVE  MInv'
  <2>1. UNCHANGED tblVars /\ pc'[t] \in {"idle", "find"}
    BY <1>1, <1>3 DEF objectLock, Begin
  <2>2. \A p \in Objects : /\ lock'[p].fat => lock[p].fat /\ lock'[p].mon = lock[p].mon
                           /\ ~lock'[p].fat => lock'[p].mon = Nil
    BY <1>1, <1>2, <1>3 DEF objectLock, ThinBy, Thin, LockWord
  <2> QED
    BY <2>1, <2>2, TableUntouched DEF Using
<1>4. ASSUME NEW o \in Objects, objectUnlock(t, o)
      PROVE  MInv'
  <2>1. \A p \in Objects : /\ lock'[p].fat => lock[p].fat /\ lock'[p].mon = lock[p].mon
                           /\ ~lock'[p].fat => lock'[p].mon = Nil
    BY <1>1, <1>2, <1>4 DEF objectUnlock, ThinBy, Thin, Unlocked, LockWord
  <2>2. CASE pc'[t] # "deflate"
    <3>1. UNCHANGED tblVars /\ pc'[t] \in {"idle", "test_flc", "drain", "unlock"}
      BY <1>1, <1>4, <2>2 DEF objectUnlock, Begin
    <3> QED
      BY <2>1, <3>1, TableUntouched DEF Using
  <2>3. CASE pc'[t] = "deflate"
    <3>1. /\ lock[o].fat /\ UNCHANGED <<lock, tblVars>> /\ obj'[t] = o /\ mon'[t] = lock[o].mon
      BY <1>1, <1>4, <2>3 DEF objectUnlock, Begin
    <3>2. MonIsHashed(t)'
      BY <1>1, <2>3, <3>1 DEF FatIsHashed, MonIsHashed, Using
    <3> QED
      BY <1>1, <3>1, <3>2 DEF MInv, HashedOnce, FreeIsMarked, FatIsHashed
  <2> QED
    BY <2>2, <2>3
<1>5. ASSUME NEW o \in Objects, NEW c \in Calls, objectWait(t, o, c)
      PROVE  MInv'
  <2>1. UNCHANGED <<lock, tblVars>> /\ pc'[t] \in {"find", "wait", "not_owner"}
    BY <1>1, <1>5 DEF objectWait, Begin
  <2>2. pc'[t] = "wait" => lock[o].fat /\ obj'[t] = o /\ mon'[t] = lock[o].mon
    BY <1>1, <1>5 DEF objectWait, Begin
  <2>3. MonIsHashed(t)'
    BY <1>1, <2>1, <2>2 DEF FatIsHashed, MonIsHashed, Using
  <2> QED
    BY <1>1, <2>1, <2>3 DEF MInv, HashedOnce, FreeIsMarked, FatIsHashed
<1>6. CASE findMonitor(t)
  <2>1. UNCHANGED <<lock, tblVars, obj>> /\ pc'[t] \in {"trylock", "enter", "table"}
    BY <1>1, <1>6 DEF findMonitor, Found, Goto
  <2>2. pc'[t] = "enter" => lock[obj[t]].fat /\ mon'[t] = lock[obj[t]].mon
    BY <1>1, <1>6 DEF findMonitor, Found, Goto
  <2>3. MonIsHashed(t)'
    BY <1>1, <2>1, <2>2 DEF FatIsHashed, MonIsHashed, Using
  <2> QED
    BY <1>1, <2>1, <2>3 DEF MInv, HashedOnce, FreeIsMarked, FatIsHashed
<1>7. CASE findHashEntry(t)
  <2>1. UNCHANGED <<lock, obj>>
    BY <1>7 DEF findHashEntry, Found
  <2>2. CASE cache[obj[t]] # Nil
    <3> DEFINE m == cache[obj[t]]
    <3>1. /\ in_use' = [in_use EXCEPT ![m] = TRUE] /\ UNCHANGED <<cache, free_list, fresh>>
          /\ mon'[t] = m /\ pc'[t] \in {"trylock", "enter"}
      BY <1>1, <1>7, <2>2 DEF findHashEntry, FOUND, Found
    <3>2. m \in Monitors /\ in_use \in [Monitors -> BOOLEAN]
      BY <1>1, <2>2 DEF TypeOK, TableTypeOK
    <3>3. \A n \in Monitors : in_use[n] => in_use'[n]
      BY <3>1, <3>2
    <3>4. \A o \in Objects : lock[o].fat => lock[o].mon \in Monitors
      BY <1>1 DEF FatHasMonitor, LockWord
    <3>5. FreeIsMarked'
      BY <1>1, <3>1, <3>3 DEF FreeIsMarked, TypeOK, TableTypeOK
    <3>6. FatIsHashed' /\ HashedOnce'
      BY <1>1, <2>1, <3>1, <3>3, <3>4 DEF FatIsHashed, HashedOnce
    <3>7. MonIsHashed(t)'
      BY <1>1, <2>1, <3>1, <3>2 DEF MonIsHashed, Using
    <3> QED
      BY <3>5, <3>6, <3>7 DEF MInv
  <2>3. CASE cache[obj[t]] = Nil
    <3>1. PICK m \in allocMonitor : addEntry(obj[t], m) /\ Found(t, m)
      BY <1>7, <2>3 DEF findHashEntry
    <3>2. /\ HashedOnce' /\ FreeIsMarked' /\ FatIsHashed'
          /\ cache'[obj[t]] = m /\ in_use'[m]
      BY <1>1, <2>1, <2>3, <3>1, EntryIsHashed
    <3>3. mon'[t] = m /\ pc'[t] \in {"trylock", "enter"}
      BY <1>1, <3>1 DEF Found
    <3>4. MonIsHashed(t)'
      BY <2>1, <3>2, <3>3 DEF MonIsHashed, Using
    <3> QED
      BY <3>2, <3>4 DEF MInv
  <2> QED
    BY <2>2, <2>3
<1>8. CASE fatten(t)
  <2>1. /\ UNCHANGED <<tblVars, obj>> /\ lock' = [lock EXCEPT ![obj[t]] = Fat(mon[t])]
        /\ pc'[t] \in {"idle", "loop", "wait"} /\ (pc'[t] # "idle" => mon'[t] = mon[t])
        /\ pc[t] \in Using
    BY <1>1, <1>8 DEF fatten, Goto, Return, Using
  <2>2. cache[obj[t]] = mon[t] /\ in_use[mon[t]]
    BY <1>1, <2>1 DEF MonIsHashed
  <2>3. FatIsHashed'
    BY <1>1, <2>1, <2>2 DEF FatIsHashed, Fat
  <2>4. MonIsHashed(t)'
    BY <1>1, <2>1, <2>2 DEF MonIsHashed, Using
  <2> QED
    BY <1>1, <2>1, <2>3, <2>4 DEF MInv, HashedOnce, FreeIsMarked
<1>9. CASE deflate(t)
  <2>1. /\ UNCHANGED <<tblVars, obj, mon>> /\ lock' = [lock EXCEPT ![obj[t]] = Unlocked]
        /\ pc'[t] = "unused" /\ pc[t] = "deflate"
    BY <1>1, <1>9 DEF deflate, Goto
  <2>2. FatIsHashed'
    BY <1>1, <2>1 DEF FatIsHashed, Unlocked, Thin
  <2>3. MonIsHashed(t)'
    BY <1>1, <2>1 DEF MonIsHashed, Using, Unlocked, Thin
  <2> QED
    BY <1>1, <2>1, <2>2, <2>3 DEF MInv, HashedOnce, FreeIsMarked
<1>10. CASE notInUse(t)
  <2>1. /\ UNCHANGED <<lock, cache, free_list, fresh>> /\ pc'[t] = "unlock" /\ pc[t] = "unused"
        /\ in_use' = [in_use EXCEPT ![mon[t]] = FALSE]
    BY <1>1, <1>10 DEF notInUse, Goto
  <2>2. /\ cache[obj[t]] = mon[t] /\ mon[t] # Nil /\ mon[t] \notin free_list
        /\ ~lock[obj[t]].fat /\ \A p \in Objects : cache[p] = mon[t] => p = obj[t]
    BY <1>1, <2>1 DEF MonIsHashed, ThreadOK, WithMonitor, HashedOnce
  <2>3. in_use \in [Monitors -> BOOLEAN] /\ free_list \subseteq Monitors
    BY <1>1 DEF TypeOK, TableTypeOK
  <2>4. FreeIsMarked'
    BY <1>1, <2>1, <2>2, <2>3 DEF FreeIsMarked
  <2>5. FatIsHashed'
    <3>1. ASSUME NEW o \in Objects, lock[o].fat
          PROVE  lock[o].mon # mon[t] /\ lock[o].mon \in Monitors
      BY <1>1, <2>2, <3>1 DEF FatIsHashed, FatHasMonitor, LockWord
    <3> QED
      BY <1>1, <2>1, <2>3, <3>1 DEF FatIsHashed
  <2>6. MonIsHashed(t)'
    BY <2>1 DEF MonIsHashed, Using
  <2> QED
    BY <1>1, <2>1, <2>4, <2>5, <2>6 DEF MInv, HashedOnce
<1>11. CASE compareAndSwap(t)
  <2>1. /\ UNCHANGED <<tblVars, obj, mon>> /\ pc[t] \in Using /\ pc'[t] \in Using
    BY <1>1, <1>11 DEF compareAndSwap, Goto, Using
  <2>2. \A p \in Objects : /\ lock'[p].fat => lock[p].fat /\ lock'[p].mon = lock[p].mon
                           /\ ~lock'[p].fat => lock'[p].mon = Nil
    BY <1>1, <1>2, <1>11 DEF compareAndSwap, SelfPtr, Thin
  <2> QED
    BY <2>1, <2>2, TableUntouched DEF Using
<1>12. CASE drainStore(t)
  <2>1. UNCHANGED tblVars /\ pc'[t] = "idle"
    BY <1>1, <1>12 DEF drainStore, Return
  <2>2. \A p \in Objects : /\ lock'[p].fat => lock[p].fat /\ lock'[p].mon = lock[p].mon
                           /\ ~lock'[p].fat => lock'[p].mon = Nil
    BY <1>1, <1>2, <1>12 DEF drainStore, Unlocked, Thin
  <2> QED
    BY <2>1, <2>2, TableUntouched DEF Using
<1>13. CASE /\ UNCHANGED <<lock, tblVars>> /\ pc'[t] \notin {"deflate", "unused"}
            /\ pc'[t] \in Using => pc[t] \in Using /\ mon'[t] = mon[t] /\ obj'[t] = obj[t]
  BY <1>2, <1>13, TableUntouched
<1>14. ASSUME \/ monitorLock(t) \/ storeEntering(t) \/ monitorLocked(t) \/ storeEntered(t)
              \/ contend(t) \/ set_flc_bit(t)
       PROVE  MInv'
  BY <1>1, <1>13, <1>14 DEF monitorLock, storeEntering, monitorLocked, storeEntered, contend,
     set_flc_bit, Acquired, Goto, Return, Using
<1>15. ASSUME inflate(t) PROVE MInv'
  BY <1>1, <1>13, <1>15 DEF inflate, NotifyAll, Wake, Using
<1>16. ASSUME monitorWait(t) \/ testInterrupted(t) \/ wake(t) \/ timedOut(t) \/ leaveQueue(t)
              \/ clearInterrupted(t)
       PROVE  MInv'
  BY <1>1, <1>13, <1>16 DEF monitorWait, testInterrupted, wake, timedOut, leaveQueue,
     clearInterrupted, Resume, Goto, Return, Using
<1>17. ASSUME \/ test_flc_bit(t) \/ monitorTryLock(t) \/ notifyContender(t) \/ monitorUnlock(t)
              \/ notOwner(t) \/ setInterrupted(t) \/ tryMutex(t) \/ interruptWaiter(t)
              \/ releaseMutex(t) \/ threadInterrupted(t)
       PROVE  MInv'
  <2>1. /\ UNCHANGED <<lock, tblVars>> /\ pc'[t] \notin {"deflate", "unused"}
        /\ pc'[t] \in Using => pc[t] \in Using /\ mon'[t] = mon[t] /\ obj'[t] = obj[t]
    BY <1>1, <1>17 DEF test_flc_bit, monitorTryLock, notifyContender, NotifyOne, monitorUnlock,
       notOwner, setInterrupted, tryMutex, interruptWaiter, releaseMutex, threadInterrupted,
       Wake, Goto, Return, Using
  <2> QED
    BY <1>13, <2>1
<1>18. ASSUME NEW o \in Objects, NEW c \in Calls, objectNotify(t, o, c)
       PROVE  MInv'
  <2>1. UNCHANGED <<lock, tblVars>> /\ pc'[t] \in {"idle", "not_owner"}
    BY <1>1, <1>18 DEF objectNotify, NotifyOne, NotifyAll, Wake, Goto, Begin
  <2> QED
    BY <1>13, <2>1 DEF Using
<1>19. ASSUME NEW u \in Threads, threadInterrupt(t, u)
       PROVE  MInv'
  BY <1>1, <1>13, <1>19 DEF threadInterrupt, Using
<1> QED
  BY <1>3, <1>4, <1>5, <1>6, <1>7, <1>8, <1>9, <1>10, <1>11, <1>12, <1>14, <1>15, <1>16, <1>17,
     <1>18, <1>19 DEF Next, Step

(* The Monitor in a fat lock word is the one hashed for the object and for *)
(* no other, and is not on the free list, however often the table is       *)
(* scavenged and Monitors are handed out again, for one thread, on any     *)
(* number of objects and balanced or not (findMonitor, objectUnlock's      *)
(* deflation, hash.h).  It fails for two threads, one of which may find a  *)
(* Monitor that the other's findMonitor then scavenges.                    *)
THEOREM MonitorsStay ==
    ASSUME NEW t, Threads = {t}
    PROVE  Spec => []MonitorIsNotRecycled
<1>1. Init => MInv
  BY DEF Init, MInv, HashedOnce, FreeIsMarked, FatIsHashed, MonIsHashed, Using, Unlocked, Thin
<1>2. ASSUME IInv, MInv, [Next]_vars
      PROVE  MInv'
  <2>1. CASE Next
    BY <1>2, <2>1, MonitorStays
  <2>2. CASE UNCHANGED vars
    BY <1>2, <2>2 DEF MInv, HashedOnce, FreeIsMarked, FatIsHashed, MonIsHashed, vars, objVars,
       tblVars, locals
  <2> QED
    BY <1>2, <2>1, <2>2
<1>3. IInv /\ MInv => MonitorIsNotRecycled
  BY DEF IInv, MInv, FatHasMonitor, FatIsHashed, HashedOnce, MonitorIsNotRecycled
<1> QED
  BY <1>1, <1>2, <1>3, Invariance, PTL DEF Spec

-------------------------------------------------------------------------------
Balanced == "unbalanced" \notin Calls

NeverScavenges ==
    IsFiniteSet(Objects) /\ Cardinality(Objects) * 4 <= HASHTABSZE * 3

-----------------------------------------------------------------------------
(* The inductive invariant, in parts.                                      *)

(* Each object has at most one Monitor, of its own and for ever.           *)
TableOK ==
    /\ hash_size = HASHTABSZE /\ free_list = {}
    /\ \A o, p \in Objects : cache[o] # Nil /\ cache[o] = cache[p] => o = p
    /\ \A o \in Objects : cache[o] \notin fresh
    /\ \A m \in fresh : owner[m] = Nil

(* A fat lock word points at the object's Monitor, a thin one at none.     *)
LockShape ==
    \A o \in Objects : lock[o].mon = IF lock[o].fat THEN cache[o] ELSE Nil

OwnsFat(t, o) == lock[o].fat /\ owner[lock[o].mon] = t

(* Who has locked an object is in its lock word or owns its Monitor, or    *)
(* has given it up in Object.wait().                                       *)
HeldIsSeen(t, o) ==
    depth[t][o] > 0 =>
        ThinBy(t, o) \/ OwnsFat(t, o) \/ (InWait(t) /\ obj[t] = o)

(* A thin lock counts the locks of the thread in it, except while the      *)
(* store that releases it is on its way.                                   *)
ThinIsCounted(t, o) ==
    ThinBy(t, o) /\ ~(pc[t] = "drain" /\ obj[t] = o) =>
        depth[t][o] = lock[o].count + 1

(* Where a thread has the object's Monitor to itself though the lock may   *)
(* not be fat, or may be but is not counted in full.                       *)
Transient == {"loop", "set_flc", "cas", "inflate", "fatten", "interrupted",
              "notify", "deflate", "unused", "unlock"}

InTransit(t, o) ==
    /\ obj[t] = o /\ mon[t] = cache[o]
    /\ pc[t] \in Transient \/ (pc[t] = "wait" /\ call[t] = "lock")

(* So does a fat lock, in its Monitor, outside of these places.            *)
FatIsCounted(t, o) ==
    cache[o] # Nil /\ owner[cache[o]] = t =>
        \/ lock[o].fat /\ depth[t][o] = count[cache[o]] + 1
        \/ InTransit(t, o)

CountsOK(t, o) == HeldIsSeen(t, o) /\ ThinIsCounted(t, o) /\ FatIsCounted(t, o)

FreeIsZero == \A m \in Monitors : owner[m] = Nil => count[m] = 0

Waiters(m) == {u \in Threads : InWait(u) /\ mon[u] = m}

(* mon->waiting is the number of threads in monitorWait.                   *)
WaitersCounted ==
    \A m \in Monitors :
        IsFiniteSet(Waiters(m)) /\ waiting[m] = Cardinality(Waiters(m))

(* The calls in which a thread is at each label.                           *)
Waits  == {"wait", "timedwait"}
Inside == {"overflow"} \cup Waits      \* calls by the holder of a thin lock

CallAt(t) ==
    /\ pc[t] = "idle" => call[t] = "none"
    /\ pc[t] \in {"find", "table"} => call[t] \in Inside \cup {"lock", "unlock"}
    /\ pc[t] \in {"enter", "entering", "mutex", "entered", "inflate", "fatten"} =>
          call[t] \in Inside \cup {"lock"}
    /\ pc[t] \in {"loop", "set_flc", "cas"} => call[t] = "lock"
    /\ pc[t] \in {"wait", "flag", "parked", "wake", "timeout", "interrupted"} =>
          call[t] \in Waits \cup {"lock"}
    /\ pc[t] \in {"drain", "test_flc", "trylock", "notify", "deflate",
                  "unused", "unlock"} => call[t] = "unlock"
    /\ pc[t] = "not_owner" => call[t] \in Waits \cup {"notify", "notifyAll"}
    /\ pc[t] \in {"set_interrupted", "try_mutex", "got_lock", "release"} =>
          call[t] = "interrupt"

(* The Monitor a thread works on is the one of its object.                 *)
MonAt(t) == mon[t] # Nil /\ call[t] # "interrupt" => mon[t] = cache[obj[t]]

Zero(t) == /\ owner[mon[t]] = t
           /\ count[mon[t]] = 0 /\ depth[t][obj[t]] = 0

(* What a thread knows of its lock before it has the Monitor ...           *)
Before(t) ==
    LET o == obj[t] IN
    /\ pc[t] \in {"find", "table", "enter", "entering", "mutex", "entered"} =>
          /\ call[t] = "lock" => ~ThinBy(t, o)
          /\ call[t] \in Inside => ThinBy(t, o)
          /\ call[t] = "overflow" => lock[o].count = MaxCount
          /\ call[t] = "unlock" => depth[t][o] = 0
    /\ pc[t] \in {"entering", "mutex", "entered"} => owner[mon[t]] # t
    /\ pc[t] = "not_owner" => depth[t][o] = 0

(* ... while it inflates the lock ...                                      *)
Inflating(t) ==
    LET o == obj[t] IN
    /\ pc[t] = "loop" => /\ owner[mon[t]] = t /\ count[mon[t]] = depth[t][o]
                         /\ depth[t][o] > 0 => lock[o].fat
    /\ pc[t] \in {"set_flc", "cas"} => Zero(t) /\ ~lock[o].fat
    /\ pc[t] \in {"inflate", "fatten"} =>
          /\ owner[mon[t]] = t
          /\ call[t] = "lock" => Zero(t) /\ lock[o] = SelfPtr
          /\ call[t] \in Inside => ThinBy(t, o)
          /\ call[t] = "overflow" => lock[o].count = MaxCount

(* ... in monitorWait ...                                                  *)
Waiting(t) ==
    LET o == obj[t] IN
    /\ pc[t] = "wait" /\ call[t] = "lock" => Zero(t)
    /\ pc[t] = "wait" => ~ThinBy(t, o)
    /\ InWait(t) => IF call[t] = "lock" THEN save[t] = 0 /\ depth[t][o] = 0
                    ELSE lock[o].fat /\ depth[t][o] = save[t] + 1
    /\ pc[t] = "interrupted" /\ call[t] = "lock" => Zero(t)
    /\ pc[t] = "interrupted" /\ call[t] \in Waits =>
          /\ owner[mon[t]] = t /\ lock[o].fat
          /\ depth[t][o] = count[mon[t]] + 1

(* ... and in objectUnlock.                                                *)
Unlocking(t) ==
    LET o == obj[t] IN
    /\ pc[t] = "drain" => lock[o] = Thin(t, 0) /\ depth[t][o] = 0
    /\ pc[t] \in {"test_flc", "trylock"} => depth[t][o] = 0
    /\ pc[t] \in {"notify", "unused"} => Zero(t)
    /\ pc[t] = "deflate" => Zero(t) /\ lock[o].fat /\ waiting[mon[t]] = 0
    /\ pc[t] = "unlock" => /\ owner[mon[t]] = t /\ count[mon[t]] = depth[t][o]
                           /\ depth[t][o] > 0 => lock[o].fat

PlaceOK(t) ==
    CallAt(t) /\ MonAt(t) /\ Before(t) /\ Inflating(t) /\ Waiting(t) /\ Unlocking(t)

ThreadLocksOK(t) == PlaceOK(t) /\ \A o \in Objects : CountsOK(t, o)

LInv ==
    /\ TableOK /\ LockShape /\ FreeIsZero /\ WaitersCounted
    /\ \A t \in Threads : ThreadLocksOK(t)

-----------------------------------------------------------------------------
(* What the steps of other threads leave to thread u: its own variables,   *)
(* but for a wakeup, the Monitors it owns and the words of its thin locks. *)
SameThread(u) ==
    /\ pc'[u] = pc[u] \/ (pc[u] = "parked" /\ pc'[u] = "wake")
    /\ call'[u] = call[u] /\ obj'[u] = obj[u] /\ mon'[u] = mon[u]
    /\ save'[u] = save[u] /\ depth'[u] = depth[u]

SameMonitors(u) ==
    \A m \in Monitors :
        /\ owner'[m] = u <=> owner[m] = u
        /\ owner[m] = u => count'[m] = count[m] /\ waiting'[m] = waiting[m]

SameLocks(u) ==
    \A o \in Objects :
        /\ cache[o] # Nil => cache'[o] = cache[o]
        /\ cache[o] = Nil /\ cache'[o] # Nil => owner'[cache'[o]] # u
        /\ ThinBy(u, o)' <=> ThinBy(u, o)
        /\ ThinBy(u, o) => lock'[o] = lock[o]
        /\ cache[o] # Nil /\ owner[cache[o]] = u => (lock'[o].fat <=> lock[o].fat)
        /\ obj[u] = o /\ lock[o] = SelfPtr =>
              lock'[o] = SelfPtr \/ pc[u] \notin {"inflate", "fatten"}
        /\ obj[u] = o /\ lock[o].fat /\ InWait(u) /\ call[u] # "lock" =>
              lock'[o].fat

Undisturbed(u) == SameThread(u) /\ SameMonitors(u) /\ SameLocks(u)

(* A thread that is left alone keeps its part of the invariant.            *)
LEMMA OthersKeep ==
    ASSUME IInv, IInv', LInv, LockShape', NEW u \in Threads, Undisturbed(u)
    PROVE  ThreadLocksOK(u)'
<1> USE ThinLockAssumption DEF IInv, TypeOK, LInv, ThreadLocksOK, PlaceOK,
    Undisturbed, SameThread
<1>1. PlaceOK(u) /\ \A o \in Objects : CountsOK(u, o)
  OBVIOUS
<1>2. CallAt(u)' /\ (InWait(u)' <=> InWait(u))
  BY <1>1 DEF CallAt, InWait
<1>3. MonAt(u)'
  BY <1>1 DEF MonAt, SameLocks, LocalsTypeOK
<1>4. Before(u)'
  BY <1>1 DEF Before, SameMonitors, SameLocks, LocalsTypeOK, Inside, Waits,
     ThreadOK, WithMonitor
<1>5. Inflating(u)'
  BY <1>1 DEF Inflating, Zero, SameMonitors, SameLocks, LocalsTypeOK, CallAt,
     Inside, Waits, ThreadOK, WithMonitor, MonAt
<1>6. Waiting(u)'
  BY <1>1, <1>2 DEF Waiting, Zero, SameMonitors, SameLocks, LocalsTypeOK, CallAt,
     Waits, ThreadOK, WithMonitor, MonAt
<1>7. Unlocking(u)'
  BY <1>1 DEF Unlocking, Zero, SameMonitors, SameLocks, LocalsTypeOK, CallAt,
     ThreadOK, WithMonitor, MonAt, ThinBy, Thin
<1>8. ASSUME NEW o \in Objects PROVE CountsOK(u, o)'
  <2>1. CountsOK(u, o) /\ (lock[o].fat => lock[o].mon = cache[o] /\ cache[o] # Nil)
                       /\ (lock'[o].fat => lock'[o].mon = cache'[o] /\ cache'[o] # Nil)
    BY <1>1 DEF LockShape, FatHasMonitor
  <2>2. HeldIsSeen(u, o)'
    BY <1>2, <2>1 DEF CountsOK, HeldIsSeen, OwnsFat, SameMonitors, SameLocks,
       TableTypeOK
  <2>3. ThinIsCounted(u, o)'
    BY <1>2, <2>1 DEF CountsOK, ThinIsCounted, SameLocks
  <2>4. FatIsCounted(u, o)'
    BY <1>2, <2>1 DEF CountsOK, FatIsCounted, InTransit, Transient, SameMonitors,
       SameLocks, TableTypeOK
  <2> QED
    BY <2>2, <2>3, <2>4 DEF CountsOK
<1> QED
  BY <1>2, <1>3, <1>4, <1>5, <1>6, <1>7, <1>8

(* So does a thread for the objects it is not working on.                  *)
LEMMA ElsewhereKeeps ==
    ASSUME IInv, IInv', LInv, LockShape', NEW t \in Threads, NEW o \in Objects,
           obj[t] = o => pc[t] = "idle", obj'[t] = o => pc'[t] = "idle",
           lock'[o] = lock[o], cache'[o] = cache[o], depth'[t][o] = depth[t][o],
           cache[o] # Nil => /\ owner'[cache[o]] = owner[cache[o]]
                             /\ count'[cache[o]] = count[cache[o]]
    PROVE  CountsOK(t, o)'
<1>1. CountsOK(t, o) /\ (lock[o].fat => lock[o].mon = cache[o] /\ cache[o] # Nil)
  BY DEF LInv, ThreadLocksOK, LockShape, IInv, FatHasMonitor
<1>2. HeldIsSeen(t, o)'
  BY <1>1 DEF CountsOK, HeldIsSeen, OwnsFat, ThinBy, InWait
<1>3. ThinIsCounted(t, o)'
  BY <1>1 DEF CountsOK, ThinIsCounted, ThinBy
<1>4. FatIsCounted(t, o)'
  BY <1>1 DEF CountsOK, FatIsCounted, InTransit, Transient
<1> QED
  BY <1>2, <1>3, <1>4 DEF CountsOK

(* Waiters are counted as before if nobody enters or leaves monitorWait.   *)
LEMMA WaitersKept ==
    ASSUME WaitersCounted, waiting' = waiting,
           \A u \in Threads : InWait(u)' = InWait(u) /\ (InWait(u) => mon'[u] = mon[u])
    PROVE  WaitersCounted'
<1>1. \A m : Waiters(m)' = Waiters(m)
  BY DEF Waiters
<1> QED
  BY <1>1 DEF WaitersCounted

(* A thread that enters monitorWait is counted.                            *)
LEMMA WaiterEnters ==
    ASSUME WaitersCounted, MonTypeOK, NEW t \in Threads, NEW m \in Monitors,
           ~InWait(t), InWait(t)', mon'[t] = m,
           waiting' = [waiting EXCEPT ![m] = @ + 1],
           \A u \in Threads \ {t} :
               InWait(u)' = InWait(u) /\ (InWait(u) => mon'[u] = mon[u])
    PROVE  WaitersCounted'
<1>1. Waiters(m)' = Waiters(m) \cup {t} /\ t \notin Waiters(m)
  BY DEF Waiters
<1>2. \A n \in Monitors \ {m} : Waiters(n)' = Waiters(n)
  BY DEF Waiters
<1>3. IsFiniteSet(Waiters(m)) /\ waiting[m] = Cardinality(Waiters(m))
  BY DEF WaitersCounted
<1>4. /\ IsFiniteSet(Waiters(m) \cup {t})
      /\ Cardinality(Waiters(m) \cup {t}) = waiting[m] + 1
  BY <1>1, <1>3, FS_AddElement
<1>5. waiting'[m] = waiting[m] + 1 /\ \A n \in Monitors \ {m} : waiting'[n] = waiting[n]
  BY DEF MonTypeOK
<1> QED
  BY <1>1, <1>2, <1>4, <1>5 DEF WaitersCounted

(* A thread that leaves it is not counted any more.                        *)
LEMMA WaiterLeaves ==
    ASSUME WaitersCounted, MonTypeOK, NEW t \in Threads, NEW m \in Monitors,
           InWait(t), ~InWait(t)', mon[t] = m,
           waiting' = [waiting EXCEPT ![m] = @ - 1],
           \A u \in Threads \ {t} :
               InWait(u)' = InWait(u) /\ (InWait(u) => mon'[u] = mon[u])
    PROVE  WaitersCounted'
<1>1. Waiters(m)' = Waiters(m) \ {t} /\ t \in Waiters(m)
  BY DEF Waiters
<1>2. \A n \in Monitors \ {m} : Waiters(n)' = Waiters(n)
  BY DEF Waiters
<1>3. IsFiniteSet(Waiters(m)) /\ waiting[m] = Cardinality(Waiters(m))
  BY DEF WaitersCounted
<1>4. /\ IsFiniteSet(Waiters(m) \ {t})
      /\ Cardinality(Waiters(m) \ {t}) = waiting[m] - 1
  BY <1>1, <1>3, FS_RemoveElement
<1>5. waiting'[m] = waiting[m] - 1 /\ \A n \in Monitors \ {m} : waiting'[n] = waiting[n]
  BY DEF MonTypeOK
<1> QED
  BY <1>1, <1>2, <1>4, <1>5 DEF WaitersCounted

(* Nor is a thread disturbed by another one's change of a lock word: it    *)
(* holds neither the thin lock nor, unless the word stays fat, the Monitor.*)
LEMMA OneLockChanges ==
    ASSUME ObjTypeOK, NEW v \in Threads, NEW o \in Objects, NEW w,
           lock' = [lock EXCEPT ![o] = w], cache' = cache,
           ~ThinBy(v, o), w.fat \/ w.tid # v,
           cache[o] # Nil /\ owner[cache[o]] = v => (w.fat <=> lock[o].fat),
           obj[v] = o /\ lock[o] = SelfPtr => pc[v] \notin {"inflate", "fatten"},
           obj[v] = o /\ lock[o].fat /\ InWait(v) /\ call[v] # "lock" => w.fat
    PROVE  SameLocks(v)
<1>1. lock'[o] = w /\ \A p \in Objects \ {o} : lock'[p] = lock[p]
  BY DEF ObjTypeOK
<1> QED
  BY <1>1 DEF SameLocks, ThinBy

(* A fat lock word leads findMonitor to the Monitor of the object: the     *)
(* table and all counts stay as they are.                                  *)
LEMMA findMonitorSafe ==
    ASSUME IInv, IInv', LInv, Balanced, NeverScavenges,
           NEW t \in Threads, findMonitor(t)
    PROVE  LInv'
<1> USE ThinLockAssumption DEF IInv, TypeOK, objVars, tblVars, ctrVars, monVars,
    thrVars
<1>1. ThreadOK(t) /\ PlaceOK(t) /\ CountsOK(t, obj[t])
  BY DEF LInv, ThreadLocksOK, LocalsTypeOK
<1>2. TableOK' /\ LockShape' /\ FreeIsZero'
  BY DEF findMonitor, LInv, TableOK, LockShape, FreeIsZero
<1>3. WaitersCounted'
  BY <1>1, WaitersKept DEF findMonitor, Found, Goto, locals, LInv, InWait,
     LocalsTypeOK
<1>4. \A v \in Threads \ {t} : Undisturbed(v)
  BY <1>1 DEF findMonitor, Found, Goto, locals, LocalsTypeOK, Undisturbed,
     SameThread, SameMonitors, SameLocks, ThinBy
<1>5. \A v \in Threads \ {t} : ThreadLocksOK(v)'
  BY <1>2, <1>4, OthersKeep
<1>6. \A p \in Objects \ {obj'[t]} : CountsOK(t, p)'
  BY <1>1, <1>2, ElsewhereKeeps DEF findMonitor, Found, Goto, locals
<1>7. CountsOK(t, obj[t])'
  BY <1>1, <1>2 DEF findMonitor, Found, Goto, locals, InWait, CountsOK,
     HeldIsSeen, ThinIsCounted, FatIsCounted, OwnsFat, InTransit,
     Transient, ThinBy
<1>8. PlaceOK(t)'
  BY <1>1, <1>2 DEF findMonitor, Found, Goto, locals, InWait, PlaceOK,
     CallAt, MonAt, Before, Inflating, Waiting, Unlocking, LocalsTypeOK,
     ThinBy, LockShape
<1> QED
  BY <1>2, <1>3, <1>5, <1>6, <1>7, <1>8 DEF LInv, ThreadLocksOK

(* findHashEntry gives an object without a Monitor a new one, and gives it *)
(* to no other: with room in the table nothing is scavenged, and what it   *)
(* takes off the list has no owner.                                        *)
LEMMA findHashEntrySafe ==
    ASSUME IInv, IInv', LInv, Balanced, NeverScavenges,
           NEW t \in Threads, findHashEntry(t)
    PROVE  LInv'
<1> USE ThinLockAssumption DEF IInv, TypeOK, objVars, tblVars, ctrVars, monVars,
    thrVars
<1>1. ThreadOK(t) /\ PlaceOK(t) /\ CountsOK(t, obj[t])
  BY DEF LInv, ThreadLocksOK, LocalsTypeOK
<1> DEFINE o == obj[t]
<1>2. /\ o \in Objects /\ pc[t] = "table" /\ obj' = obj /\ call' = call
      /\ pc' = [pc EXCEPT ![t] = IF call[t] = "unlock" THEN "trylock" ELSE "enter"]
      /\ \A v \in Threads \ {t} : mon'[v] = mon[v]
  BY DEF findHashEntry, Found, LocalsTypeOK
<1>3. /\ free_list' = {} /\ hash_size' = hash_size
      /\ \/ /\ cache[o] # Nil /\ mon'[t] = cache[o]
            /\ cache' = cache /\ fresh' = fresh
         \/ /\ cache[o] = Nil /\ mon'[t] \in fresh /\ fresh' = fresh \ {mon'[t]}
            /\ cache' = [cache EXCEPT ![o] = mon'[t]]
  <2>1. CASE cache[o] # Nil
    BY <2>1 DEF findHashEntry, Found, LocalsTypeOK, LInv, TableOK
  <2>2. CASE cache[o] = Nil
    <3>1. PICK m \in allocMonitor : addEntry(o, m) /\ Found(t, m)
      BY <2>2 DEF findHashEntry
    <3>2. free_list = {} /\ hash_size = HASHTABSZE
      BY DEF LInv, TableOK
    <3>3. m \in fresh /\ m # Nil /\ mon'[t] = m
      BY <3>1, <3>2 DEF allocMonitor, Found, LocalsTypeOK, TableTypeOK
    <3>4. (Cardinality(Cached) + 1) * 4 <= hash_size * 3
      <4>1. IsFiniteSet(Objects \ {o}) /\ Cardinality(Objects \ {o}) = Cardinality(Objects) - 1
        BY <1>2, FS_RemoveElement DEF NeverScavenges
      <4>2. Cached \in SUBSET (Objects \ {o})
        BY <2>2 DEF Cached
      <4>3. /\ IsFiniteSet(Cached)
            /\ Cardinality(Cached) <= Cardinality(Objects \ {o})
        BY <4>1, <4>2, FS_Subset
      <4>4. Cardinality(Cached) \in Nat /\ Cardinality(Objects) \in Nat
        BY <4>3, FS_CardinalityType DEF NeverScavenges
      <4> QED
        BY <3>2, <4>1, <4>3, <4>4 DEF NeverScavenges
    <3>5. /\ fresh' = fresh \ {m} /\ cache' = [cache EXCEPT ![o] = m]
          /\ free_list' = free_list \ {m} /\ hash_size' = hash_size
      <4>1. Cardinality(Cached) \in Int /\ hash_size \in Int
        BY <3>2, FS_Subset, FS_CardinalityType DEF Cached,
           NeverScavenges
      <4>2. ~((Cardinality(Cached) + 1) * 4 > hash_size * 3)
        BY <3>4, <4>1
      <4> QED
        BY <3>1, <4>2 DEF addEntry
    <3> QED
      BY <2>2, <3>2, <3>3, <3>5
  <2> QED
    BY <2>1, <2>2
<1>4. FreeIsZero' /\ lock' = lock /\ owner' = owner /\ count' = count
      /\ waiting' = waiting /\ depth' = depth /\ save' = save
  BY DEF findHashEntry, LInv, FreeIsZero
<1>5. /\ cache'[o] # Nil /\ cache'[o] = mon'[t] /\ cache'[o] \in Monitors
      /\ \A p \in Objects \ {o} : cache'[p] = cache[p]
      /\ cache[o] # Nil => cache' = cache
      /\ cache[o] = Nil => owner[mon'[t]] = Nil
  BY <1>2, <1>3 DEF LInv, TableOK, TableTypeOK
<1>6. TableOK'
  <2>1. \A p \in Objects : cache'[p] \notin fresh'
    BY <1>3, <1>5 DEF LInv, TableOK
  <2>2. \A p, q \in Objects : cache'[p] # Nil /\ cache'[p] = cache'[q] => p = q
    BY <1>3, <1>5 DEF LInv, TableOK
  <2> QED
    BY <1>3, <1>4, <2>1, <2>2 DEF LInv, TableOK
<1>7. LockShape'
  BY <1>4, <1>5 DEF LInv, LockShape, FatHasMonitor
<1>8. WaitersCounted'
  <2>1. \A v \in Threads : InWait(v)' = InWait(v) /\ (InWait(v) => mon'[v] = mon[v])
    BY <1>2 DEF InWait, LocalsTypeOK
  <2> QED
    BY <1>4, <2>1, WaitersKept DEF LInv
<1>9. \A v \in Threads \ {t} : ThreadLocksOK(v)'
  <2> SUFFICES ASSUME NEW v \in Threads \ {t} PROVE ThreadLocksOK(v)'
    OBVIOUS
  <2>1. SameThread(v) /\ SameMonitors(v)
    BY <1>2, <1>4 DEF SameThread, SameMonitors
  <2>2. SameLocks(v)
    BY <1>2, <1>4, <1>5 DEF SameLocks, ThinBy
  <2> QED
    BY <1>7, <2>1, <2>2, OthersKeep DEF Undisturbed
<1>10. \A p \in Objects \ {o} : CountsOK(t, p)'
  BY <1>2, <1>4, <1>5, <1>7, ElsewhereKeeps
<1>11. CountsOK(t, o)'
  BY <1>1, <1>2, <1>4, <1>5 DEF CountsOK, HeldIsSeen, ThinIsCounted,
     FatIsCounted, OwnsFat, InTransit, Transient, ThinBy, InWait
<1>12. PlaceOK(t)'
  BY <1>1, <1>2, <1>4, <1>5 DEF PlaceOK, CallAt, MonAt, Before, Inflating,
     Waiting, Unlocking, ThinBy, InWait
<1> QED
  BY <1>2, <1>4, <1>6, <1>7, <1>8, <1>9, <1>10, <1>11, <1>12 DEF LInv,
     ThreadLocksOK

(* monitorLock by the owner of the Monitor counts another lock, which the  *)
(* contender or the thread that inflates is still to account for; for      *)
(* others it only counts them as entering.                                 *)
LEMMA monitorLockSafe ==
    ASSUME IInv, IInv', LInv, Balanced, NeverScavenges,
           NEW t \in Threads, monitorLock(t)
    PROVE  LInv'
<1> USE ThinLockAssumption DEF IInv, TypeOK, objVars, tblVars, ctrVars, monVars,
    thrVars
<1>1. ThreadOK(t) /\ PlaceOK(t) /\ CountsOK(t, obj[t])
  BY DEF LInv, ThreadLocksOK, LocalsTypeOK
<1>2. TableOK' /\ LockShape'
  BY DEF monitorLock, LInv, TableOK, LockShape
<1>3. FreeIsZero'
  BY <1>1 DEF monitorLock, MonTypeOK, LInv, FreeIsZero
<1>4. WaitersCounted'
  BY <1>1, WaitersKept DEF monitorLock, Acquired, Goto, locals, LInv,
     InWait, LocalsTypeOK
<1>5. \A v \in Threads \ {t} : Undisturbed(v)
  BY <1>1 DEF monitorLock, Acquired, Goto, locals, LocalsTypeOK, MonTypeOK,
     ThreadTypeOK, Undisturbed, SameThread, SameMonitors, SameLocks, ThinBy
<1>6. \A v \in Threads \ {t} : ThreadLocksOK(v)'
  BY <1>2, <1>3, <1>5, OthersKeep
<1>7. \A p \in Objects \ {obj'[t]} : CountsOK(t, p)'
  BY <1>1, <1>2, <1>3, ElsewhereKeeps DEF monitorLock, Acquired, Goto,
     locals, PlaceOK, CallAt, MonAt, Inside, Waits, LocalsTypeOK,
     MonTypeOK, TableOK, TableTypeOK
<1>8. CountsOK(t, obj[t])'
  BY <1>1, <1>2, <1>3 DEF monitorLock, Acquired, Goto, locals, PlaceOK,
     CallAt, MonAt, Before, Waiting, LocalsTypeOK, MonTypeOK, CountsOK,
     HeldIsSeen, ThinIsCounted, FatIsCounted, OwnsFat, InTransit,
     Transient, ThinBy
<1>9. PlaceOK(t)'
  BY <1>1, <1>2, <1>3 DEF monitorLock, Acquired, Goto, locals, ThreadOK,
     WithMonitor, InWait, PlaceOK, CallAt, MonAt, Before, Inflating,
     Waiting, Unlocking, LocalsTypeOK, MonTypeOK, CountsOK, FatIsCounted,
     InTransit, Transient, ThinBy
<1> QED
  BY <1>2, <1>3, <1>4, <1>6, <1>7, <1>8, <1>9 DEF LInv, ThreadLocksOK

(* The store that ends entering++ touches no lock.                         *)
LEMMA storeEnteringSafe ==
    ASSUME IInv, IInv', LInv, Balanced, NeverScavenges,
           NEW t \in Threads, storeEntering(t)
    PROVE  LInv'
<1> USE ThinLockAssumption DEF IInv, TypeOK, objVars, tblVars, ctrVars, monVars,
    thrVars
<1>1. ThreadOK(t) /\ PlaceOK(t) /\ CountsOK(t, obj[t])
  BY DEF LInv, ThreadLocksOK, LocalsTypeOK
<1>2. TableOK' /\ LockShape' /\ FreeIsZero'
  BY DEF storeEntering, LInv, TableOK, LockShape, FreeIsZero
<1>3. WaitersCounted'
  BY <1>1, WaitersKept DEF storeEntering, Goto, locals, LInv, InWait
<1>4. \A v \in Threads \ {t} : Undisturbed(v)
  BY <1>1 DEF storeEntering, Goto, locals, Undisturbed, SameThread,
     SameMonitors, SameLocks, ThinBy
<1>5. \A v \in Threads \ {t} : ThreadLocksOK(v)'
  BY <1>2, <1>4, OthersKeep
<1>6. \A p \in Objects \ {obj'[t]} : CountsOK(t, p)'
  BY <1>1, <1>2, ElsewhereKeeps DEF storeEntering, Goto, locals
<1>7. CountsOK(t, obj[t])'
  BY <1>1, <1>2 DEF storeEntering, Goto, locals, InWait, CountsOK,
     HeldIsSeen, ThinIsCounted, FatIsCounted, OwnsFat, InTransit,
     Transient, ThinBy
<1>8. PlaceOK(t)'
  BY <1>1, <1>2 DEF storeEntering, Goto, locals, InWait, PlaceOK, CallAt,
     MonAt, Before, Inflating, Waiting, Unlocking, ThinBy
<1> QED
  BY <1>2, <1>3, <1>5, <1>6, <1>7, <1>8 DEF LInv, ThreadLocksOK

(* Taking the mutex of a Monitor makes the thread its owner, at a place    *)
(* where the object may not be fat yet.  Nobody owned the Monitor, and its *)
(* count was 0.                                                            *)
LEMMA monitorLockedSafe ==
    ASSUME IInv, IInv', LInv, Balanced, NeverScavenges,
           NEW t \in Threads, monitorLocked(t)
    PROVE  LInv'
<1> USE ThinLockAssumption DEF IInv, TypeOK, objVars, tblVars, ctrVars, monVars,
    thrVars
<1>1. ThreadOK(t) /\ PlaceOK(t) /\ CountsOK(t, obj[t])
  BY DEF LInv, ThreadLocksOK, LocalsTypeOK
<1>2. LockShape'
  BY DEF monitorLocked, LInv, LockShape
<1>3. TableOK'
  BY <1>1 DEF monitorLocked, PlaceOK, CallAt, MonAt, Inside, Waits,
     LocalsTypeOK, MonTypeOK, LInv, TableOK, TableTypeOK
<1>4. FreeIsZero'
  BY <1>1 DEF monitorLocked, MonTypeOK, LInv, FreeIsZero
<1>5. WaitersCounted'
  BY <1>1, WaitersKept DEF monitorLocked, Acquired, Goto, locals, LInv,
     InWait, LocalsTypeOK
<1>6. \A v \in Threads \ {t} : Undisturbed(v)
  BY <1>1 DEF monitorLocked, Acquired, Goto, locals, ThreadOK, WithMonitor,
     WithMutex, InWait, OwnerHoldsMutex, LocalsTypeOK, MonTypeOK,
     ThreadTypeOK, Undisturbed, SameThread, SameMonitors, SameLocks, ThinBy
<1>7. \A v \in Threads \ {t} : ThreadLocksOK(v)'
  BY <1>2, <1>3, <1>4, <1>6, OthersKeep
<1>8. \A p \in Objects \ {obj'[t]} : CountsOK(t, p)'
  BY <1>1, <1>2, <1>3, <1>4, ElsewhereKeeps DEF monitorLocked, Acquired,
     Goto, locals, PlaceOK, CallAt, MonAt, Inside, Waits, LocalsTypeOK,
     MonTypeOK, TableOK, TableTypeOK
<1>9. CountsOK(t, obj[t])'
  BY <1>1, <1>2, <1>3, <1>4 DEF monitorLocked, Acquired, Goto, locals,
     PlaceOK, CallAt, MonAt, Before, Waiting, Inside, Waits, LocalsTypeOK,
     MonTypeOK, CountsOK, HeldIsSeen, ThinIsCounted, FatIsCounted, OwnsFat,
     InTransit, Transient, ThinBy, LockShape
<1>10. PlaceOK(t)'
  BY <1>1, <1>2, <1>3, <1>4 DEF monitorLocked, Acquired, Goto, locals,
     InWait, OwnerHoldsMutex, PlaceOK, CallAt, MonAt, Before, Inflating,
     Waiting, Unlocking, LocalsTypeOK, MonTypeOK, ObjTypeOK, CountsOK,
     HeldIsSeen, OwnsFat, ThinBy, LInv, LockShape, FreeIsZero
<1> QED
  BY <1>2, <1>3, <1>4, <1>5, <1>7, <1>8, <1>9, <1>10 DEF LInv,
     ThreadLocksOK

(* So does the store that ends entering-- on several processors, where the *)
(* mutex was taken a step before.                                          *)
LEMMA storeEnteredSafe ==
    ASSUME IInv, IInv', LInv, Balanced, NeverScavenges,
           NEW t \in Threads, storeEntered(t)
    PROVE  LInv'
<1> USE ThinLockAssumption DEF IInv, TypeOK, objVars, tblVars, ctrVars, monVars,
    thrVars
<1>1. ThreadOK(t) /\ PlaceOK(t) /\ CountsOK(t, obj[t])
  BY DEF LInv, ThreadLocksOK, LocalsTypeOK
<1>2. LockShape'
  BY DEF storeEntered, LInv, LockShape
<1>3. TableOK'
  BY <1>1 DEF storeEntered, PlaceOK, CallAt, MonAt, Inside, Waits,
     LocalsTypeOK, MonTypeOK, LInv, TableOK
<1>4. FreeIsZero'
  BY <1>1 DEF storeEntered, LInv, FreeIsZero
<1>5. WaitersCounted'
  BY <1>1, WaitersKept DEF storeEntered, Acquired, Goto, locals, LInv,
     InWait
<1>6. \A v \in Threads \ {t} : Undisturbed(v)
  BY <1>1 DEF storeEntered, Acquired, Goto, locals, OwnerHoldsMutex,
     Undisturbed, SameThread, SameMonitors, SameLocks, ThinBy
<1>7. \A v \in Threads \ {t} : ThreadLocksOK(v)'
  BY <1>2, <1>3, <1>4, <1>6, OthersKeep
<1>8. \A p \in Objects \ {obj'[t]} : CountsOK(t, p)'
  BY <1>1, <1>2, <1>3, <1>4, ElsewhereKeeps DEF storeEntered, Acquired,
     Goto, locals, PlaceOK, CallAt, MonAt, Inside, Waits, LocalsTypeOK,
     TableOK
<1>9. CountsOK(t, obj[t])'
  BY <1>1, <1>2, <1>3, <1>4 DEF storeEntered, Acquired, Goto, locals,
     PlaceOK, CallAt, Before, Waiting, LocalsTypeOK, CountsOK, HeldIsSeen,
     ThinIsCounted, FatIsCounted, OwnsFat, InTransit, Transient, ThinBy
<1>10. PlaceOK(t)'
  BY <1>1, <1>2, <1>3, <1>4 DEF storeEntered, Acquired, Goto, locals,
     InWait, OwnerHoldsMutex, PlaceOK, CallAt, MonAt, Before, Inflating,
     Waiting, Unlocking, LocalsTypeOK, MonTypeOK, ObjTypeOK, CountsOK,
     HeldIsSeen, OwnsFat, ThinBy, LInv, LockShape, FreeIsZero
<1> QED
  BY <1>2, <1>3, <1>4, <1>5, <1>7, <1>8, <1>9, <1>10 DEF LInv,
     ThreadLocksOK

(* A contender that has the Monitor of a fat object enters: the count of   *)
(* the Monitor, which was the depth, is now one less.                      *)
LEMMA contendSafe ==
    ASSUME IInv, IInv', LInv, Balanced, NeverScavenges,
           NEW t \in Threads, contend(t)
    PROVE  LInv'
<1> USE ThinLockAssumption DEF IInv, TypeOK, objVars, tblVars, ctrVars, monVars,
    thrVars
<1>1. ThreadOK(t) /\ PlaceOK(t) /\ CountsOK(t, obj[t])
  BY DEF LInv, ThreadLocksOK, LocalsTypeOK
<1>2. TableOK' /\ LockShape' /\ FreeIsZero'
  BY DEF contend, LInv, TableOK, LockShape, FreeIsZero
<1>3. WaitersCounted'
  BY <1>1, WaitersKept DEF contend, Return, Goto, locals, LInv, InWait,
     LocalsTypeOK
<1>4. \A v \in Threads \ {t} : Undisturbed(v)
  BY <1>1 DEF contend, Locked, Return, Goto, locals, LocalsTypeOK,
     ObjTypeOK, Undisturbed, SameThread, SameMonitors, SameLocks, ThinBy
<1>5. \A v \in Threads \ {t} : ThreadLocksOK(v)'
  BY <1>2, <1>4, OthersKeep
<1>6. \A p \in Objects \ {obj'[t]} : CountsOK(t, p)'
  BY <1>1, <1>2, ElsewhereKeeps DEF contend, Locked, Return, Goto, locals,
     ObjTypeOK
<1>7. CountsOK(t, obj[t])'
  BY <1>1, <1>2 DEF contend, Locked, Return, Goto, locals, ThreadOK,
     WithMonitor, PlaceOK, CallAt, MonAt, Inflating, LocalsTypeOK,
     ObjTypeOK, CountsOK, HeldIsSeen, ThinIsCounted, FatIsCounted, OwnsFat,
     InTransit, Transient, ThinBy, LockShape
<1>8. PlaceOK(t)'
  BY <1>1, <1>2 DEF contend, Return, Goto, locals, InWait, PlaceOK, CallAt,
     MonAt, Before, Inflating, Waiting, Unlocking, Zero, LocalsTypeOK,
     ObjTypeOK
<1> QED
  BY <1>2, <1>3, <1>5, <1>6, <1>7, <1>8 DEF LInv, ThreadLocksOK

(* Setting the contention bit changes no lock.                             *)
LEMMA set_flc_bitSafe ==
    ASSUME IInv, IInv', LInv, Balanced, NeverScavenges,
           NEW t \in Threads, set_flc_bit(t)
    PROVE  LInv'
<1> USE ThinLockAssumption DEF IInv, TypeOK, objVars, tblVars, ctrVars, monVars,
    thrVars
<1>1. ThreadOK(t) /\ PlaceOK(t) /\ CountsOK(t, obj[t])
  BY DEF LInv, ThreadLocksOK, LocalsTypeOK
<1>2. TableOK' /\ LockShape' /\ FreeIsZero'
  BY DEF set_flc_bit, LInv, TableOK, LockShape, FreeIsZero
<1>3. WaitersCounted'
  BY <1>1, WaitersKept DEF set_flc_bit, Goto, locals, LInv, InWait
<1>4. \A v \in Threads \ {t} : Undisturbed(v)
  BY <1>1 DEF set_flc_bit, Goto, locals, Undisturbed, SameThread,
     SameMonitors, SameLocks, ThinBy
<1>5. \A v \in Threads \ {t} : ThreadLocksOK(v)'
  BY <1>2, <1>4, OthersKeep
<1>6. \A p \in Objects \ {obj'[t]} : CountsOK(t, p)'
  BY <1>1, <1>2, ElsewhereKeeps DEF set_flc_bit, Goto, locals
<1>7. CountsOK(t, obj[t])'
  BY <1>1, <1>2 DEF set_flc_bit, Goto, locals, InWait, CountsOK,
     HeldIsSeen, ThinIsCounted, FatIsCounted, OwnsFat, InTransit,
     Transient, ThinBy
<1>8. PlaceOK(t)'
  BY <1>1, <1>2 DEF set_flc_bit, Goto, locals, InWait, PlaceOK, CallAt,
     MonAt, Before, Inflating, Waiting, Unlocking, Zero
<1> QED
  BY <1>2, <1>3, <1>5, <1>6, <1>7, <1>8 DEF LInv, ThreadLocksOK

(* A contender that finds the lock word empty stores a word that belongs   *)
(* to no thread; nobody has the object at that moment, thin or fat.        *)
LEMMA compareAndSwapSafe ==
    ASSUME IInv, IInv', LInv, Balanced, NeverScavenges,
           NEW t \in Threads, compareAndSwap(t)
    PROVE  LInv'
<1> USE ThinLockAssumption DEF IInv, TypeOK, objVars, tblVars, ctrVars, monVars,
    thrVars
<1>1. ThreadOK(t) /\ PlaceOK(t) /\ CountsOK(t, obj[t])
  BY DEF LInv, ThreadLocksOK, LocalsTypeOK
<1>2. TableOK' /\ FreeIsZero'
  BY DEF compareAndSwap, LInv, TableOK, FreeIsZero
<1>3. LockShape'
  BY <1>1 DEF compareAndSwap, SelfPtr, Thin, ObjTypeOK, LInv, LockShape
<1>4. WaitersCounted'
  BY <1>1, WaitersKept DEF compareAndSwap, Goto, locals, LInv, InWait,
     LocalsTypeOK
<1>5. \A v \in Threads \ {t} : Undisturbed(v)
  BY <1>1 DEF compareAndSwap, Goto, locals, Unlocked, SelfPtr, Thin,
     InWait, LocalsTypeOK, MonTypeOK, ObjTypeOK, ThreadTypeOK, Undisturbed,
     SameThread, SameMonitors, SameLocks, ThinBy
<1>6. \A v \in Threads \ {t} : ThreadLocksOK(v)'
  BY <1>2, <1>3, <1>5, OthersKeep
<1>7. \A p \in Objects \ {obj'[t]} : CountsOK(t, p)'
  BY <1>1, <1>2, <1>3, ElsewhereKeeps DEF compareAndSwap, Goto, locals,
     ObjTypeOK
<1>8. CountsOK(t, obj[t])'
  BY <1>1, <1>2, <1>3 DEF compareAndSwap, Goto, locals, Unlocked, SelfPtr,
     Thin, PlaceOK, CallAt, Waiting, LocalsTypeOK, ObjTypeOK, CountsOK,
     HeldIsSeen, ThinIsCounted, FatIsCounted, OwnsFat, InTransit,
     Transient, ThinBy
<1>9. PlaceOK(t)'
  <2>1. CASE lock[obj[t]] = Unlocked
    <3>1. /\ pc[t] = "cas" /\ pc'[t] = "inflate" /\ call[t] = "lock"
          /\ obj'[t] = obj[t] /\ mon'[t] = mon[t] /\ call'[t] = call[t]
          /\ lock'[obj[t]] = SelfPtr /\ Zero(t) /\ Zero(t)'
      BY <1>1, <2>1 DEF compareAndSwap, Goto, locals, PlaceOK, CallAt,
         Inflating, Zero, LocalsTypeOK, ObjTypeOK
    <3> QED
      BY <1>1, <3>1 DEF PlaceOK, CallAt, MonAt, Before, Inflating,
         Waiting, Unlocking, Zero, Inside, Waits, InWait,
         compareAndSwap
  <2>2. CASE lock[obj[t]] # Unlocked
    <3>1. ~ThinBy(t, obj[t])
      BY <1>1 DEF compareAndSwap, CountsOK, ThinIsCounted, PlaceOK,
         Inflating, Zero, ObjTypeOK, LockWord, LocalsTypeOK
    <3> QED
      BY <1>1, <2>2, <3>1 DEF compareAndSwap, Goto, locals, InWait,
         PlaceOK, CallAt, MonAt, Before, Inflating, Waiting, Unlocking,
         Zero, LocalsTypeOK, ThinBy
  <2> QED
    BY <2>1, <2>2
<1> QED
  BY <1>2, <1>3, <1>4, <1>6, <1>7, <1>8, <1>9 DEF LInv, ThreadLocksOK

(* inflate clears the contention bit and wakes those who wait: a woken     *)
(* thread is where it was for its own part of the invariant.               *)
LEMMA inflateSafe ==
    ASSUME IInv, IInv', LInv, Balanced, NeverScavenges,
           NEW t \in Threads, inflate(t)
    PROVE  LInv'
<1> USE ThinLockAssumption DEF IInv, TypeOK, objVars, tblVars, ctrVars, monVars,
    thrVars
<1>1. ThreadOK(t) /\ PlaceOK(t) /\ CountsOK(t, obj[t])
  BY DEF LInv, ThreadLocksOK, LocalsTypeOK
<1>2. TableOK' /\ LockShape' /\ FreeIsZero'
  BY DEF inflate, LInv, TableOK, LockShape, FreeIsZero
<1>3. WaitersCounted'
  BY <1>1, WaitersKept DEF inflate, NotifyAll, Wake, Parked, locals, LInv,
     InWait
<1>4. \A v \in Threads \ {t} : Undisturbed(v)
  BY <1>1 DEF inflate, NotifyAll, Wake, Parked, locals, Undisturbed,
     SameThread, SameMonitors, SameLocks, ThinBy
<1>5. \A v \in Threads \ {t} : ThreadLocksOK(v)'
  BY <1>2, <1>4, OthersKeep
<1>6. \A p \in Objects \ {obj'[t]} : CountsOK(t, p)'
  BY <1>1, <1>2, ElsewhereKeeps DEF inflate, NotifyAll, Wake, locals
<1>7. CountsOK(t, obj[t])'
  BY <1>1, <1>2 DEF inflate, NotifyAll, Wake, locals, InWait, CountsOK,
     HeldIsSeen, ThinIsCounted, FatIsCounted, OwnsFat, InTransit,
     Transient, ThinBy
<1>8. PlaceOK(t)'
  BY <1>1, <1>2 DEF inflate, NotifyAll, Wake, locals, InWait, PlaceOK,
     CallAt, MonAt, Before, Inflating, Waiting, Unlocking, Zero, ThinBy
<1> QED
  BY <1>2, <1>3, <1>5, <1>6, <1>7, <1>8 DEF LInv, ThreadLocksOK

(* The lock becomes fat, with the count of the thin one carried over: for  *)
(* the contender with 0, at the overflow with the lock that overflowed, in *)
(* a wait with the locks of the waiter.                                    *)
LEMMA fattenSafe ==
    ASSUME IInv, IInv', LInv, Balanced, NeverScavenges,
           NEW t \in Threads, fatten(t)
    PROVE  LInv'
<1> USE ThinLockAssumption DEF IInv, TypeOK, objVars, tblVars, ctrVars, monVars,
    thrVars
<1>1. ThreadOK(t) /\ PlaceOK(t) /\ CountsOK(t, obj[t])
  BY DEF LInv, ThreadLocksOK, LocalsTypeOK
<1>2. TableOK'
  BY DEF fatten, LInv, TableOK
<1>3. LockShape'
  BY <1>1 DEF fatten, Fat, ThreadOK, WithMonitor, PlaceOK, MonAt, LInv,
     LockShape
<1>4. FreeIsZero'
  BY <1>1 DEF fatten, PlaceOK, Inflating, MonTypeOK, LInv, FreeIsZero
<1>5. WaitersCounted'
  BY <1>1, WaitersKept DEF fatten, Return, Goto, locals, LInv, InWait,
     LocalsTypeOK
<1>6. \A v \in Threads \ {t} : SameThread(v)
  BY <1>1 DEF fatten, Locked, Return, Goto, locals, LocalsTypeOK,
     ObjTypeOK, SameThread
<1>7. \A v \in Threads \ {t} : SameMonitors(v)
  BY <1>1 DEF fatten, PlaceOK, Inflating, MonTypeOK, SameMonitors
<1>8. \A v \in Threads \ {t} : SameLocks(v)
  <2> SUFFICES ASSUME NEW v \in Threads \ {t} PROVE SameLocks(v)
    OBVIOUS
  <2> DEFINE o == obj[t]
  <2>1. /\ o \in Objects /\ lock' = [lock EXCEPT ![o] = Fat(mon[t])]
        /\ cache' = cache /\ Fat(mon[t]).fat
    BY DEF fatten, LocalsTypeOK, Fat
  <2>2. /\ cache[o] = mon[t] /\ owner[cache[o]] = t
        /\ ~ThinBy(v, o)
    BY <1>1 DEF fatten, ThreadOK, WithMonitor, PlaceOK, CallAt, MonAt,
       Inflating, ThinBy, SelfPtr, Thin
  <2>3. ASSUME obj[v] = o, pc[v] \in {"inflate", "fatten"}
        PROVE  FALSE
    <3>1. owner[mon[v]] = v /\ mon[v] = cache[o]
      BY <2>3 DEF LInv, ThreadLocksOK, PlaceOK, CallAt, MonAt,
         Inflating, ThreadOK, WithMonitor, Inside, Waits
    <3> QED
      BY <2>2, <3>1
  <2> HIDE DEF o
  <2> QED
    BY <2>1, <2>2, <2>3, OneLockChanges
<1>9. \A v \in Threads \ {t} : Undisturbed(v)
  BY <1>6, <1>7, <1>8 DEF Undisturbed
<1>10. \A v \in Threads \ {t} : ThreadLocksOK(v)'
  BY <1>2, <1>3, <1>4, <1>9, OthersKeep
<1>11. \A p \in Objects \ {obj'[t]} : CountsOK(t, p)'
  <2> SUFFICES ASSUME NEW p \in Objects \ {obj'[t]} PROVE CountsOK(t, p)'
    OBVIOUS
  <2>1. obj' = obj /\ cache' = cache /\ owner' = owner /\ mon[t] = cache[obj[t]]
        /\ cache[obj[t]] # Nil
    BY <1>1 DEF fatten, Goto, Return, locals, PlaceOK, MonAt, ThreadOK,
       WithMonitor
  <2>2. cache[p] # Nil => count'[cache[p]] = count[cache[p]]
    <3>1. cache[p] # Nil => cache[p] # mon[t] /\ cache[p] \in Monitors
      BY <2>1 DEF LInv, TableOK, LocalsTypeOK, TableTypeOK
    <3> QED
      BY <3>1 DEF fatten, MonTypeOK
  <2>3. lock'[p] = lock[p] /\ depth'[t][p] = depth[t][p]
    BY <2>1 DEF fatten, Locked, ObjTypeOK
  <2> QED
    BY <1>3, <2>1, <2>2, <2>3, ElsewhereKeeps
<1>12. CountsOK(t, obj[t])'
  <2> DEFINE o == obj[t]
  <2>1. /\ o \in Objects /\ mon[t] \in Monitors /\ cache[o] = mon[t]
        /\ owner[mon[t]] = t /\ depth[t] \in [Objects -> Nat]
        /\ depth[t][o] \in Nat /\ ~InWait(t)
    BY <1>1 DEF fatten, ThreadOK, WithMonitor, PlaceOK, MonAt, Inflating,
       LocalsTypeOK, ObjTypeOK, InWait
  <2>2. /\ obj' = obj /\ cache' = cache /\ owner' = owner
        /\ lock'[o].fat /\ lock'[o].mon = mon[t]
    BY <2>1 DEF fatten, Goto, Return, locals, Fat, ObjTypeOK
  <2>3. CASE call[t] = "lock"
    <3>1. pc'[t] = "loop" /\ mon' = mon /\ call' = call /\ depth' = depth
      BY <2>3 DEF fatten, Goto, locals, LocalsTypeOK
    <3> QED
      BY <2>1, <2>2, <3>1 DEF CountsOK, HeldIsSeen, ThinIsCounted,
         FatIsCounted, OwnsFat, InTransit, Transient, ThinBy
  <2>4. CASE call[t] # "lock"
    <3>1. ThinBy(t, o) /\ depth[t][o] = lock[o].count + 1 /\ lock[o].count \in Nat
      BY <1>1, <2>4 DEF fatten, CountsOK, ThinIsCounted, PlaceOK,
         Inflating, Inside, Waits, ObjTypeOK, LockWord
    <3>2. depth'[t][o] = count'[cache[o]] + 1
      <4>1. CASE call[t] = "overflow"
        <5>1. /\ depth'[t][o] = depth[t][o] + 1
              /\ count'[mon[t]] = 2^COUNT_SIZE
              /\ lock[o].count = MaxCount
          BY <1>1, <2>1, <4>1 DEF fatten, Locked, ObjTypeOK,
             MonTypeOK, PlaceOK, Inflating
        <5> QED
          BY <2>1, <3>1, <5>1 DEF MaxCount
      <4>2. CASE call[t] \in Waits
        <5>1. depth'[t][o] = depth[t][o] /\ count'[mon[t]] = lock[o].count
          BY <2>1, <4>2 DEF fatten, MonTypeOK, Waits
        <5> QED
          BY <2>1, <3>1, <5>1
      <4> QED
        BY <2>4, <4>1, <4>2 DEF fatten, Waits
    <3> QED
      BY <2>1, <2>2, <3>2 DEF CountsOK, HeldIsSeen, ThinIsCounted,
         FatIsCounted, OwnsFat, ThinBy
  <2> QED
    BY <2>3, <2>4
<1>13. PlaceOK(t)'
  BY <1>1, <1>2, <1>3, <1>4 DEF fatten, Locked, Return, Fat, Goto, locals,
     ThreadOK, WithMonitor, WithMutex, InWait, OwnerHoldsMutex, PlaceOK,
     CallAt, MonAt, Before, Inflating, Waiting, Unlocking, Zero, Inside,
     Waits, LocalsTypeOK, MonTypeOK, ObjTypeOK, ThreadTypeOK, CountsOK,
     HeldIsSeen, ThinIsCounted, FatIsCounted, OwnsFat, InTransit,
     Transient, ThinBy, LInv, LockShape, FatHasMonitor, LockWord,
     FreeIsZero
<1> QED
  BY <1>2, <1>3, <1>4, <1>5, <1>10, <1>11, <1>12, <1>13 DEF LInv,
     ThreadLocksOK

(* monitorWait saves the count of its Monitor and gives it up: what the    *)
(* thread had locked is in save until it goes on.                          *)
LEMMA monitorWaitSafe ==
    ASSUME IInv, IInv', LInv, Balanced, NeverScavenges,
           NEW t \in Threads, monitorWait(t)
    PROVE  LInv'
<1> USE ThinLockAssumption DEF IInv, TypeOK, objVars, tblVars, ctrVars, monVars,
    thrVars
<1>1. ThreadOK(t) /\ PlaceOK(t) /\ CountsOK(t, obj[t])
  BY DEF LInv, ThreadLocksOK, LocalsTypeOK
<1>2. LockShape'
  BY DEF monitorWait, LInv, LockShape
<1>3. TableOK'
  BY <1>1 DEF monitorWait, MonTypeOK, LInv, TableOK, TableTypeOK
<1>4. FreeIsZero'
  BY <1>1 DEF monitorWait, MonTypeOK, LInv, FreeIsZero
<1>5. WaitersCounted'
  <2>1. mon[t] \in Monitors /\ ~InWait(t) /\ WaitersCounted /\ mon' = mon
    BY <1>1 DEF monitorWait, Goto, locals, ThreadOK, WithMonitor,
       LocalsTypeOK, InWait, LInv
  <2>2. \A u \in Threads \ {t} : InWait(u)' = InWait(u)
    BY DEF monitorWait, Goto, InWait, LocalsTypeOK
  <2>3. CASE owner[mon[t]] = t
    <3>1. InWait(t)' /\ waiting' = [waiting EXCEPT ![mon[t]] = @ + 1]
      BY <2>3 DEF monitorWait, Goto, InWait, LocalsTypeOK
    <3> QED
      BY <2>1, <2>2, <3>1, WaiterEnters
  <2>4. CASE owner[mon[t]] # t
    <3>1. InWait(t)' = InWait(t) /\ waiting' = waiting
      BY <2>4 DEF monitorWait, Goto, InWait, LocalsTypeOK
    <3> QED
      BY <2>1, <2>2, <3>1, WaitersKept
  <2> QED
    BY <2>3, <2>4
<1>6. \A v \in Threads \ {t} : Undisturbed(v)
  BY <1>1 DEF monitorWait, Goto, locals, LocalsTypeOK, MonTypeOK,
     ThreadTypeOK, Undisturbed, SameThread, SameMonitors, SameLocks, ThinBy
<1>7. \A v \in Threads \ {t} : ThreadLocksOK(v)'
  BY <1>2, <1>3, <1>4, <1>6, OthersKeep
<1>8. \A p \in Objects \ {obj'[t]} : CountsOK(t, p)'
  BY <1>1, <1>2, <1>3, <1>4, ElsewhereKeeps DEF monitorWait, Goto, locals,
     PlaceOK, CallAt, MonAt, Waits, LocalsTypeOK, MonTypeOK, TableOK,
     TableTypeOK
<1>9. CountsOK(t, obj[t])'
  BY <1>1, <1>2, <1>3, <1>4 DEF monitorWait, Goto, locals, InWait, PlaceOK,
     CallAt, MonAt, Waits, LocalsTypeOK, MonTypeOK, CountsOK, HeldIsSeen,
     ThinIsCounted, FatIsCounted, OwnsFat, InTransit, ThinBy
<1>10. PlaceOK(t)'
  BY <1>1, <1>2, <1>3, <1>4 DEF monitorWait, Goto, locals, ThreadOK,
     WithMonitor, WithMutex, InWait, OwnerHoldsMutex, PlaceOK, CallAt,
     MonAt, Before, Inflating, Waiting, Unlocking, Zero, Inside, Waits,
     LocalsTypeOK, MonTypeOK, ObjTypeOK, ThreadTypeOK, CountsOK,
     HeldIsSeen, ThinIsCounted, FatIsCounted, OwnsFat, InTransit,
     Transient, ThinBy, LInv, LockShape, FatHasMonitor, LockWord,
     FreeIsZero
<1> QED
  BY <1>2, <1>3, <1>4, <1>5, <1>7, <1>8, <1>9, <1>10 DEF LInv,
     ThreadLocksOK

(* A thread that finds itself interrupted takes back the Monitor with the  *)
(* count it has saved, and the one that parks releases the mutex.          *)
LEMMA testInterruptedSafe ==
    ASSUME IInv, IInv', LInv, Balanced, NeverScavenges,
           NEW t \in Threads, testInterrupted(t)
    PROVE  LInv'
<1> USE ThinLockAssumption DEF IInv, TypeOK, objVars, tblVars, ctrVars, monVars,
    thrVars
<1>1. ThreadOK(t) /\ PlaceOK(t) /\ CountsOK(t, obj[t])
  BY DEF LInv, ThreadLocksOK, LocalsTypeOK
<1>2. LockShape'
  BY DEF testInterrupted, LInv, LockShape
<1>3. TableOK'
  BY <1>1 DEF testInterrupted, Out, PlaceOK, CallAt, MonAt, Waits,
     LocalsTypeOK, MonTypeOK, LInv, TableOK, TableTypeOK
<1>4. FreeIsZero'
  BY <1>1 DEF testInterrupted, Out, MonTypeOK, LInv, FreeIsZero
<1>5. WaitersCounted'
  BY <1>1, WaiterLeaves, WaitersKept DEF testInterrupted, Out, Goto,
     locals, LInv, InWait, LocalsTypeOK, ThreadOK, WithMonitor
<1>6. \A v \in Threads \ {t} : Undisturbed(v)
  BY <1>1 DEF testInterrupted, Out, Goto, locals, ThreadOK, LocalsTypeOK,
     MonTypeOK, ThreadTypeOK, Undisturbed, SameThread, SameMonitors,
     SameLocks, ThinBy
<1>7. \A v \in Threads \ {t} : ThreadLocksOK(v)'
  BY <1>2, <1>3, <1>4, <1>6, OthersKeep
<1>8. \A p \in Objects \ {obj'[t]} : CountsOK(t, p)'
  BY <1>1, <1>2, <1>3, <1>4, ElsewhereKeeps DEF testInterrupted, Out, Goto,
     locals, PlaceOK, CallAt, MonAt, Waits, LocalsTypeOK, MonTypeOK,
     TableOK, TableTypeOK
<1>9. CountsOK(t, obj[t])'
  BY <1>1, <1>2, <1>3, <1>4 DEF testInterrupted, Out, Goto, locals,
     ThreadOK, WithMonitor, InWait, PlaceOK, CallAt, MonAt, Waiting, Waits,
     LocalsTypeOK, MonTypeOK, CountsOK, HeldIsSeen, ThinIsCounted,
     FatIsCounted, OwnsFat, InTransit, Transient, ThinBy, LockShape
<1>10. PlaceOK(t)'
  BY <1>1, <1>2, <1>3, <1>4 DEF testInterrupted, Out, Goto, locals,
     ThreadOK, WithMonitor, InWait, PlaceOK, CallAt, MonAt, Before,
     Inflating, Waiting, Unlocking, Zero, Waits, LocalsTypeOK, MonTypeOK
<1> QED
  BY <1>2, <1>3, <1>4, <1>5, <1>7, <1>8, <1>9, <1>10 DEF LInv,
     ThreadLocksOK

(* So does a waiter that was notified or interrupted, once it has the      *)
(* mutex; the Monitor had no owner meanwhile, and the lock stayed fat.     *)
LEMMA wakeSafe ==
    ASSUME IInv, IInv', LInv, Balanced, NeverScavenges,
           NEW t \in Threads, wake(t)
    PROVE  LInv'
<1> USE ThinLockAssumption DEF IInv, TypeOK, objVars, tblVars, ctrVars, monVars,
    thrVars
<1>1. ThreadOK(t) /\ PlaceOK(t) /\ CountsOK(t, obj[t])
  BY DEF LInv, ThreadLocksOK, LocalsTypeOK
<1>2. LockShape'
  BY DEF wake, LInv, LockShape
<1>3. TableOK'
  BY <1>1 DEF wake, Out, PlaceOK, CallAt, MonAt, Waits, LocalsTypeOK,
     MonTypeOK, LInv, TableOK, TableTypeOK
<1>4. FreeIsZero'
  BY <1>1 DEF wake, Out, MonTypeOK, LInv, FreeIsZero
<1>5. WaitersCounted'
  BY <1>1, WaiterLeaves, WaitersKept DEF wake, Out, Resume, Return, Goto,
     locals, LInv, InWait, LocalsTypeOK, ThreadOK, WithMonitor
<1>6. \A v \in Threads \ {t} : SameThread(v)
  BY <1>1 DEF wake, Out, Resume, Return, Goto, locals, LocalsTypeOK,
     ThreadTypeOK, SameThread
<1>7. \A v \in Threads \ {t} : SameMonitors(v)
  <2>1. mon[t] \in Monitors /\ owner[mon[t]] = Nil
    BY <1>1 DEF wake, ThreadOK, WithMonitor, LocalsTypeOK,
       OwnerHoldsMutex
  <2>2. \/ owner' = owner /\ count' = count /\ waiting' = waiting
        \/ /\ owner' = [owner EXCEPT ![mon[t]] = t]
           /\ count' = [count EXCEPT ![mon[t]] = save[t]]
           /\ waiting' = [waiting EXCEPT ![mon[t]] = @ - 1]
    BY DEF wake, Out
  <2> QED
    BY <2>1, <2>2 DEF SameMonitors, MonTypeOK
<1>8. \A v \in Threads \ {t} : SameLocks(v)
  BY <1>1 DEF wake, SameLocks, ThinBy
<1>9. \A v \in Threads \ {t} : Undisturbed(v)
  BY <1>6, <1>7, <1>8 DEF Undisturbed
<1>10. \A v \in Threads \ {t} : ThreadLocksOK(v)'
  BY <1>2, <1>3, <1>4, <1>9, OthersKeep
<1>11. \A p \in Objects \ {obj'[t]} : CountsOK(t, p)'
  BY <1>1, <1>2, <1>3, <1>4, ElsewhereKeeps DEF wake, Out, Resume, Return,
     Goto, locals, PlaceOK, CallAt, MonAt, Waits, LocalsTypeOK, MonTypeOK,
     TableOK, TableTypeOK
<1>12. CountsOK(t, obj[t])'
  BY <1>1, <1>2, <1>3, <1>4 DEF wake, Out, Resume, Return, Goto, locals,
     ThreadOK, WithMonitor, InWait, PlaceOK, CallAt, MonAt, Waiting, Waits,
     LocalsTypeOK, MonTypeOK, CountsOK, HeldIsSeen, ThinIsCounted,
     FatIsCounted, OwnsFat, InTransit, Transient, ThinBy, LockShape
<1>13. PlaceOK(t)'
  BY <1>1, <1>2, <1>3, <1>4 DEF wake, Out, Resume, Return, Goto, locals,
     ThreadOK, WithMonitor, InWait, PlaceOK, CallAt, MonAt, Before,
     Inflating, Waiting, Unlocking, Zero, Waits, LocalsTypeOK, MonTypeOK
<1> QED
  BY <1>2, <1>3, <1>4, <1>5, <1>10, <1>11, <1>12, <1>13 DEF LInv,
     ThreadLocksOK

(* So does a waiter whose time is up.                                      *)
LEMMA timedOutSafe ==
    ASSUME IInv, IInv', LInv, Balanced, NeverScavenges,
           NEW t \in Threads, timedOut(t)
    PROVE  LInv'
<1> USE ThinLockAssumption DEF IInv, TypeOK, objVars, tblVars, ctrVars, monVars,
    thrVars
<1>1. ThreadOK(t) /\ PlaceOK(t) /\ CountsOK(t, obj[t])
  BY DEF LInv, ThreadLocksOK, LocalsTypeOK
<1>2. LockShape'
  BY DEF timedOut, LInv, LockShape
<1>3. TableOK'
  BY <1>1 DEF timedOut, Out, PlaceOK, CallAt, MonAt, Waits, LocalsTypeOK,
     MonTypeOK, LInv, TableOK
<1>4. FreeIsZero'
  BY <1>1 DEF timedOut, Out, MonTypeOK, LInv, FreeIsZero
<1>5. WaitersCounted'
  <2>1. mon[t] \in Monitors /\ InWait(t) /\ WaitersCounted
    BY <1>1 DEF timedOut, ThreadOK, WithMonitor, LocalsTypeOK, InWait,
       LInv
  <2>2. /\ ~InWait(t)' /\ waiting' = [waiting EXCEPT ![mon[t]] = @ - 1]
        /\ \A u \in Threads \ {t} : InWait(u)' = InWait(u) /\ mon'[u] = mon[u]
    BY DEF timedOut, Out, Resume, Return, Goto, locals, InWait,
       LocalsTypeOK
  <2> QED
    BY <2>1, <2>2, WaiterLeaves
<1>6. \A v \in Threads \ {t} : SameThread(v)
  BY <1>1 DEF timedOut, Out, Resume, Return, Goto, locals, LocalsTypeOK,
     SameThread
<1>7. \A v \in Threads \ {t} : SameMonitors(v)
  BY <1>1 DEF timedOut, Out, OwnerHoldsMutex, SameMonitors
<1>8. \A v \in Threads \ {t} : SameLocks(v)
  BY <1>1 DEF timedOut, SameLocks, ThinBy
<1>9. \A v \in Threads \ {t} : Undisturbed(v)
  BY <1>6, <1>7, <1>8 DEF Undisturbed
<1>10. \A v \in Threads \ {t} : ThreadLocksOK(v)'
  BY <1>2, <1>3, <1>4, <1>9, OthersKeep
<1>11. \A p \in Objects \ {obj'[t]} : CountsOK(t, p)'
  <2> SUFFICES ASSUME NEW p \in Objects \ {obj'[t]} PROVE CountsOK(t, p)'
    OBVIOUS
  <2>1. /\ obj' = obj /\ cache' = cache /\ lock' = lock /\ depth' = depth
        /\ mon[t] = cache[obj[t]] /\ cache[obj[t]] # Nil
    BY <1>1 DEF timedOut, Resume, Goto, Return, locals, PlaceOK, MonAt,
       CallAt, ThreadOK, WithMonitor, Waits
  <2>2. cache[p] # Nil => cache[p] # mon[t] /\ cache[p] \in Monitors
    BY <2>1 DEF LInv, TableOK, LocalsTypeOK, TableTypeOK
  <2>3. cache[p] # Nil => /\ owner'[cache[p]] = owner[cache[p]]
                          /\ count'[cache[p]] = count[cache[p]]
    BY <2>2 DEF timedOut, Out
  <2> QED
    BY <1>2, <2>1, <2>3, ElsewhereKeeps
<1>12. CountsOK(t, obj[t])'
  BY <1>1, <1>2, <1>3, <1>4 DEF timedOut, Out, Resume, Return, Goto,
     locals, InWait, PlaceOK, CallAt, MonAt, Waiting, Waits, LocalsTypeOK,
     MonTypeOK, CountsOK, HeldIsSeen, ThinIsCounted, FatIsCounted, OwnsFat,
     InTransit, Transient, ThinBy, LockShape
<1>13. PlaceOK(t)'
  BY <1>1, <1>2, <1>3, <1>4 DEF timedOut, Out, Resume, Return, Goto,
     locals, InWait, PlaceOK, CallAt, MonAt, Before, Inflating, Waiting,
     Unlocking, LocalsTypeOK, MonTypeOK
<1> QED
  BY <1>2, <1>3, <1>4, <1>5, <1>10, <1>11, <1>12, <1>13 DEF LInv,
     ThreadLocksOK

(* Clearing the flag of the interruption touches no lock.                  *)
LEMMA clearInterruptedSafe ==
    ASSUME IInv, IInv', LInv, Balanced, NeverScavenges,
           NEW t \in Threads, clearInterrupted(t)
    PROVE  LInv'
<1> USE ThinLockAssumption DEF IInv, TypeOK, objVars, tblVars, ctrVars, monVars,
    thrVars
<1>1. ThreadOK(t) /\ PlaceOK(t) /\ CountsOK(t, obj[t])
  BY DEF LInv, ThreadLocksOK, LocalsTypeOK
<1>2. TableOK' /\ LockShape' /\ FreeIsZero'
  BY DEF clearInterrupted, LInv, TableOK, LockShape, FreeIsZero
<1>3. WaitersCounted'
  BY <1>1, WaitersKept DEF clearInterrupted, Resume, Return, Goto, locals,
     LInv, InWait, LocalsTypeOK
<1>4. \A v \in Threads \ {t} : Undisturbed(v)
  BY <1>1 DEF clearInterrupted, Resume, Return, Goto, locals, LocalsTypeOK,
     Undisturbed, SameThread, SameMonitors, SameLocks, ThinBy
<1>5. \A v \in Threads \ {t} : ThreadLocksOK(v)'
  BY <1>2, <1>4, OthersKeep
<1>6. \A p \in Objects \ {obj'[t]} : CountsOK(t, p)'
  BY <1>1, <1>2, ElsewhereKeeps DEF clearInterrupted, Resume, Return, Goto,
     locals
<1>7. CountsOK(t, obj[t])'
  BY <1>1, <1>2 DEF clearInterrupted, Resume, Return, Goto, locals, InWait,
     PlaceOK, CallAt, Waiting, LocalsTypeOK, CountsOK, HeldIsSeen,
     ThinIsCounted, FatIsCounted, OwnsFat, InTransit, Transient, ThinBy
<1>8. PlaceOK(t)'
  BY <1>1, <1>2 DEF clearInterrupted, Resume, Return, Goto, locals, InWait,
     PlaceOK, CallAt, MonAt, Before, Inflating, Waiting, Unlocking, Zero,
     LocalsTypeOK
<1> QED
  BY <1>2, <1>3, <1>5, <1>6, <1>7, <1>8 DEF LInv, ThreadLocksOK

(* The delayed store that releases a thin lock arrives: the word was still *)
(* the one of the thread, which has the object no more.                    *)
LEMMA drainStoreSafe ==
    ASSUME IInv, IInv', LInv, Balanced, NeverScavenges,
           NEW t \in Threads, drainStore(t)
    PROVE  LInv'
<1> USE ThinLockAssumption DEF IInv, TypeOK, objVars, tblVars, ctrVars, monVars,
    thrVars
<1>1. ThreadOK(t) /\ PlaceOK(t) /\ CountsOK(t, obj[t])
  BY DEF LInv, ThreadLocksOK, LocalsTypeOK
<1>2. TableOK' /\ FreeIsZero'
  BY DEF drainStore, LInv, TableOK, FreeIsZero
<1>3. LockShape'
  BY <1>1 DEF drainStore, Unlocked, Thin, LInv, LockShape
<1>4. WaitersCounted'
  BY <1>1, WaitersKept DEF drainStore, Return, LInv, InWait
<1>5. \A v \in Threads \ {t} : SameThread(v)
  BY <1>1 DEF drainStore, Return, SameThread
<1>6. \A v \in Threads \ {t} : SameMonitors(v)
  BY <1>1 DEF drainStore, SameMonitors
<1>7. \A v \in Threads \ {t} : SameLocks(v)
  <2> SUFFICES ASSUME NEW v \in Threads \ {t} PROVE SameLocks(v)
    OBVIOUS
  <2> DEFINE o == obj[t]
  <2>1. /\ o \in Objects /\ lock' = [lock EXCEPT ![o] = Unlocked]
        /\ cache' = cache
    BY DEF drainStore, LocalsTypeOK
  <2>2. ~lock[o].fat /\ lock[o].tid = t
    BY <1>1 DEF drainStore, PlaceOK, Unlocking, Thin
  <2>3. ~ThinBy(v, o) /\ lock[o] # SelfPtr /\ Unlocked.tid # v
    BY <1>1, <2>2 DEF ThinBy, Unlocked, Thin, SelfPtr
  <2>4. cache[o] # Nil /\ owner[cache[o]] = v => (Unlocked.fat <=> lock[o].fat)
    BY <1>1, <2>2 DEF Unlocked, Thin
  <2> HIDE DEF o
  <2> QED
    BY <2>1, <2>2, <2>3, <2>4, OneLockChanges
<1>8. \A v \in Threads \ {t} : Undisturbed(v)
  BY <1>5, <1>6, <1>7 DEF Undisturbed
<1>9. \A v \in Threads \ {t} : ThreadLocksOK(v)'
  BY <1>2, <1>3, <1>8, OthersKeep
<1>10. \A p \in Objects \ {obj'[t]} : CountsOK(t, p)'
  BY <1>1, <1>2, <1>3, ElsewhereKeeps DEF drainStore, Return
<1>11. CountsOK(t, obj[t])'
  BY <1>1, <1>2, <1>3 DEF drainStore, Return, Unlocked, Thin, PlaceOK,
     Unlocking, ObjTypeOK, CountsOK, HeldIsSeen, ThinIsCounted,
     FatIsCounted, InTransit, Transient, ThinBy
<1>12. PlaceOK(t)'
  BY <1>1, <1>2, <1>3 DEF drainStore, Return, InWait, PlaceOK, CallAt,
     MonAt, Before, Inflating, Waiting, Unlocking, LocalsTypeOK
<1> QED
  BY <1>2, <1>3, <1>4, <1>9, <1>10, <1>11, <1>12 DEF LInv, ThreadLocksOK

(* The test of the contention bit touches no lock.                         *)
LEMMA test_flc_bitSafe ==
    ASSUME IInv, IInv', LInv, Balanced, NeverScavenges,
           NEW t \in Threads, test_flc_bit(t)
    PROVE  LInv'
<1> USE ThinLockAssumption DEF IInv, TypeOK, objVars, tblVars, ctrVars, monVars,
    thrVars
<1>1. ThreadOK(t) /\ PlaceOK(t) /\ CountsOK(t, obj[t])
  BY DEF LInv, ThreadLocksOK, LocalsTypeOK
<1>2. TableOK' /\ LockShape' /\ FreeIsZero'
  BY DEF test_flc_bit, LInv, TableOK, LockShape, FreeIsZero
<1>3. WaitersCounted'
  BY <1>1, WaitersKept DEF test_flc_bit, Return, Goto, locals, LInv,
     InWait, LocalsTypeOK
<1>4. \A v \in Threads \ {t} : Undisturbed(v)
  BY <1>1 DEF test_flc_bit, Return, Goto, locals, LocalsTypeOK,
     Undisturbed, SameThread, SameMonitors, SameLocks, ThinBy
<1>5. \A v \in Threads \ {t} : ThreadLocksOK(v)'
  BY <1>2, <1>4, OthersKeep
<1>6. \A p \in Objects \ {obj'[t]} : CountsOK(t, p)'
  BY <1>1, <1>2, ElsewhereKeeps DEF test_flc_bit, Return, Goto, locals
<1>7. CountsOK(t, obj[t])'
  BY <1>1, <1>2 DEF test_flc_bit, Return, Goto, locals, InWait, CountsOK,
     HeldIsSeen, ThinIsCounted, FatIsCounted, OwnsFat, InTransit,
     Transient, ThinBy
<1>8. PlaceOK(t)'
  BY <1>1, <1>2 DEF test_flc_bit, Return, Goto, locals, InWait, PlaceOK,
     CallAt, MonAt, Before, Inflating, Waiting, Unlocking, Inside, Waits,
     LocalsTypeOK
<1> QED
  BY <1>2, <1>3, <1>5, <1>6, <1>7, <1>8 DEF LInv, ThreadLocksOK

(* monitorTryLock makes the thread the owner of a Monitor with a count of  *)
(* 0, of an object that it has not locked; it can not own it already.      *)
LEMMA monitorTryLockSafe ==
    ASSUME IInv, IInv', LInv, Balanced, NeverScavenges,
           NEW t \in Threads, monitorTryLock(t)
    PROVE  LInv'
<1> USE ThinLockAssumption DEF IInv, TypeOK, objVars, tblVars, ctrVars, monVars,
    thrVars
<1>1. ThreadOK(t) /\ PlaceOK(t) /\ CountsOK(t, obj[t])
  BY DEF LInv, ThreadLocksOK, LocalsTypeOK
<1>2. LockShape'
  BY DEF monitorTryLock, LInv, LockShape
<1>3. TableOK'
  BY <1>1 DEF monitorTryLock, PlaceOK, CallAt, MonAt, LocalsTypeOK,
     MonTypeOK, LInv, TableOK, TableTypeOK
<1>4. FreeIsZero'
  BY <1>1 DEF monitorTryLock, MonTypeOK, LInv, FreeIsZero
<1>5. WaitersCounted'
  BY <1>1, WaitersKept DEF monitorTryLock, Goto, locals, LInv, InWait,
     LocalsTypeOK
<1>6. \A v \in Threads \ {t} : SameThread(v)
  BY <1>1 DEF monitorTryLock, Goto, locals, LocalsTypeOK, SameThread
<1>7. \A v \in Threads \ {t} : SameMonitors(v)
  BY <1>1 DEF monitorTryLock, Goto, locals, ThreadOK, WithMonitor,
     OwnerHoldsMutex, MonTypeOK, SameMonitors
<1>8. \A v \in Threads \ {t} : SameLocks(v)
  BY <1>1 DEF monitorTryLock, SameLocks, ThinBy
<1>9. \A v \in Threads \ {t} : Undisturbed(v)
  BY <1>6, <1>7, <1>8 DEF Undisturbed
<1>10. \A v \in Threads \ {t} : ThreadLocksOK(v)'
  BY <1>2, <1>3, <1>4, <1>9, OthersKeep
<1>11. \A p \in Objects \ {obj'[t]} : CountsOK(t, p)'
  BY <1>1, <1>2, <1>3, <1>4, ElsewhereKeeps DEF monitorTryLock, Goto,
     locals, PlaceOK, CallAt, MonAt, LocalsTypeOK, MonTypeOK, TableOK,
     TableTypeOK
<1>12. CountsOK(t, obj[t])'
  BY <1>1, <1>2, <1>3, <1>4 DEF monitorTryLock, Goto, locals, PlaceOK,
     CallAt, MonAt, Unlocking, LocalsTypeOK, MonTypeOK, CountsOK,
     HeldIsSeen, ThinIsCounted, FatIsCounted, InTransit, Transient, ThinBy
<1>13. PlaceOK(t)'
  BY <1>1, <1>2, <1>3, <1>4 DEF monitorTryLock, Goto, locals, ThreadOK,
     WithMonitor, InWait, OwnerHoldsMutex, PlaceOK, CallAt, MonAt, Before,
     Inflating, Waiting, Unlocking, Zero, LocalsTypeOK, MonTypeOK,
     CountsOK, FatIsCounted, InTransit, Transient, LInv, FreeIsZero
<1> QED
  BY <1>2, <1>3, <1>4, <1>5, <1>10, <1>11, <1>12, <1>13 DEF LInv,
     ThreadLocksOK

(* Waking a contender touches no lock.                                     *)
LEMMA notifyContenderSafe ==
    ASSUME IInv, IInv', LInv, Balanced, NeverScavenges,
           NEW t \in Threads, notifyContender(t)
    PROVE  LInv'
<1> USE ThinLockAssumption DEF IInv, TypeOK, objVars, tblVars, ctrVars, monVars,
    thrVars
<1>1. ThreadOK(t) /\ PlaceOK(t) /\ CountsOK(t, obj[t])
  BY DEF LInv, ThreadLocksOK, LocalsTypeOK
<1>2. TableOK' /\ LockShape' /\ FreeIsZero'
  BY DEF notifyContender, LInv, TableOK, LockShape, FreeIsZero
<1>3. WaitersCounted'
  BY <1>1, WaitersKept DEF notifyContender, NotifyOne, Wake, Parked, Goto,
     locals, LInv, InWait, LocalsTypeOK
<1>4. \A v \in Threads \ {t} : Undisturbed(v)
  BY <1>1 DEF notifyContender, NotifyOne, Wake, Parked, Goto, locals,
     LocalsTypeOK, Undisturbed, SameThread, SameMonitors, SameLocks, ThinBy
<1>5. \A v \in Threads \ {t} : ThreadLocksOK(v)'
  BY <1>2, <1>4, OthersKeep
<1>6. \A p \in Objects \ {obj'[t]} : CountsOK(t, p)'
  BY <1>1, <1>2, ElsewhereKeeps DEF notifyContender, NotifyOne, Wake, Goto,
     locals
<1>7. CountsOK(t, obj[t])'
  BY <1>1, <1>2 DEF notifyContender, NotifyOne, Wake, Goto, locals, InWait,
     LocalsTypeOK, CountsOK, HeldIsSeen, ThinIsCounted, FatIsCounted,
     OwnsFat, InTransit, Transient, ThinBy
<1>8. PlaceOK(t)'
  BY <1>1, <1>2 DEF notifyContender, NotifyOne, Wake, Goto, locals, InWait,
     PlaceOK, CallAt, MonAt, Before, Inflating, Waiting, Unlocking, Zero,
     LocalsTypeOK
<1> QED
  BY <1>2, <1>3, <1>5, <1>6, <1>7, <1>8 DEF LInv, ThreadLocksOK

(* Deflation by the owner of the Monitor: it has no lock on the object any *)
(* more, and nobody is waiting in the Monitor who would count on its being *)
(* fat.                                                                    *)
LEMMA deflateSafe ==
    ASSUME IInv, IInv', LInv, Balanced, NeverScavenges,
           NEW t \in Threads, deflate(t)
    PROVE  LInv'
<1> USE ThinLockAssumption DEF IInv, TypeOK, objVars, tblVars, ctrVars, monVars,
    thrVars
<1>1. ThreadOK(t) /\ PlaceOK(t) /\ CountsOK(t, obj[t])
  BY DEF LInv, ThreadLocksOK, LocalsTypeOK
<1>2. TableOK' /\ FreeIsZero'
  BY DEF deflate, LInv, TableOK, FreeIsZero
<1>3. LockShape'
  BY <1>1 DEF deflate, Unlocked, Thin, Fat, Goto, locals, ThreadOK,
     WithMonitor, WithMutex, InWait, OwnerHoldsMutex, PlaceOK, CallAt,
     MonAt, Before, Inflating, Waiting, Unlocking, Zero, Inside, Waits,
     LocalsTypeOK, MonTypeOK, ObjTypeOK, ThreadTypeOK, LInv, LockShape,
     FatHasMonitor, LockWord
<1>4. WaitersCounted'
  BY <1>1, WaitersKept DEF deflate, Unlocked, Thin, Fat, Goto, locals,
     LInv, InWait, LocalsTypeOK, ThreadOK, WithMonitor
<1>5. \A v \in Threads \ {t} : SameThread(v)
  BY <1>1 DEF deflate, Unlocked, Thin, Fat, Goto, locals, InWait,
     LocalsTypeOK, ObjTypeOK, ThreadTypeOK, SameThread
<1>6. \A v \in Threads \ {t} : SameMonitors(v)
  BY <1>1 DEF deflate, Unlocked, Thin, Fat, Goto, locals, ThreadOK,
     WithMonitor, WithMutex, InWait, OwnerHoldsMutex, PlaceOK, CallAt,
     MonAt, Before, Inflating, Waiting, Unlocking, Zero, Inside, Waits,
     LocalsTypeOK, MonTypeOK, ObjTypeOK, ThreadTypeOK, SameMonitors
<1>7. \A v \in Threads \ {t} : SameLocks(v)
  <2> SUFFICES ASSUME NEW v \in Threads \ {t} PROVE SameLocks(v)
    OBVIOUS
  <2> DEFINE o == obj[t]
  <2>1. /\ o \in Objects /\ lock' = [lock EXCEPT ![o] = Unlocked]
        /\ cache' = cache
    BY DEF deflate, LocalsTypeOK
  <2>2. ASSUME obj[v] = o, lock[o].fat, InWait(v), call[v] # "lock"
        PROVE  FALSE
    <3>1. v \in Waiters(mon[t]) /\ waiting[mon[t]] = 0
      BY <1>1, <2>2 DEF deflate, LInv, ThreadLocksOK, PlaceOK, MonAt, CallAt, Waits,
         Unlocking, InWait, Waiters, ThreadOK, WithMonitor
    <3> QED
      BY <1>1, <3>1, FS_EmptySet DEF deflate, LInv, WaitersCounted, ThreadOK,
         WithMonitor, LocalsTypeOK
  <2>3. ~ThinBy(v, o) /\ lock[o] # SelfPtr /\ Unlocked.tid # v
    BY <1>1 DEF deflate, PlaceOK, Unlocking, ThinBy, Unlocked, Thin, SelfPtr
  <2>4. cache[o] # Nil /\ owner[cache[o]] = v => (Unlocked.fat <=> lock[o].fat)
    BY <1>1 DEF deflate, PlaceOK, MonAt, CallAt, Unlocking, Zero, Unlocked, Thin, ThreadOK,
       WithMonitor
  <2> HIDE DEF o
  <2> QED
    BY <2>1, <2>2, <2>3, <2>4, OneLockChanges
<1>8. \A v \in Threads \ {t} : Undisturbed(v)
  BY <1>5, <1>6, <1>7 DEF Undisturbed
<1>9. \A v \in Threads \ {t} : ThreadLocksOK(v)'
  BY <1>2, <1>3, <1>8, OthersKeep
<1>10. \A p \in Objects \ {obj'[t]} : CountsOK(t, p)'
  BY <1>1, <1>2, <1>3, ElsewhereKeeps DEF deflate, Unlocked, Thin, Fat,
     Goto, locals, ThreadOK, WithMonitor, WithMutex, InWait,
     OwnerHoldsMutex, PlaceOK, CallAt, MonAt, Before, Inflating, Waiting,
     Unlocking, Zero, Inside, Waits, LocalsTypeOK, MonTypeOK, ObjTypeOK,
     ThreadTypeOK, LInv, TableOK, TableTypeOK
<1>11. CountsOK(t, obj[t])'
  BY <1>1, <1>2, <1>3 DEF deflate, Unlocked, Thin, Fat, Goto, locals,
     ThreadOK, WithMonitor, WithMutex, InWait, OwnerHoldsMutex, PlaceOK,
     CallAt, MonAt, Before, Inflating, Waiting, Unlocking, Zero, Inside,
     Waits, LocalsTypeOK, MonTypeOK, ObjTypeOK, ThreadTypeOK, CountsOK,
     HeldIsSeen, ThinIsCounted, FatIsCounted, OwnsFat, InTransit,
     Transient, ThinBy, LInv, LockShape, FatHasMonitor, LockWord
<1>12. PlaceOK(t)'
  BY <1>1, <1>2, <1>3 DEF deflate, Unlocked, Thin, Fat, Goto, locals,
     ThreadOK, WithMonitor, WithMutex, InWait, OwnerHoldsMutex, PlaceOK,
     CallAt, MonAt, Before, Inflating, Waiting, Unlocking, Zero, Inside,
     Waits, LocalsTypeOK, MonTypeOK, ObjTypeOK, ThreadTypeOK, CountsOK,
     HeldIsSeen, ThinIsCounted, FatIsCounted, OwnsFat, InTransit,
     Transient, ThinBy, LInv, LockShape, FatHasMonitor, LockWord,
     FreeIsZero
<1> QED
  BY <1>2, <1>3, <1>4, <1>9, <1>10, <1>11, <1>12 DEF LInv, ThreadLocksOK,
     LocalsTypeOK

(* Marking the Monitor as unused changes nothing as long as nothing is     *)
(* scavenged.                                                              *)
LEMMA notInUseSafe ==
    ASSUME IInv, IInv', LInv, Balanced, NeverScavenges,
           NEW t \in Threads, notInUse(t)
    PROVE  LInv'
<1> USE ThinLockAssumption DEF IInv, TypeOK, objVars, tblVars, ctrVars, monVars,
    thrVars
<1>1. ThreadOK(t) /\ PlaceOK(t) /\ CountsOK(t, obj[t])
  BY DEF LInv, ThreadLocksOK, LocalsTypeOK
<1>2. TableOK' /\ LockShape' /\ FreeIsZero'
  BY DEF notInUse, LInv, TableOK, LockShape, FreeIsZero
<1>3. WaitersCounted'
  BY <1>1, WaitersKept DEF notInUse, Goto, locals, LInv, InWait,
     LocalsTypeOK, ThreadOK, WithMonitor
<1>4. \A v \in Threads \ {t} : Undisturbed(v)
  BY <1>1 DEF notInUse, Goto, locals, ThreadOK, WithMonitor, WithMutex,
     InWait, OwnerHoldsMutex, PlaceOK, CallAt, MonAt, Before, Inflating,
     Waiting, Unlocking, Zero, Inside, Waits, LocalsTypeOK, MonTypeOK,
     ObjTypeOK, ThreadTypeOK, Undisturbed, SameThread, SameMonitors,
     SameLocks, ThinBy
<1>5. \A v \in Threads \ {t} : ThreadLocksOK(v)'
  BY <1>2, <1>4, OthersKeep
<1>6. \A p \in Objects \ {obj'[t]} : CountsOK(t, p)'
  BY <1>1, <1>2, ElsewhereKeeps DEF notInUse, Goto, locals, ThreadOK,
     WithMonitor, WithMutex, InWait, OwnerHoldsMutex, PlaceOK, CallAt,
     MonAt, Before, Inflating, Waiting, Unlocking, Zero, Inside, Waits,
     LocalsTypeOK, MonTypeOK, ObjTypeOK, ThreadTypeOK
<1>7. CountsOK(t, obj[t])'
  BY <1>1, <1>2 DEF notInUse, Goto, locals, ThreadOK, WithMonitor,
     WithMutex, InWait, OwnerHoldsMutex, PlaceOK, CallAt, MonAt, Before,
     Inflating, Waiting, Unlocking, Zero, Inside, Waits, LocalsTypeOK,
     MonTypeOK, ObjTypeOK, ThreadTypeOK, CountsOK, HeldIsSeen,
     ThinIsCounted, FatIsCounted, OwnsFat, InTransit, Transient, ThinBy,
     LInv, LockShape, FatHasMonitor
<1>8. PlaceOK(t)'
  BY <1>1, <1>2 DEF notInUse, Goto, locals, ThreadOK, WithMonitor,
     WithMutex, InWait, OwnerHoldsMutex, PlaceOK, CallAt, MonAt, Before,
     Inflating, Waiting, Unlocking, Zero, Inside, Waits, LocalsTypeOK,
     MonTypeOK, ObjTypeOK, ThreadTypeOK, CountsOK, HeldIsSeen,
     ThinIsCounted, FatIsCounted, OwnsFat, InTransit, Transient, ThinBy,
     LInv, LockShape, FatHasMonitor
<1> QED
  BY <1>2, <1>3, <1>5, <1>6, <1>7, <1>8 DEF LInv, ThreadLocksOK,
     LocalsTypeOK

(* monitorUnlock gives back one lock, or the Monitor with the last one.    *)
LEMMA monitorUnlockSafe ==
    ASSUME IInv, IInv', LInv, Balanced, NeverScavenges,
           NEW t \in Threads, monitorUnlock(t)
    PROVE  LInv'
<1> USE ThinLockAssumption DEF IInv, TypeOK, objVars, tblVars, ctrVars, monVars,
    thrVars
<1>1. ThreadOK(t) /\ PlaceOK(t) /\ CountsOK(t, obj[t])
  BY DEF LInv, ThreadLocksOK, LocalsTypeOK
<1>2. LockShape'
  BY DEF monitorUnlock, LInv, LockShape
<1>3. TableOK'
  BY <1>1 DEF monitorUnlock, Return, ThreadOK, WithMonitor, WithMutex,
     InWait, OwnerHoldsMutex, PlaceOK, CallAt, MonAt, Before, Inflating,
     Waiting, Unlocking, Zero, Inside, Waits, LocalsTypeOK, MonTypeOK,
     ObjTypeOK, ThreadTypeOK, LInv, TableOK, FreeIsZero, TableTypeOK
<1>4. FreeIsZero'
  BY <1>1 DEF monitorUnlock, Return, ThreadOK, WithMonitor, WithMutex,
     InWait, OwnerHoldsMutex, PlaceOK, CallAt, MonAt, Before, Inflating,
     Waiting, Unlocking, Zero, Inside, Waits, LocalsTypeOK, MonTypeOK,
     ObjTypeOK, ThreadTypeOK, LInv, FreeIsZero
<1>5. WaitersCounted'
  BY <1>1, WaitersKept DEF monitorUnlock, Return, LInv, InWait,
     LocalsTypeOK, ThreadOK, WithMonitor
<1>6. \A v \in Threads \ {t} : Undisturbed(v)
  BY <1>1 DEF monitorUnlock, Return, ThreadOK, WithMonitor, WithMutex,
     InWait, OwnerHoldsMutex, PlaceOK, CallAt, MonAt, Before, Inflating,
     Waiting, Unlocking, Zero, Inside, Waits, LocalsTypeOK, MonTypeOK,
     ObjTypeOK, ThreadTypeOK, Undisturbed, SameThread, SameMonitors,
     SameLocks, ThinBy, LInv, TableOK, TableTypeOK
<1>7. \A v \in Threads \ {t} : ThreadLocksOK(v)'
  BY <1>2, <1>3, <1>4, <1>6, OthersKeep
<1>8. \A p \in Objects \ {obj'[t]} : CountsOK(t, p)'
  BY <1>1, <1>2, <1>3, <1>4, ElsewhereKeeps DEF monitorUnlock, Return,
     ThreadOK, WithMonitor, WithMutex, InWait, OwnerHoldsMutex, PlaceOK,
     CallAt, MonAt, Before, Inflating, Waiting, Unlocking, Zero, Inside,
     Waits, LocalsTypeOK, MonTypeOK, ObjTypeOK, ThreadTypeOK, LInv,
     TableOK, TableTypeOK
<1>9. CountsOK(t, obj[t])'
  BY <1>1, <1>2, <1>3, <1>4 DEF monitorUnlock, Return, ThreadOK,
     WithMonitor, WithMutex, InWait, OwnerHoldsMutex, PlaceOK, CallAt,
     MonAt, Before, Inflating, Waiting, Unlocking, Zero, Inside, Waits,
     LocalsTypeOK, MonTypeOK, ObjTypeOK, ThreadTypeOK, CountsOK,
     HeldIsSeen, ThinIsCounted, FatIsCounted, OwnsFat, InTransit,
     Transient, ThinBy, LInv, LockShape, FatHasMonitor
<1>10. PlaceOK(t)'
  BY <1>1, <1>2, <1>3, <1>4 DEF monitorUnlock, Return, ThreadOK,
     WithMonitor, WithMutex, InWait, OwnerHoldsMutex, PlaceOK, CallAt,
     MonAt, Before, Inflating, Waiting, Unlocking, Zero, Inside, Waits,
     LocalsTypeOK, MonTypeOK, ObjTypeOK, ThreadTypeOK, CountsOK,
     HeldIsSeen, ThinIsCounted, FatIsCounted, OwnsFat, InTransit,
     Transient, ThinBy, LInv, LockShape, FatHasMonitor, LockWord,
     FreeIsZero
<1> QED
  BY <1>2, <1>3, <1>4, <1>5, <1>7, <1>8, <1>9, <1>10 DEF LInv,
     ThreadLocksOK, LocalsTypeOK

(* An IllegalMonitorStateException changes no lock.                        *)
LEMMA notOwnerSafe ==
    ASSUME IInv, IInv', LInv, Balanced, NeverScavenges,
           NEW t \in Threads, notOwner(t)
    PROVE  LInv'
<1> USE ThinLockAssumption DEF IInv, TypeOK, objVars, tblVars, ctrVars, monVars,
    thrVars
<1>1. ThreadOK(t) /\ PlaceOK(t) /\ CountsOK(t, obj[t])
  BY DEF LInv, ThreadLocksOK, LocalsTypeOK
<1>2. TableOK' /\ LockShape' /\ FreeIsZero'
  BY DEF notOwner, LInv, TableOK, LockShape, FreeIsZero
<1>3. WaitersCounted'
  BY <1>1, WaitersKept DEF notOwner, Return, LInv, InWait, LocalsTypeOK,
     ThreadOK, WithMonitor
<1>4. \A v \in Threads \ {t} : Undisturbed(v)
  BY <1>1 DEF notOwner, Return, ThreadOK, WithMonitor, WithMutex, InWait,
     OwnerHoldsMutex, PlaceOK, CallAt, MonAt, Before, Inflating, Waiting,
     Unlocking, Zero, Inside, Waits, LocalsTypeOK, MonTypeOK, ObjTypeOK,
     ThreadTypeOK, Undisturbed, SameThread, SameMonitors, SameLocks, ThinBy
<1>5. \A v \in Threads \ {t} : ThreadLocksOK(v)'
  BY <1>2, <1>4, OthersKeep
<1>6. \A p \in Objects \ {obj'[t]} : CountsOK(t, p)'
  BY <1>1, <1>2, ElsewhereKeeps DEF notOwner, Return, ThreadOK,
     WithMonitor, WithMutex, InWait, OwnerHoldsMutex, PlaceOK, CallAt,
     MonAt, Before, Inflating, Waiting, Unlocking, Zero, Inside, Waits,
     LocalsTypeOK, MonTypeOK, ObjTypeOK, ThreadTypeOK
<1>7. CountsOK(t, obj[t])'
  BY <1>1, <1>2 DEF notOwner, Return, ThreadOK, WithMonitor, WithMutex,
     InWait, OwnerHoldsMutex, PlaceOK, CallAt, MonAt, Before, Inflating,
     Waiting, Unlocking, Zero, Inside, Waits, LocalsTypeOK, MonTypeOK,
     ObjTypeOK, ThreadTypeOK, CountsOK, HeldIsSeen, ThinIsCounted,
     FatIsCounted, OwnsFat, InTransit, Transient, ThinBy, LInv, LockShape,
     FatHasMonitor
<1>8. PlaceOK(t)'
  BY <1>1, <1>2 DEF notOwner, Return, ThreadOK, WithMonitor, WithMutex,
     InWait, OwnerHoldsMutex, PlaceOK, CallAt, MonAt, Before, Inflating,
     Waiting, Unlocking, Zero, Inside, Waits, LocalsTypeOK, MonTypeOK,
     ObjTypeOK, ThreadTypeOK, CountsOK, HeldIsSeen, ThinIsCounted,
     FatIsCounted, OwnsFat, InTransit, Transient, ThinBy, LInv, LockShape,
     FatHasMonitor
<1> QED
  BY <1>2, <1>3, <1>5, <1>6, <1>7, <1>8 DEF LInv, ThreadLocksOK,
     LocalsTypeOK

(* The flag of an interruption is not part of any lock.                    *)
LEMMA setInterruptedSafe ==
    ASSUME IInv, IInv', LInv, Balanced, NeverScavenges,
           NEW t \in Threads, setInterrupted(t)
    PROVE  LInv'
<1> USE ThinLockAssumption DEF IInv, TypeOK, objVars, tblVars, ctrVars, monVars,
    thrVars
<1>1. ThreadOK(t) /\ PlaceOK(t) /\ CountsOK(t, obj[t])
  BY DEF LInv, ThreadLocksOK, LocalsTypeOK
<1>2. TableOK' /\ LockShape' /\ FreeIsZero'
  BY DEF setInterrupted, LInv, TableOK, LockShape, FreeIsZero
<1>3. WaitersCounted'
  BY <1>1, WaitersKept DEF setInterrupted, Return, Goto, locals, LInv,
     InWait, LocalsTypeOK, ThreadOK, WithMonitor
<1>4. \A v \in Threads \ {t} : Undisturbed(v)
  BY <1>1 DEF setInterrupted, Return, Goto, locals, ThreadOK, WithMonitor,
     WithMutex, InWait, OwnerHoldsMutex, PlaceOK, CallAt, MonAt, Before,
     Inflating, Waiting, Unlocking, Zero, Inside, Waits, LocalsTypeOK,
     MonTypeOK, ObjTypeOK, ThreadTypeOK, Undisturbed, SameThread,
     SameMonitors, SameLocks, ThinBy
<1>5. \A v \in Threads \ {t} : ThreadLocksOK(v)'
  BY <1>2, <1>4, OthersKeep
<1>6. \A p \in Objects \ {obj'[t]} : CountsOK(t, p)'
  BY <1>1, <1>2, ElsewhereKeeps DEF setInterrupted, Return, Goto, locals,
     ThreadOK, WithMonitor, WithMutex, InWait, OwnerHoldsMutex, PlaceOK,
     CallAt, MonAt, Before, Inflating, Waiting, Unlocking, Zero, Inside,
     Waits, LocalsTypeOK, MonTypeOK, ObjTypeOK, ThreadTypeOK
<1>7. CountsOK(t, obj[t])'
  BY <1>1, <1>2 DEF setInterrupted, Return, Goto, locals, ThreadOK,
     WithMonitor, WithMutex, InWait, OwnerHoldsMutex, PlaceOK, CallAt,
     MonAt, Before, Inflating, Waiting, Unlocking, Zero, Inside, Waits,
     LocalsTypeOK, MonTypeOK, ObjTypeOK, ThreadTypeOK, CountsOK,
     HeldIsSeen, ThinIsCounted, FatIsCounted, OwnsFat, InTransit,
     Transient, ThinBy, LInv, LockShape, FatHasMonitor
<1>8. PlaceOK(t)'
  BY <1>1, <1>2 DEF setInterrupted, Return, Goto, locals, ThreadOK,
     WithMonitor, WithMutex, InWait, OwnerHoldsMutex, PlaceOK, CallAt,
     MonAt, Before, Inflating, Waiting, Unlocking, Zero, Inside, Waits,
     LocalsTypeOK, MonTypeOK, ObjTypeOK, ThreadTypeOK, CountsOK,
     HeldIsSeen, ThinIsCounted, FatIsCounted, OwnsFat, InTransit,
     Transient, ThinBy, LInv, LockShape, FatHasMonitor
<1> QED
  BY <1>2, <1>3, <1>5, <1>6, <1>7, <1>8 DEF LInv, ThreadLocksOK,
     LocalsTypeOK

(* threadInterrupt holds the mutex of a Monitor without being its owner.   *)
LEMMA tryMutexSafe ==
    ASSUME IInv, IInv', LInv, Balanced, NeverScavenges,
           NEW t \in Threads, tryMutex(t)
    PROVE  LInv'
<1> USE ThinLockAssumption DEF IInv, TypeOK, objVars, tblVars, ctrVars, monVars,
    thrVars
<1>1. ThreadOK(t) /\ PlaceOK(t) /\ CountsOK(t, obj[t])
  BY DEF LInv, ThreadLocksOK, LocalsTypeOK
<1>2. TableOK' /\ LockShape' /\ FreeIsZero'
  BY DEF tryMutex, LInv, TableOK, LockShape, FreeIsZero
<1>3. WaitersCounted'
  BY <1>1, WaitersKept DEF tryMutex, Return, Goto, locals, LInv, InWait,
     LocalsTypeOK, ThreadOK, WithMonitor
<1>4. \A v \in Threads \ {t} : Undisturbed(v)
  BY <1>1 DEF tryMutex, Return, Goto, locals, ThreadOK, WithMonitor,
     WithMutex, InWait, OwnerHoldsMutex, PlaceOK, CallAt, MonAt, Before,
     Inflating, Waiting, Unlocking, Zero, Inside, Waits, LocalsTypeOK,
     MonTypeOK, ObjTypeOK, ThreadTypeOK, Undisturbed, SameThread,
     SameMonitors, SameLocks, ThinBy
<1>5. \A v \in Threads \ {t} : ThreadLocksOK(v)'
  BY <1>2, <1>4, OthersKeep
<1>6. \A p \in Objects \ {obj'[t]} : CountsOK(t, p)'
  BY <1>1, <1>2, ElsewhereKeeps DEF tryMutex, Return, Goto, locals,
     ThreadOK, WithMonitor, WithMutex, InWait, OwnerHoldsMutex, PlaceOK,
     CallAt, MonAt, Before, Inflating, Waiting, Unlocking, Zero, Inside,
     Waits, LocalsTypeOK, MonTypeOK, ObjTypeOK, ThreadTypeOK
<1>7. CountsOK(t, obj[t])'
  BY <1>1, <1>2 DEF tryMutex, Return, Goto, locals, ThreadOK, WithMonitor,
     WithMutex, InWait, OwnerHoldsMutex, PlaceOK, CallAt, MonAt, Before,
     Inflating, Waiting, Unlocking, Zero, Inside, Waits, LocalsTypeOK,
     MonTypeOK, ObjTypeOK, ThreadTypeOK, CountsOK, HeldIsSeen,
     ThinIsCounted, FatIsCounted, OwnsFat, InTransit, Transient, ThinBy,
     LInv, LockShape, FatHasMonitor
<1>8. PlaceOK(t)'
  BY <1>1, <1>2 DEF tryMutex, Return, Goto, locals, ThreadOK, WithMonitor,
     WithMutex, InWait, OwnerHoldsMutex, PlaceOK, CallAt, MonAt, Before,
     Inflating, Waiting, Unlocking, Zero, Inside, Waits, LocalsTypeOK,
     MonTypeOK, ObjTypeOK, ThreadTypeOK, CountsOK, HeldIsSeen,
     ThinIsCounted, FatIsCounted, OwnsFat, InTransit, Transient, ThinBy,
     LInv, LockShape, FatHasMonitor
<1> QED
  BY <1>2, <1>3, <1>5, <1>6, <1>7, <1>8 DEF LInv, ThreadLocksOK,
     LocalsTypeOK

(* Waking the threads of a Monitor touches no lock.                        *)
LEMMA interruptWaiterSafe ==
    ASSUME IInv, IInv', LInv, Balanced, NeverScavenges,
           NEW t \in Threads, interruptWaiter(t)
    PROVE  LInv'
<1> USE ThinLockAssumption DEF IInv, TypeOK, objVars, tblVars, ctrVars, monVars,
    thrVars
<1>1. ThreadOK(t) /\ PlaceOK(t) /\ CountsOK(t, obj[t])
  BY DEF LInv, ThreadLocksOK, LocalsTypeOK
<1>2. TableOK' /\ LockShape' /\ FreeIsZero'
  BY DEF interruptWaiter, LInv, TableOK, LockShape, FreeIsZero
<1>3. WaitersCounted'
  BY <1>1, WaitersKept DEF interruptWaiter, Wake, Parked, Goto, locals,
     LInv, InWait, LocalsTypeOK, ThreadOK, WithMonitor
<1>4. \A v \in Threads \ {t} : Undisturbed(v)
  BY <1>1 DEF interruptWaiter, Wake, Parked, Goto, locals, ThreadOK,
     WithMonitor, WithMutex, InWait, OwnerHoldsMutex, PlaceOK, CallAt,
     MonAt, Before, Inflating, Waiting, Unlocking, Zero, Inside, Waits,
     LocalsTypeOK, MonTypeOK, ObjTypeOK, ThreadTypeOK, Undisturbed,
     SameThread, SameMonitors, SameLocks, ThinBy
<1>5. \A v \in Threads \ {t} : ThreadLocksOK(v)'
  BY <1>2, <1>4, OthersKeep
<1>6. \A p \in Objects \ {obj'[t]} : CountsOK(t, p)'
  BY <1>1, <1>2, ElsewhereKeeps DEF interruptWaiter, Wake, Parked, Goto,
     locals, ThreadOK, WithMonitor, WithMutex, InWait, OwnerHoldsMutex,
     PlaceOK, CallAt, MonAt, Before, Inflating, Waiting, Unlocking, Zero,
     Inside, Waits, LocalsTypeOK, MonTypeOK, ObjTypeOK, ThreadTypeOK
<1>7. CountsOK(t, obj[t])'
  BY <1>1, <1>2 DEF interruptWaiter, Wake, Parked, Goto, locals, ThreadOK,
     WithMonitor, WithMutex, InWait, OwnerHoldsMutex, PlaceOK, CallAt,
     MonAt, Before, Inflating, Waiting, Unlocking, Zero, Inside, Waits,
     LocalsTypeOK, MonTypeOK, ObjTypeOK, ThreadTypeOK, CountsOK,
     HeldIsSeen, ThinIsCounted, FatIsCounted, OwnsFat, InTransit,
     Transient, ThinBy, LInv, LockShape, FatHasMonitor
<1>8. PlaceOK(t)'
  BY <1>1, <1>2 DEF interruptWaiter, Wake, Parked, Goto, locals, ThreadOK,
     WithMonitor, WithMutex, InWait, OwnerHoldsMutex, PlaceOK, CallAt,
     MonAt, Before, Inflating, Waiting, Unlocking, Zero, Inside, Waits,
     LocalsTypeOK, MonTypeOK, ObjTypeOK, ThreadTypeOK, CountsOK,
     HeldIsSeen, ThinIsCounted, FatIsCounted, OwnsFat, InTransit,
     Transient, ThinBy, LInv, LockShape, FatHasMonitor
<1> QED
  BY <1>2, <1>3, <1>5, <1>6, <1>7, <1>8 DEF LInv, ThreadLocksOK,
     LocalsTypeOK

(* Nor does the release of the mutex by threadInterrupt.                   *)
LEMMA releaseMutexSafe ==
    ASSUME IInv, IInv', LInv, Balanced, NeverScavenges,
           NEW t \in Threads, releaseMutex(t)
    PROVE  LInv'
<1> USE ThinLockAssumption DEF IInv, TypeOK, objVars, tblVars, ctrVars, monVars,
    thrVars
<1>1. ThreadOK(t) /\ PlaceOK(t) /\ CountsOK(t, obj[t])
  BY DEF LInv, ThreadLocksOK, LocalsTypeOK
<1>2. TableOK' /\ LockShape' /\ FreeIsZero'
  BY DEF releaseMutex, LInv, TableOK, LockShape, FreeIsZero
<1>3. WaitersCounted'
  BY <1>1, WaitersKept DEF releaseMutex, Return, LInv, InWait,
     LocalsTypeOK, ThreadOK, WithMonitor
<1>4. \A v \in Threads \ {t} : Undisturbed(v)
  BY <1>1 DEF releaseMutex, Return, ThreadOK, WithMonitor, WithMutex,
     InWait, OwnerHoldsMutex, PlaceOK, CallAt, MonAt, Before, Inflating,
     Waiting, Unlocking, Zero, Inside, Waits, LocalsTypeOK, MonTypeOK,
     ObjTypeOK, ThreadTypeOK, Undisturbed, SameThread, SameMonitors,
     SameLocks, ThinBy
<1>5. \A v \in Threads \ {t} : ThreadLocksOK(v)'
  BY <1>2, <1>4, OthersKeep
<1>6. \A p \in Objects \ {obj'[t]} : CountsOK(t, p)'
  BY <1>1, <1>2, ElsewhereKeeps DEF releaseMutex, Return, ThreadOK,
     WithMonitor, WithMutex, InWait, OwnerHoldsMutex, PlaceOK, CallAt,
     MonAt, Before, Inflating, Waiting, Unlocking, Zero, Inside, Waits,
     LocalsTypeOK, MonTypeOK, ObjTypeOK, ThreadTypeOK
<1>7. CountsOK(t, obj[t])'
  BY <1>1, <1>2 DEF releaseMutex, Return, ThreadOK, WithMonitor, WithMutex,
     InWait, OwnerHoldsMutex, PlaceOK, CallAt, MonAt, Before, Inflating,
     Waiting, Unlocking, Zero, Inside, Waits, LocalsTypeOK, MonTypeOK,
     ObjTypeOK, ThreadTypeOK, CountsOK, HeldIsSeen, ThinIsCounted,
     FatIsCounted, OwnsFat, InTransit, Transient, ThinBy, LInv, LockShape,
     FatHasMonitor
<1>8. PlaceOK(t)'
  BY <1>1, <1>2 DEF releaseMutex, Return, ThreadOK, WithMonitor, WithMutex,
     InWait, OwnerHoldsMutex, PlaceOK, CallAt, MonAt, Before, Inflating,
     Waiting, Unlocking, Zero, Inside, Waits, LocalsTypeOK, MonTypeOK,
     ObjTypeOK, ThreadTypeOK, CountsOK, HeldIsSeen, ThinIsCounted,
     FatIsCounted, OwnsFat, InTransit, Transient, ThinBy, LInv, LockShape,
     FatHasMonitor
<1> QED
  BY <1>2, <1>3, <1>5, <1>6, <1>7, <1>8 DEF LInv, ThreadLocksOK,
     LocalsTypeOK

(* The fast path of objectLock: an empty word is taken, and one of the own *)
(* thread counted up to its limit, beyond which the lock is to be          *)
(* inflated.  Everyone else becomes a contender.                           *)
LEMMA objectLockSafe ==
    ASSUME IInv, IInv', LInv, Balanced, NeverScavenges,
           NEW t \in Threads, NEW o \in Objects, objectLock(t, o)
    PROVE  LInv'
<1> USE ThinLockAssumption DEF IInv, TypeOK, objVars, tblVars, ctrVars, monVars,
    thrVars
<1>1. ThreadOK(t) /\ PlaceOK(t) /\ CountsOK(t, o)
  BY DEF LInv, ThreadLocksOK, LocalsTypeOK
<1>2. TableOK' /\ FreeIsZero'
  BY DEF objectLock, LInv, TableOK, FreeIsZero
<1>3. LockShape'
  BY <1>1 DEF objectLock, Begin, Locked, Unlocked, Thin, locals, ThreadOK,
     WithMonitor, WithMutex, InWait, OwnerHoldsMutex, PlaceOK, CallAt,
     MonAt, Before, Inflating, Waiting, Unlocking, Zero, Inside, Waits,
     LocalsTypeOK, MonTypeOK, ObjTypeOK, ThreadTypeOK, LInv, LockShape,
     FatHasMonitor, LockWord
<1>4. WaitersCounted'
  BY <1>1, WaitersKept DEF objectLock, Begin, Locked, Unlocked, Thin,
     locals, LInv, InWait, LocalsTypeOK, ThreadOK, WithMonitor
<1>5. \A v \in Threads \ {t} : SameThread(v)
  BY <1>1 DEF objectLock, Begin, Locked, Unlocked, Thin, locals, InWait,
     LocalsTypeOK, ObjTypeOK, ThreadTypeOK, SameThread
<1>6. \A v \in Threads \ {t} : SameMonitors(v)
  BY <1>1 DEF objectLock, Begin, Locked, Unlocked, Thin, locals, ThreadOK,
     WithMonitor, WithMutex, InWait, OwnerHoldsMutex, PlaceOK, CallAt,
     MonAt, Before, Inflating, Waiting, Unlocking, Zero, Inside, Waits,
     LocalsTypeOK, MonTypeOK, ObjTypeOK, ThreadTypeOK, SameMonitors
<1>7. \A v \in Threads \ {t} : SameLocks(v)
  <2> SUFFICES ASSUME NEW v \in Threads \ {t} PROVE SameLocks(v)
    OBVIOUS
  <2>1. CASE lock' = lock
    BY <2>1 DEF objectLock, SameLocks, ThinBy
  <2>2. CASE lock' # lock
    <3>1. PICK w : /\ lock' = [lock EXCEPT ![o] = w] /\ ~w.fat /\ w.tid = t
                   /\ lock[o] = Unlocked \/ ThinBy(t, o)
      <4>1. CASE lock[o] = Unlocked /\ lock' = [lock EXCEPT ![o] = Thin(t, 0)]
        <5>1. ~Thin(t, 0).fat /\ Thin(t, 0).tid = t
          BY DEF Thin
        <5> QED
          BY <4>1, <5>1
      <4>2. CASE ThinBy(t, o) /\ lock' = [lock EXCEPT ![o].count = @ + 1]
        <5>1. /\ ~[lock[o] EXCEPT !.count = @ + 1].fat
              /\ [lock[o] EXCEPT !.count = @ + 1].tid = t
          BY <4>2 DEF ThinBy, ObjTypeOK, LockWord
        <5> QED
          BY <4>2, <5>1
      <4> QED
        BY <2>2, <4>1, <4>2 DEF objectLock
    <3>2. ~ThinBy(v, o) /\ lock[o] # SelfPtr /\ ~lock[o].fat
      <4>1. lock[o].tid \in {Nil, t} /\ ~lock[o].fat /\ SelfPtr.tid = "self"
        BY <3>1 DEF ThinBy, Unlocked, SelfPtr, Thin
      <4> QED
        BY <4>1 DEF ThinBy
    <3>3. cache' = cache /\ w.tid # v /\ (w.fat <=> lock[o].fat)
      BY <3>1, <3>2 DEF objectLock
    <3> QED
      BY <3>1, <3>2, <3>3, OneLockChanges
  <2> QED
    BY <2>1, <2>2
<1>8. \A v \in Threads \ {t} : Undisturbed(v)
  BY <1>5, <1>6, <1>7 DEF Undisturbed
<1>9. \A v \in Threads \ {t} : ThreadLocksOK(v)'
  BY <1>2, <1>3, <1>8, OthersKeep
<1>10. \A p \in Objects \ {o} : CountsOK(t, p)'
  BY <1>1, <1>2, <1>3, ElsewhereKeeps DEF objectLock, Begin, Locked,
     Unlocked, Thin, locals, ThreadOK, WithMonitor, WithMutex, InWait,
     OwnerHoldsMutex, PlaceOK, CallAt, MonAt, Before, Inflating, Waiting,
     Unlocking, Zero, Inside, Waits, LocalsTypeOK, MonTypeOK, ObjTypeOK,
     ThreadTypeOK, LInv, TableOK, TableTypeOK
<1>11. CountsOK(t, o)'
  BY <1>1, <1>2, <1>3 DEF objectLock, Begin, Locked, Unlocked, Thin,
     locals, ThreadOK, WithMonitor, WithMutex, InWait, OwnerHoldsMutex,
     PlaceOK, CallAt, MonAt, Before, Inflating, Waiting, Unlocking, Zero,
     Inside, Waits, LocalsTypeOK, MonTypeOK, ObjTypeOK, ThreadTypeOK,
     CountsOK, HeldIsSeen, ThinIsCounted, FatIsCounted, OwnsFat, InTransit,
     Transient, ThinBy, LInv, LockShape, FatHasMonitor, LockWord
<1>12. PlaceOK(t)'
  BY <1>1, <1>2, <1>3 DEF objectLock, Begin, Locked, Unlocked, Thin,
     locals, ThreadOK, WithMonitor, WithMutex, InWait, OwnerHoldsMutex,
     PlaceOK, CallAt, MonAt, Before, Inflating, Waiting, Unlocking, Zero,
     Inside, Waits, LocalsTypeOK, MonTypeOK, ObjTypeOK, ThreadTypeOK,
     CountsOK, HeldIsSeen, ThinIsCounted, FatIsCounted, OwnsFat, InTransit,
     Transient, ThinBy, LInv, LockShape, FatHasMonitor, LockWord,
     FreeIsZero
<1> QED
  BY <1>2, <1>3, <1>4, <1>9, <1>10, <1>11, <1>12 DEF LInv, ThreadLocksOK,
     LocalsTypeOK

(* objectUnlock counts a thin lock down, empties its word or, with several *)
(* processors, leaves the store on its way; of a fat one it decides        *)
(* whether to deflate.  The thread has locked the object, for the program  *)
(* is balanced.                                                            *)
LEMMA objectUnlockSafe ==
    ASSUME IInv, IInv', LInv, Balanced, NeverScavenges,
           NEW t \in Threads, NEW o \in Objects, objectUnlock(t, o)
    PROVE  LInv'
<1> USE ThinLockAssumption DEF IInv, TypeOK, objVars, tblVars, ctrVars, monVars,
    thrVars
<1>1. ThreadOK(t) /\ PlaceOK(t) /\ CountsOK(t, o)
  BY DEF LInv, ThreadLocksOK, LocalsTypeOK
<1>2. TableOK' /\ FreeIsZero'
  BY DEF objectUnlock, LInv, TableOK, FreeIsZero
<1>3. LockShape'
  BY <1>1 DEF objectUnlock, Begin, Unlocked, Thin, locals, ThreadOK,
     WithMonitor, WithMutex, InWait, OwnerHoldsMutex, PlaceOK, CallAt,
     MonAt, Before, Inflating, Waiting, Unlocking, Zero, Inside, Waits,
     LocalsTypeOK, MonTypeOK, ObjTypeOK, ThreadTypeOK, LInv, LockShape,
     FatHasMonitor, LockWord
<1>4. WaitersCounted'
  BY <1>1, WaitersKept DEF objectUnlock, Begin, Unlocked, Thin, locals,
     LInv, InWait, LocalsTypeOK, ThreadOK, WithMonitor
<1>5. \A v \in Threads \ {t} : SameThread(v)
  BY <1>1 DEF objectUnlock, Begin, Unlocked, Thin, locals, InWait,
     LocalsTypeOK, ObjTypeOK, ThreadTypeOK, SameThread
<1>6. \A v \in Threads \ {t} : SameMonitors(v)
  BY <1>1 DEF objectUnlock, Begin, Unlocked, Thin, locals, ThreadOK,
     WithMonitor, WithMutex, InWait, OwnerHoldsMutex, PlaceOK, CallAt,
     MonAt, Before, Inflating, Waiting, Unlocking, Zero, Inside, Waits,
     LocalsTypeOK, MonTypeOK, ObjTypeOK, ThreadTypeOK, SameMonitors
<1>7. \A v \in Threads \ {t} : SameLocks(v)
  <2> SUFFICES ASSUME NEW v \in Threads \ {t} PROVE SameLocks(v)
    OBVIOUS
  <2>1. CASE lock' = lock
    BY <2>1 DEF objectUnlock, SameLocks, ThinBy
  <2>2. CASE lock' # lock
    <3>1. PICK w : /\ lock' = [lock EXCEPT ![o] = w] /\ ~w.fat
                   /\ w.tid # v /\ ThinBy(t, o)
      <4>1. CASE lock[o] = Thin(t, 0) /\ lock' = [lock EXCEPT ![o] = Unlocked]
        <5>1. ~Unlocked.fat /\ Unlocked.tid # v /\ ThinBy(t, o)
          BY <4>1 DEF Thin, Unlocked, ThinBy
        <5> QED
          BY <4>1, <5>1
      <4>2. CASE ThinBy(t, o) /\ lock' = [lock EXCEPT ![o].count = @ - 1]
        <5>1. /\ ~[lock[o] EXCEPT !.count = @ - 1].fat
              /\ [lock[o] EXCEPT !.count = @ - 1].tid = t
          BY <4>2 DEF ThinBy, ObjTypeOK, LockWord
        <5> QED
          BY <4>2, <5>1
      <4> QED
        BY <2>2, <4>1, <4>2 DEF objectUnlock
    <3>2. ~ThinBy(v, o) /\ lock[o] # SelfPtr /\ ~lock[o].fat
      BY <3>1 DEF ThinBy, SelfPtr, Thin
    <3>3. cache' = cache /\ (w.fat <=> lock[o].fat)
      BY <3>1, <3>2 DEF objectUnlock
    <3> QED
      BY <3>1, <3>2, <3>3, OneLockChanges
  <2> QED
    BY <2>1, <2>2
<1>8. \A v \in Threads \ {t} : Undisturbed(v)
  BY <1>5, <1>6, <1>7 DEF Undisturbed
<1>9. \A v \in Threads \ {t} : ThreadLocksOK(v)'
  BY <1>2, <1>3, <1>8, OthersKeep
<1>10. \A p \in Objects \ {o} : CountsOK(t, p)'
  BY <1>1, <1>2, <1>3, ElsewhereKeeps DEF objectUnlock, Begin, Unlocked,
     Thin, locals, ThreadOK, WithMonitor, WithMutex, InWait,
     OwnerHoldsMutex, PlaceOK, CallAt, MonAt, Before, Inflating, Waiting,
     Unlocking, Zero, Inside, Waits, LocalsTypeOK, MonTypeOK, ObjTypeOK,
     ThreadTypeOK, LInv, TableOK, TableTypeOK
<1>11. CountsOK(t, o)'
  BY <1>1, <1>2, <1>3 DEF objectUnlock, Begin, Unlocked, Thin, locals,
     ThreadOK, WithMonitor, WithMutex, InWait, OwnerHoldsMutex, PlaceOK,
     CallAt, MonAt, Before, Inflating, Waiting, Unlocking, Zero, Inside,
     Waits, LocalsTypeOK, MonTypeOK, ObjTypeOK, ThreadTypeOK, CountsOK,
     HeldIsSeen, ThinIsCounted, FatIsCounted, OwnsFat, InTransit,
     Transient, ThinBy, LInv, LockShape, FatHasMonitor, LockWord
<1>12. PlaceOK(t)'
  <2>1. depth[t][o] > 0 /\ depth' = [depth EXCEPT ![t][o] = @ - 1]
    BY DEF objectUnlock, Balanced
  <2>2. CASE lock[o].fat
    <3>1. /\ owner[lock[o].mon] = t /\ lock[o].mon = cache[o] /\ cache[o] # Nil
          /\ depth[t][o] = count[cache[o]] + 1 /\ pc[t] = "idle" /\ lock' = lock
      BY <1>1, <2>1, <2>2 DEF objectUnlock, ThreadOK, WithMonitor,
       PlaceOK, CallAt, MonAt, Before, Inflating, Waiting, Unlocking, Zero,
       Inside, Waits, LocalsTypeOK, MonTypeOK, ObjTypeOK, CountsOK, HeldIsSeen,
       ThinIsCounted, FatIsCounted, OwnsFat, InTransit, Transient, ThinBy,
       LInv, LockShape, FatHasMonitor, LockWord, InWait, Thin
    <3>2. /\ call'[t] = "unlock" /\ obj'[t] = o /\ mon'[t] = cache[o]
          /\ \/ pc'[t] = "unlock"
             \/ pc'[t] = "deflate" /\ count[cache[o]] = 0 /\ waiting[cache[o]] = 0
          /\ depth'[t][o] = count[cache[o]]
          /\ owner' = owner /\ count' = count /\ waiting' = waiting /\ cache' = cache
      BY <2>1, <2>2, <3>1 DEF objectUnlock, Begin, Uncontended, ThinBy, Thin,
         LocalsTypeOK, ObjTypeOK, MonTypeOK, TableTypeOK
    <3> QED
      BY <2>2, <3>1, <3>2 DEF PlaceOK, CallAt, MonAt, Before, Inflating, Waiting,
         Unlocking, Zero, Inside, Waits, InWait
  <2>3. CASE lock[o] = Thin(t, 0) /\ obj'[t] = o
    <3>1. /\ call'[t] = "unlock" /\ mon'[t] = Nil /\ depth'[t][o] = 0
          /\ pc'[t] = "test_flc" \/ (pc'[t] = "drain" /\ lock' = lock)
      BY <1>1, <2>1, <2>3 DEF objectUnlock, Begin, Thin, ThreadOK, WithMonitor,
       PlaceOK, CallAt, MonAt, Before, Inflating, Waiting, Unlocking, Zero,
       Inside, Waits, LocalsTypeOK, MonTypeOK, ObjTypeOK, CountsOK, HeldIsSeen,
       ThinIsCounted, FatIsCounted, OwnsFat, InTransit, Transient, ThinBy,
       LInv, LockShape, FatHasMonitor, LockWord
    <3> QED
      BY <2>3, <3>1 DEF objectUnlock, PlaceOK, CallAt, MonAt, Before, Inflating,
         Waiting, Unlocking, Zero, Inside, Waits, InWait
  <2>4. CASE pc'[t] = "idle" /\ call' = call /\ mon' = mon /\ obj' = obj /\ cache' = cache
    BY <1>1, <2>4 DEF objectUnlock, PlaceOK, CallAt, MonAt, Before, Inflating,
       Waiting, Unlocking, InWait
  <2> QED
    BY <2>2, <2>3, <2>4 DEF objectUnlock, ThinBy, Begin, locals, LocalsTypeOK
<1> QED
  BY <1>2, <1>3, <1>4, <1>9, <1>10, <1>11, <1>12 DEF LInv, ThreadLocksOK,
     LocalsTypeOK

(* objectWait inflates the thin lock of its thread, waits in the Monitor   *)
(* of a fat one, and refuses the rest: they have not locked the object.    *)
LEMMA objectWaitSafe ==
    ASSUME IInv, IInv', LInv, Balanced, NeverScavenges,
           NEW t \in Threads, NEW o \in Objects, NEW c \in Calls, objectWait(t, o, c)
    PROVE  LInv'
<1> USE ThinLockAssumption DEF IInv, TypeOK, objVars, tblVars, ctrVars, monVars,
    thrVars
<1>1. ThreadOK(t) /\ PlaceOK(t) /\ CountsOK(t, o)
  BY DEF LInv, ThreadLocksOK, LocalsTypeOK
<1>2. TableOK' /\ LockShape' /\ FreeIsZero'
  BY DEF objectWait, LInv, TableOK, LockShape, FreeIsZero
<1>3. WaitersCounted'
  BY <1>1, WaitersKept DEF objectWait, Begin, LInv, InWait, LocalsTypeOK,
     ThreadOK, WithMonitor
<1>4. \A v \in Threads \ {t} : Undisturbed(v)
  BY <1>1 DEF objectWait, Begin, ThreadOK, WithMonitor, WithMutex, InWait,
     OwnerHoldsMutex, PlaceOK, CallAt, MonAt, Before, Inflating, Waiting,
     Unlocking, Zero, Inside, Waits, LocalsTypeOK, MonTypeOK, ObjTypeOK,
     ThreadTypeOK, Undisturbed, SameThread, SameMonitors, SameLocks, ThinBy
<1>5. \A v \in Threads \ {t} : ThreadLocksOK(v)'
  BY <1>2, <1>4, OthersKeep
<1>6. \A p \in Objects \ {o} : CountsOK(t, p)'
  BY <1>1, <1>2, ElsewhereKeeps DEF objectWait, Begin, ThreadOK,
     WithMonitor, WithMutex, InWait, OwnerHoldsMutex, PlaceOK, CallAt,
     MonAt, Before, Inflating, Waiting, Unlocking, Zero, Inside, Waits,
     LocalsTypeOK, MonTypeOK, ObjTypeOK, ThreadTypeOK
<1>7. CountsOK(t, o)'
  BY <1>1, <1>2 DEF objectWait, Begin, ThreadOK, WithMonitor, WithMutex,
     InWait, OwnerHoldsMutex, PlaceOK, CallAt, MonAt, Before, Inflating,
     Waiting, Unlocking, Zero, Inside, Waits, LocalsTypeOK, MonTypeOK,
     ObjTypeOK, ThreadTypeOK, CountsOK, HeldIsSeen, ThinIsCounted,
     FatIsCounted, OwnsFat, InTransit, Transient, ThinBy, LInv, LockShape,
     FatHasMonitor
<1>8. PlaceOK(t)'
  BY <1>1, <1>2 DEF objectWait, Begin, ThreadOK, WithMonitor, WithMutex,
     InWait, OwnerHoldsMutex, PlaceOK, CallAt, MonAt, Before, Inflating,
     Waiting, Unlocking, Zero, Inside, Waits, LocalsTypeOK, MonTypeOK,
     ObjTypeOK, ThreadTypeOK, CountsOK, HeldIsSeen, ThinIsCounted,
     FatIsCounted, OwnsFat, InTransit, Transient, ThinBy, LInv, LockShape,
     FatHasMonitor
<1> QED
  BY <1>2, <1>3, <1>5, <1>6, <1>7, <1>8 DEF LInv, ThreadLocksOK,
     LocalsTypeOK

(* objectNotify wakes waiters, or refuses a thread that does not own the   *)
(* Monitor and so has not locked the object.                               *)
LEMMA objectNotifySafe ==
    ASSUME IInv, IInv', LInv, Balanced, NeverScavenges,
           NEW t \in Threads, NEW o \in Objects, NEW c \in Calls, objectNotify(t, o, c)
    PROVE  LInv'
<1> USE ThinLockAssumption DEF IInv, TypeOK, objVars, tblVars, ctrVars, monVars,
    thrVars
<1>1. ThreadOK(t) /\ PlaceOK(t) /\ CountsOK(t, o)
  BY DEF LInv, ThreadLocksOK, LocalsTypeOK
<1>2. TableOK' /\ LockShape' /\ FreeIsZero'
  BY DEF objectNotify, LInv, TableOK, LockShape, FreeIsZero
<1>3. WaitersCounted'
  BY <1>1, WaitersKept DEF objectNotify, Begin, NotifyOne, NotifyAll, Wake,
     Parked, Goto, locals, LInv, InWait, LocalsTypeOK, ThreadOK,
     WithMonitor
<1>4. \A v \in Threads \ {t} : Undisturbed(v)
  BY <1>1 DEF objectNotify, Begin, NotifyOne, NotifyAll, Wake, Parked,
     Goto, locals, ThreadOK, WithMonitor, WithMutex, InWait,
     OwnerHoldsMutex, PlaceOK, CallAt, MonAt, Before, Inflating, Waiting,
     Unlocking, Zero, Inside, Waits, LocalsTypeOK, MonTypeOK, ObjTypeOK,
     ThreadTypeOK, Undisturbed, SameThread, SameMonitors, SameLocks, ThinBy
<1>5. \A v \in Threads \ {t} : ThreadLocksOK(v)'
  BY <1>2, <1>4, OthersKeep
<1>6. \A p \in Objects \ {o} : CountsOK(t, p)'
  BY <1>1, <1>2, ElsewhereKeeps DEF objectNotify, Begin, NotifyOne,
     NotifyAll, Wake, Parked, Goto, locals, ThreadOK, WithMonitor,
     WithMutex, InWait, OwnerHoldsMutex, PlaceOK, CallAt, MonAt, Before,
     Inflating, Waiting, Unlocking, Zero, Inside, Waits, LocalsTypeOK,
     MonTypeOK, ObjTypeOK, ThreadTypeOK
<1>7. CountsOK(t, o)'
  BY <1>1, <1>2 DEF objectNotify, Begin, NotifyOne, NotifyAll, Wake,
     Parked, Goto, locals, ThreadOK, WithMonitor, WithMutex, InWait,
     OwnerHoldsMutex, PlaceOK, CallAt, MonAt, Before, Inflating, Waiting,
     Unlocking, Zero, Inside, Waits, LocalsTypeOK, MonTypeOK, ObjTypeOK,
     ThreadTypeOK, CountsOK, HeldIsSeen, ThinIsCounted, FatIsCounted,
     OwnsFat, InTransit, Transient, ThinBy, LInv, LockShape, FatHasMonitor
<1>8. PlaceOK(t)'
  BY <1>1, <1>2 DEF objectNotify, Begin, NotifyOne, NotifyAll, Wake,
     Parked, Goto, locals, ThreadOK, WithMonitor, WithMutex, InWait,
     OwnerHoldsMutex, PlaceOK, CallAt, MonAt, Before, Inflating, Waiting,
     Unlocking, Zero, Inside, Waits, LocalsTypeOK, MonTypeOK, ObjTypeOK,
     ThreadTypeOK, CountsOK, HeldIsSeen, ThinIsCounted, FatIsCounted,
     OwnsFat, InTransit, Transient, ThinBy, LInv, LockShape, FatHasMonitor
<1> QED
  BY <1>2, <1>3, <1>5, <1>6, <1>7, <1>8 DEF LInv, ThreadLocksOK,
     LocalsTypeOK

(* threadInterrupt reads the Monitor its target waits in, which need not   *)
(* be that of the object the caller last used.                             *)
LEMMA threadInterruptSafe ==
    ASSUME IInv, IInv', LInv, Balanced, NeverScavenges,
           NEW t \in Threads, NEW u \in Threads, threadInterrupt(t, u)
    PROVE  LInv'
<1> USE ThinLockAssumption DEF IInv, TypeOK, objVars, tblVars, ctrVars, monVars,
    thrVars
<1>1. ThreadOK(t) /\ PlaceOK(t) /\ CountsOK(t, obj[t])
  BY DEF LInv, ThreadLocksOK, LocalsTypeOK
<1>2. TableOK' /\ LockShape' /\ FreeIsZero'
  BY DEF threadInterrupt, LInv, TableOK, LockShape, FreeIsZero
<1>3. WaitersCounted'
  BY <1>1, WaitersKept DEF threadInterrupt, wait_mon, LInv, InWait,
     LocalsTypeOK, ThreadOK, WithMonitor
<1>4. \A v \in Threads \ {t} : Undisturbed(v)
  BY <1>1 DEF threadInterrupt, wait_mon, ThreadOK, WithMonitor, WithMutex,
     InWait, OwnerHoldsMutex, PlaceOK, CallAt, MonAt, Before, Inflating,
     Waiting, Unlocking, Zero, Inside, Waits, LocalsTypeOK, MonTypeOK,
     ObjTypeOK, ThreadTypeOK, Undisturbed, SameThread, SameMonitors,
     SameLocks, ThinBy
<1>5. \A v \in Threads \ {t} : ThreadLocksOK(v)'
  BY <1>2, <1>4, OthersKeep
<1>6. \A p \in Objects \ {obj'[t]} : CountsOK(t, p)'
  BY <1>1, <1>2, ElsewhereKeeps DEF threadInterrupt, wait_mon, ThreadOK,
     WithMonitor, WithMutex, InWait, OwnerHoldsMutex, PlaceOK, CallAt,
     MonAt, Before, Inflating, Waiting, Unlocking, Zero, Inside, Waits,
     LocalsTypeOK, MonTypeOK, ObjTypeOK, ThreadTypeOK
<1>7. CountsOK(t, obj[t])'
  BY <1>1, <1>2 DEF threadInterrupt, wait_mon, ThreadOK, WithMonitor,
     WithMutex, InWait, OwnerHoldsMutex, PlaceOK, CallAt, MonAt, Before,
     Inflating, Waiting, Unlocking, Zero, Inside, Waits, LocalsTypeOK,
     MonTypeOK, ObjTypeOK, ThreadTypeOK, CountsOK, HeldIsSeen,
     ThinIsCounted, FatIsCounted, OwnsFat, InTransit, Transient, ThinBy,
     LInv, LockShape, FatHasMonitor
<1>8. PlaceOK(t)'
  BY <1>1, <1>2 DEF threadInterrupt, wait_mon, ThreadOK, WithMonitor,
     WithMutex, InWait, OwnerHoldsMutex, PlaceOK, CallAt, MonAt, Before,
     Inflating, Waiting, Unlocking, Zero, Inside, Waits, LocalsTypeOK,
     MonTypeOK, ObjTypeOK, ThreadTypeOK, CountsOK, HeldIsSeen,
     ThinIsCounted, FatIsCounted, OwnsFat, InTransit, Transient, ThinBy,
     LInv, LockShape, FatHasMonitor
<1> QED
  BY <1>2, <1>3, <1>5, <1>6, <1>7, <1>8 DEF LInv, ThreadLocksOK,
     LocalsTypeOK

(* Leaving the queue of the condition variable, waiters stay waiters.      *)
LEMMA leaveQueueSafe ==
    ASSUME IInv, IInv', LInv, Balanced, NeverScavenges,
           NEW t \in Threads, leaveQueue(t)
    PROVE  LInv'
<1> USE ThinLockAssumption DEF IInv, TypeOK, objVars, tblVars, ctrVars, monVars,
    thrVars
<1>1. ThreadOK(t) /\ PlaceOK(t) /\ CountsOK(t, obj[t])
  BY DEF LInv, ThreadLocksOK, LocalsTypeOK
<1>2. TableOK' /\ LockShape' /\ FreeIsZero'
  BY DEF leaveQueue, LInv, TableOK, LockShape, FreeIsZero
<1>3. WaitersCounted'
  BY <1>1, WaitersKept DEF leaveQueue, Goto, locals, LInv, InWait,
     LocalsTypeOK, ThreadOK, WithMonitor
<1>4. \A v \in Threads \ {t} : Undisturbed(v)
  BY <1>1 DEF leaveQueue, Goto, locals, ThreadOK, WithMonitor, WithMutex,
     InWait, OwnerHoldsMutex, PlaceOK, CallAt, MonAt, Before, Inflating,
     Waiting, Unlocking, Zero, Inside, Waits, LocalsTypeOK, MonTypeOK,
     ObjTypeOK, ThreadTypeOK, Undisturbed, SameThread, SameMonitors,
     SameLocks, ThinBy
<1>5. \A v \in Threads \ {t} : ThreadLocksOK(v)'
  BY <1>2, <1>4, OthersKeep
<1>6. \A p \in Objects \ {obj'[t]} : CountsOK(t, p)'
  BY <1>1, <1>2, ElsewhereKeeps DEF leaveQueue, Goto, locals, ThreadOK,
     WithMonitor, WithMutex, InWait, OwnerHoldsMutex, PlaceOK, CallAt,
     MonAt, Before, Inflating, Waiting, Unlocking, Zero, Inside, Waits,
     LocalsTypeOK, MonTypeOK, ObjTypeOK, ThreadTypeOK
<1>7. CountsOK(t, obj[t])'
  BY <1>1, <1>2 DEF leaveQueue, Goto, locals, ThreadOK, WithMonitor,
     WithMutex, InWait, OwnerHoldsMutex, PlaceOK, CallAt, MonAt, Before,
     Inflating, Waiting, Unlocking, Zero, Inside, Waits, LocalsTypeOK,
     MonTypeOK, ObjTypeOK, ThreadTypeOK, CountsOK, HeldIsSeen,
     ThinIsCounted, FatIsCounted, OwnsFat, InTransit, Transient, ThinBy,
     LInv, LockShape, FatHasMonitor
<1>8. PlaceOK(t)'
  BY <1>1, <1>2 DEF leaveQueue, Goto, locals, ThreadOK, WithMonitor,
     WithMutex, InWait, OwnerHoldsMutex, PlaceOK, CallAt, MonAt, Before,
     Inflating, Waiting, Unlocking, Zero, Inside, Waits, LocalsTypeOK,
     MonTypeOK, ObjTypeOK, ThreadTypeOK, CountsOK, HeldIsSeen,
     ThinIsCounted, FatIsCounted, OwnsFat, InTransit, Transient, ThinBy,
     LInv, LockShape, FatHasMonitor
<1> QED
  BY <1>2, <1>3, <1>5, <1>6, <1>7, <1>8 DEF LInv, ThreadLocksOK,
     LocalsTypeOK

(* Thread.interrupted() clears a flag.                                     *)
LEMMA threadInterruptedSafe ==
    ASSUME IInv, IInv', LInv, Balanced, NeverScavenges,
           NEW t \in Threads, threadInterrupted(t)
    PROVE  LInv'
<1> USE ThinLockAssumption DEF IInv, TypeOK, objVars, tblVars, ctrVars, monVars,
    thrVars
<1>1. ThreadOK(t) /\ PlaceOK(t) /\ CountsOK(t, obj[t])
  BY DEF LInv, ThreadLocksOK, LocalsTypeOK
<1>2. TableOK' /\ LockShape' /\ FreeIsZero'
  BY DEF threadInterrupted, LInv, TableOK, LockShape, FreeIsZero
<1>3. WaitersCounted'
  BY <1>1, WaitersKept DEF threadInterrupted, locals, LInv, InWait,
     LocalsTypeOK, ThreadOK, WithMonitor
<1>4. \A v \in Threads \ {t} : Undisturbed(v)
  BY <1>1 DEF threadInterrupted, locals, ThreadOK, WithMonitor, WithMutex,
     InWait, OwnerHoldsMutex, PlaceOK, CallAt, MonAt, Before, Inflating,
     Waiting, Unlocking, Zero, Inside, Waits, LocalsTypeOK, MonTypeOK,
     ObjTypeOK, ThreadTypeOK, Undisturbed, SameThread, SameMonitors,
     SameLocks, ThinBy
<1>5. \A v \in Threads \ {t} : ThreadLocksOK(v)'
  BY <1>2, <1>4, OthersKeep
<1>6. \A p \in Objects \ {obj'[t]} : CountsOK(t, p)'
  BY <1>1, <1>2, ElsewhereKeeps DEF threadInterrupted, locals, ThreadOK,
     WithMonitor, WithMutex, InWait, OwnerHoldsMutex, PlaceOK, CallAt,
     MonAt, Before, Inflating, Waiting, Unlocking, Zero, Inside, Waits,
     LocalsTypeOK, MonTypeOK, ObjTypeOK, ThreadTypeOK
<1>7. CountsOK(t, obj[t])'
  BY <1>1, <1>2 DEF threadInterrupted, locals, ThreadOK, WithMonitor,
     WithMutex, InWait, OwnerHoldsMutex, PlaceOK, CallAt, MonAt, Before,
     Inflating, Waiting, Unlocking, Zero, Inside, Waits, LocalsTypeOK,
     MonTypeOK, ObjTypeOK, ThreadTypeOK, CountsOK, HeldIsSeen,
     ThinIsCounted, FatIsCounted, OwnsFat, InTransit, Transient, ThinBy,
     LInv, LockShape, FatHasMonitor
<1>8. PlaceOK(t)'
  BY <1>1, <1>2 DEF threadInterrupted, locals, ThreadOK, WithMonitor,
     WithMutex, InWait, OwnerHoldsMutex, PlaceOK, CallAt, MonAt, Before,
     Inflating, Waiting, Unlocking, Zero, Inside, Waits, LocalsTypeOK,
     MonTypeOK, ObjTypeOK, ThreadTypeOK, CountsOK, HeldIsSeen,
     ThinIsCounted, FatIsCounted, OwnsFat, InTransit, Transient, ThinBy,
     LInv, LockShape, FatHasMonitor
<1> QED
  BY <1>2, <1>3, <1>5, <1>6, <1>7, <1>8 DEF LInv, ThreadLocksOK,
     LocalsTypeOK

(* Each step of a thread keeps the invariant.                              *)
LEMMA NextSafe ==
    ASSUME IInv, IInv', LInv, Balanced, NeverScavenges, Next
    PROVE  LInv'
<1>1. PICK t \in Threads :
        \/ \E o \in Objects :
              \/ objectLock(t, o) \/ objectUnlock(t, o)
              \/ \E c \in Calls : objectWait(t, o, c) \/ objectNotify(t, o, c)
        \/ \E u \in Threads : threadInterrupt(t, u)
        \/ leaveQueue(t) \/ threadInterrupted(t)
        \/ Step(t)
  BY DEF Next
<1>2. ASSUME NEW o \in Objects, objectLock(t, o) \/ objectUnlock(t, o)
      PROVE  LInv'
  BY <1>2, objectLockSafe, objectUnlockSafe
<1>3. ASSUME NEW o \in Objects, NEW c \in Calls,
             objectWait(t, o, c) \/ objectNotify(t, o, c)
      PROVE  LInv'
  BY <1>3, objectWaitSafe, objectNotifySafe
<1>4. CASE (\E u \in Threads : threadInterrupt(t, u)) \/ leaveQueue(t) \/ threadInterrupted(t)
  BY <1>4, threadInterruptSafe, leaveQueueSafe, threadInterruptedSafe
<1>5. CASE Step(t)
  BY <1>5, findMonitorSafe, findHashEntrySafe, monitorLockSafe, storeEnteringSafe,
     monitorLockedSafe, storeEnteredSafe, contendSafe, set_flc_bitSafe,
     compareAndSwapSafe, inflateSafe, fattenSafe, monitorWaitSafe,
     testInterruptedSafe, wakeSafe, timedOutSafe, clearInterruptedSafe,
     drainStoreSafe, test_flc_bitSafe, monitorTryLockSafe, notifyContenderSafe,
     deflateSafe, notInUseSafe, monitorUnlockSafe, notOwnerSafe,
     setInterruptedSafe, tryMutexSafe, interruptWaiterSafe, releaseMutexSafe
  DEF Step
<1> QED
  BY <1>1, <1>2, <1>3, <1>4, <1>5

(* So does a step that changes nothing.                                    *)
LEMMA StutterSafe ==
    ASSUME LInv, UNCHANGED vars
    PROVE  LInv'
<1> USE DEF vars, objVars, tblVars, monVars, ctrVars, thrVars, locals, LInv
<1>1. TableOK' /\ LockShape' /\ FreeIsZero'
  BY DEF TableOK, LockShape, FreeIsZero
<1>2. WaitersCounted'
  BY WaitersKept DEF InWait
<1>3. ASSUME NEW t \in Threads PROVE ThreadLocksOK(t)'
  <2>1. ThreadLocksOK(t)
    OBVIOUS
  <2>2. PlaceOK(t)'
    BY <2>1 DEF ThreadLocksOK, PlaceOK, CallAt, MonAt, Before, Inflating, Waiting,
       Unlocking, Zero, ThinBy, InWait
  <2>3. \A o \in Objects : CountsOK(t, o)'
    BY <2>1 DEF ThreadLocksOK, CountsOK, HeldIsSeen, ThinIsCounted, FatIsCounted,
       OwnsFat, InTransit, ThinBy, InWait
  <2> QED
    BY <2>2, <2>3 DEF ThreadLocksOK
<1> QED
  BY <1>1, <1>2, <1>3

(* It holds when no object is locked yet.                                  *)
LEMMA InitSafe ==
    ASSUME Init
    PROVE  LInv
<1> USE ThinLockAssumption
<1>1. TableOK /\ LockShape /\ FreeIsZero
  BY DEF Init, TableOK, LockShape, FreeIsZero, Unlocked, Thin
<1>2. WaitersCounted
  <2>1. \A m : Waiters(m) = {}
    BY DEF Init, Waiters, InWait
  <2> QED
    BY <2>1, FS_EmptySet DEF Init, WaitersCounted
<1>3. ASSUME NEW t \in Threads PROVE ThreadLocksOK(t)
  <2>1. /\ pc[t] = "idle" /\ call[t] = "none" /\ mon[t] = Nil /\ ~InWait(t)
        /\ \A o \in Objects : /\ depth[t][o] = 0 /\ ~ThinBy(t, o) /\ cache[o] = Nil
    BY DEF Init, InWait, ThinBy, Unlocked, Thin
  <2>2. PlaceOK(t)
    BY <2>1 DEF PlaceOK, CallAt, MonAt, Before, Inflating, Waiting, Unlocking
  <2>3. \A o \in Objects : CountsOK(t, o)
    BY <2>1 DEF CountsOK, HeldIsSeen, ThinIsCounted, FatIsCounted
  <2> QED
    BY <2>2, <2>3 DEF ThreadLocksOK
<1> QED
  BY <1>1, <1>2, <1>3 DEF LInv

-----------------------------------------------------------------------------
(* The invariant holds in every state of a program that unlocks what it    *)
(* has locked, if the table of Monitors has room.                          *)
THEOREM LocksInvariance ==
    ASSUME Balanced, NeverScavenges
    PROVE  Spec => []LInv
<1>1. ASSUME IInv, IInv', LInv, [Next]_vars
      PROVE  LInv'
  BY <1>1, NextSafe, StutterSafe
<1> QED
  BY <1>1, InitSafe, Invariance, PTL DEF Spec

(* What an object's lock says of a thread that has locked it and has not   *)
(* given it up in Object.wait().                                           *)
LEMMA HolderIsSeen ==
    ASSUME LInv, NEW t \in Threads, NEW o \in Objects, Holds(t, o)
    PROVE  ThinBy(t, o) \/ OwnsFat(t, o)
BY DEF LInv, ThreadLocksOK, CountsOK, HeldIsSeen, Holds

(* Two threads never hold the same object (lock.c: objectLock, the fast    *)
(* path and the contended one, objectUnlock with its deflation, the        *)
(* return from objectWait).                                                *)
THEOREM LocksExclude ==
    ASSUME Balanced, NeverScavenges
    PROVE  Spec => []MutualExclusion
<1>1. LInv => MutualExclusion
  BY HolderIsSeen DEF MutualExclusion, ThinBy, OwnsFat
<1> QED
  BY <1>1, LocksInvariance, PTL

(* Between calls, the lock word or the Monitor it points at says how often *)
(* each thread has locked the object, through inflation, the overflow of   *)
(* the thin lock's count, waits and deflation.                             *)
THEOREM NoLockIsLost ==
    ASSUME Balanced, NeverScavenges
    PROVE  Spec => []DepthIsRecorded
<1>1. ASSUME IInv, LInv, NEW t \in Threads, NEW o \in Objects, pc[t] = "idle"
      PROVE  depth[t][o] = IF lock[o].fat
                           THEN LET m == lock[o].mon IN
                                IF owner[m] = t THEN count[m] + 1 ELSE 0
                           ELSE IF ThinBy(t, o) THEN lock[o].count + 1 ELSE 0
  <2>1. CountsOK(t, o) /\ depth[t][o] \in Nat
    BY <1>1 DEF LInv, ThreadLocksOK, IInv, TypeOK, ObjTypeOK
  <2>2. lock[o].fat => lock[o].mon = cache[o] /\ cache[o] # Nil
    BY <1>1 DEF LInv, LockShape, IInv, FatHasMonitor
  <2> QED
    BY <1>1, <2>1, <2>2 DEF CountsOK, HeldIsSeen, ThinIsCounted, FatIsCounted,
       OwnsFat, InTransit, Transient, InWait, ThinBy
<1>2. IInv /\ LInv => DepthIsRecorded
  BY <1>1 DEF DepthIsRecorded
<1> QED
  BY <1>2, LocksInvariance, Invariance, PTL

(* "thread not owner" is thrown to threads that have not locked the object *)
(* (objectWait, objectNotify, objectNotifyAll), though the lock is         *)
(* inflated and deflated meanwhile.                                        *)
THEOREM OwnersAreNotRefused ==
    ASSUME Balanced, NeverScavenges
    PROVE  Spec => []OnlyNonOwnersThrow
<1>1. LInv => OnlyNonOwnersThrow
  BY DEF LInv, ThreadLocksOK, PlaceOK, Before, OnlyNonOwnersThrow
<1> QED
  BY <1>1, LocksInvariance, PTL

-----------------------------------------------------------------------------
(* lock.c implements JavaMonitor: every step of ThinLock is one of the     *)
(* abstract monitor, or none.                                              *)

(* t is inside Object.wait() on o.                                         *)
InObjectWait(t, o) == InWait(t) /\ obj[t] = o /\ call[t] \in Waits

(* Whoever has an object in the abstract monitor is in its lock word or    *)
(* owns its Monitor.                                                       *)
LEMMA HasIsSeen ==
    ASSUME LInv, NEW t \in Threads, NEW o \in Objects, Java!Has(t, o)
    PROVE  ThinBy(t, o) \/ OwnsFat(t, o)
<1>1. PlaceOK(t) /\ HeldIsSeen(t, o)
  BY DEF LInv, ThreadLocksOK, CountsOK
<1>2. depth[t][o] > 0 /\ ~InObjectWait(t, o)
  BY DEF Java!Has, waitset, InObjectWait, Waits
<1>3. InWait(t) /\ obj[t] = o => call[t] \in Waits
  BY <1>1, <1>2 DEF PlaceOK, Waiting, CallAt, InWait
<1> QED
  BY <1>1, <1>2, <1>3 DEF HeldIsSeen, InObjectWait

(* An object is free for a thread that is in its lock word or owns its     *)
(* Monitor, and for all when nobody is and nobody does.                    *)
LEMMA FreeForOwner ==
    ASSUME LInv, NEW t \in Threads, NEW o \in Objects,
           \/ ThinBy(t, o) \/ OwnsFat(t, o) \/ lock[o] = Unlocked
           \/ lock[o].fat /\ owner[lock[o].mon] = Nil
    PROVE  Java!Free(t, o)
<1> SUFFICES ASSUME NEW u \in Threads \ {t}, Java!Has(u, o) PROVE FALSE
  BY DEF Java!Free
<1>1. ThinBy(u, o) \/ OwnsFat(u, o)
  BY HasIsSeen
<1> QED
  BY <1>1, ThinLockAssumption DEF ThinBy, OwnsFat, Unlocked, Thin

(* The wait sets depend on who is inside Object.wait() on what only.       *)
LEMMA SameWaitsets ==
    ASSUME \A u \in Threads, p \in Objects : InObjectWait(u, p)' <=> InObjectWait(u, p)
    PROVE  waitset' = waitset
BY DEF waitset, InObjectWait, Waits

(* A thread that begins to wait is added to one wait set.                  *)
LEMMA WaitsetGrows ==
    ASSUME NEW t \in Threads, NEW o \in Objects,
           \A u \in Threads, p \in Objects :
               InObjectWait(u, p)' <=> InObjectWait(u, p) \/ (u = t /\ p = o)
    PROVE  waitset' = [waitset EXCEPT ![o] = @ \cup {t}]
<1>1. \A p \in Objects : waitset'[p] = {u \in Threads : InObjectWait(u, p)'}
  BY DEF waitset, InObjectWait, Waits
<1>2. \A p \in Objects : waitset[p] = {u \in Threads : InObjectWait(u, p)}
  BY DEF waitset, InObjectWait, Waits
<1>3. \A p \in Objects :
        waitset'[p] = IF p = o THEN waitset[p] \cup {t} ELSE waitset[p]
  <2> SUFFICES ASSUME NEW p \in Objects
               PROVE  waitset'[p] = IF p = o THEN waitset[p] \cup {t} ELSE waitset[p]
    OBVIOUS
  <2>1. CASE p = o
    BY <1>1, <1>2, <2>1
  <2>2. CASE p # o
    BY <1>1, <1>2, <2>2
  <2> QED
    BY <2>1, <2>2
<1>4. waitset' = [p \in Objects |-> waitset'[p]] /\ waitset = [p \in Objects |-> waitset[p]]
  BY DEF waitset
<1> HIDE DEF waitset
<1> QED
  BY <1>3, <1>4

(* A thread that has the object again is taken out of one wait set.        *)
LEMMA WaitsetShrinks ==
    ASSUME NEW t \in Threads, NEW o \in Objects,
           \A u \in Threads, p \in Objects :
               InObjectWait(u, p)' <=> InObjectWait(u, p) /\ ~(u = t /\ p = o)
    PROVE  waitset' = [waitset EXCEPT ![o] = @ \ {t}]
<1>1. \A p \in Objects : waitset'[p] = {u \in Threads : InObjectWait(u, p)'}
  BY DEF waitset, InObjectWait, Waits
<1>2. \A p \in Objects : waitset[p] = {u \in Threads : InObjectWait(u, p)}
  BY DEF waitset, InObjectWait, Waits
<1>3. \A p \in Objects :
        waitset'[p] = IF p = o THEN waitset[p] \ {t} ELSE waitset[p]
  <2> SUFFICES ASSUME NEW p \in Objects
               PROVE  waitset'[p] = IF p = o THEN waitset[p] \ {t} ELSE waitset[p]
    OBVIOUS
  <2>1. CASE p = o
    BY <1>1, <1>2, <2>1
  <2>2. CASE p # o
    BY <1>1, <1>2, <2>2
  <2> QED
    BY <2>1, <2>2
<1>4. waitset' = [p \in Objects |-> waitset'[p]] /\ waitset = [p \in Objects |-> waitset[p]]
  BY DEF waitset
<1> HIDE DEF waitset
<1> QED
  BY <1>3, <1>4

(* Steps that neither take nor give a lock are none of the abstract        *)
(* monitor's.                                                              *)
LEMMA QuietSteps ==
    ASSUME IInv, NEW t \in Threads, NEW o \in Objects,
           \/ findMonitor(t)
           \/ findHashEntry(t)
           \/ monitorLock(t)
           \/ storeEntering(t)
           \/ monitorLocked(t)
           \/ storeEntered(t)
           \/ set_flc_bit(t)
           \/ compareAndSwap(t)
           \/ inflate(t)
           \/ clearInterrupted(t)
           \/ drainStore(t)
           \/ test_flc_bit(t)
           \/ monitorTryLock(t)
           \/ notifyContender(t)
           \/ deflate(t)
           \/ notInUse(t)
           \/ monitorUnlock(t)
           \/ notOwner(t)
           \/ setInterrupted(t)
           \/ tryMutex(t)
           \/ interruptWaiter(t)
           \/ releaseMutex(t)
           \/ (\E c \in Calls : objectWait(t, o, c))
           \/ (\E c \in Calls : objectNotify(t, o, c))
           \/ (\E u \in Threads : threadInterrupt(t, u))
           \/ leaveQueue(t)
           \/ threadInterrupted(t)
    PROVE  UNCHANGED <<depth, waitset>>
<1> USE DEF IInv, TypeOK, locals
<1>1. CASE findMonitor(t)
  BY <1>1, SameWaitsets DEF findMonitor, Found, Goto, InObjectWait, InWait,
     LocalsTypeOK
<1>2. CASE findHashEntry(t)
  BY <1>2, SameWaitsets DEF findHashEntry, Found, InObjectWait, InWait,
     LocalsTypeOK
<1>3. CASE monitorLock(t)
  BY <1>3, SameWaitsets DEF monitorLock, Acquired, Goto, InObjectWait,
     InWait, LocalsTypeOK
<1>4. CASE storeEntering(t)
  BY <1>4, SameWaitsets DEF storeEntering, Goto, InObjectWait, InWait
<1>5. CASE monitorLocked(t)
  BY <1>5, SameWaitsets DEF monitorLocked, Acquired, Goto, InObjectWait,
     InWait, LocalsTypeOK
<1>6. CASE storeEntered(t)
  BY <1>6, SameWaitsets DEF storeEntered, Acquired, Goto, InObjectWait,
     InWait
<1>7. CASE set_flc_bit(t)
  BY <1>7, SameWaitsets DEF set_flc_bit, Goto, InObjectWait, InWait
<1>8. CASE compareAndSwap(t)
  BY <1>8, SameWaitsets DEF compareAndSwap, Goto, InObjectWait, InWait,
     LocalsTypeOK
<1>9. CASE inflate(t)
  BY <1>9, SameWaitsets DEF inflate, NotifyAll, Wake, Parked, InObjectWait,
     InWait
<1>10. CASE clearInterrupted(t)
  BY <1>10, SameWaitsets DEF clearInterrupted, Resume, Return, Goto,
     InObjectWait, InWait, LocalsTypeOK
<1>11. CASE drainStore(t)
  BY <1>11, SameWaitsets DEF drainStore, Return, InObjectWait, InWait
<1>12. CASE test_flc_bit(t)
  BY <1>12, SameWaitsets DEF test_flc_bit, Return, Goto, InObjectWait,
     InWait, LocalsTypeOK
<1>13. CASE monitorTryLock(t)
  BY <1>13, SameWaitsets DEF monitorTryLock, Goto, InObjectWait, InWait,
     LocalsTypeOK
<1>14. CASE notifyContender(t)
  BY <1>14, SameWaitsets DEF notifyContender, NotifyOne, Wake, Parked,
     Goto, InObjectWait, InWait, LocalsTypeOK
<1>15. CASE deflate(t)
  BY <1>15, SameWaitsets DEF deflate, Goto, InObjectWait, InWait
<1>16. CASE notInUse(t)
  BY <1>16, SameWaitsets DEF notInUse, Goto, InObjectWait, InWait
<1>17. CASE monitorUnlock(t)
  BY <1>17, SameWaitsets DEF monitorUnlock, Return, InObjectWait, InWait
<1>18. CASE notOwner(t)
  BY <1>18, SameWaitsets DEF notOwner, Return, InObjectWait, InWait
<1>19. CASE setInterrupted(t)
  BY <1>19, SameWaitsets DEF setInterrupted, Return, Goto, InObjectWait,
     InWait, LocalsTypeOK
<1>20. CASE tryMutex(t)
  BY <1>20, SameWaitsets DEF tryMutex, Return, Goto, InObjectWait, InWait,
     LocalsTypeOK
<1>21. CASE interruptWaiter(t)
  BY <1>21, SameWaitsets DEF interruptWaiter, Wake, Parked, Goto,
     InObjectWait, InWait, LocalsTypeOK
<1>22. CASE releaseMutex(t)
  BY <1>22, SameWaitsets DEF releaseMutex, Return, InObjectWait, InWait
<1>23. CASE \E c \in Calls : objectWait(t, o, c)
  BY <1>23, SameWaitsets DEF objectWait, Begin, InObjectWait, InWait,
     LocalsTypeOK
<1>24. CASE \E c \in Calls : objectNotify(t, o, c)
  BY <1>24, SameWaitsets DEF objectNotify, Begin, NotifyOne, NotifyAll,
     Wake, Parked, Goto, InObjectWait, InWait, LocalsTypeOK
<1>25. CASE \E u \in Threads : threadInterrupt(t, u)
  BY <1>25, SameWaitsets DEF threadInterrupt, InObjectWait, InWait
<1>26. CASE leaveQueue(t)
  BY <1>26, SameWaitsets DEF leaveQueue, Goto, InObjectWait, InWait,
     LocalsTypeOK
<1>27. CASE threadInterrupted(t)
  BY <1>27, SameWaitsets DEF threadInterrupted, InObjectWait, InWait
<1> QED
  BY <1>1, <1>2, <1>3, <1>4, <1>5, <1>6, <1>7, <1>8, <1>9, <1>10, <1>11,
     <1>12, <1>13, <1>14, <1>15, <1>16, <1>17, <1>18, <1>19, <1>20, <1>21,
     <1>22, <1>23, <1>24, <1>25, <1>26, <1>27

(* A lock is entered.                                                      *)
LEMMA EnterSteps ==
    ASSUME IInv, LInv, Balanced, NEW t \in Threads, NEW o \in Objects,
           objectLock(t, o) \/ contend(t) \/ fatten(t)
    PROVE  (\E p \in Objects : Java!Enter(t, p)) \/ UNCHANGED <<depth, waitset>>
<1> USE DEF IInv, TypeOK, locals
<1>1. waitset' = waitset
  BY SameWaitsets DEF objectLock, contend, fatten, Begin, Goto, Return, InObjectWait,
     InWait, LocalsTypeOK
<1>2. CASE objectLock(t, o)
  <2>1. CASE Locked(t, o) /\ (lock[o] = Unlocked \/ ThinBy(t, o))
    <3>1. Java!Free(t, o)
      BY <2>1, FreeForOwner
    <3>2. t \notin waitset[o]
      BY <1>2 DEF objectLock, waitset, InWait
    <3> QED
      BY <1>1, <2>1, <3>1, <3>2 DEF Locked, Java!Enter
  <2>2. CASE depth' = depth
    BY <1>1, <2>2
  <2> QED
    BY <1>2, <2>1, <2>2 DEF objectLock
<1>3. CASE contend(t)
  <2>1. CASE lock[obj[t]].fat /\ Locked(t, obj[t])
    <3>1. OwnsFat(t, obj[t])
      BY <1>3, <2>1 DEF contend, OwnsFat, LInv, LockShape, ThreadLocksOK, PlaceOK,
         CallAt, MonAt, Inflating, ThreadOK, WithMonitor, LocalsTypeOK
    <3>2. obj[t] \in Objects /\ t \notin waitset[obj[t]] /\ Java!Free(t, obj[t])
      BY <1>3, <3>1, FreeForOwner DEF contend, waitset, InWait, LocalsTypeOK
    <3> QED
      BY <1>1, <2>1, <3>2 DEF Locked, Java!Enter
  <2>2. CASE depth' = depth
    BY <1>1, <2>2
  <2> QED
    BY <1>3, <2>1, <2>2 DEF contend
<1>4. CASE fatten(t)
  <2>1. CASE call[t] = "overflow" /\ Locked(t, obj[t])
    <3>1. ThinBy(t, obj[t])
      BY <1>4, <2>1 DEF fatten, LInv, ThreadLocksOK, PlaceOK, Inflating, Inside
    <3>2. obj[t] \in Objects /\ t \notin waitset[obj[t]] /\ Java!Free(t, obj[t])
      BY <1>4, <3>1, FreeForOwner DEF fatten, waitset, InWait, LocalsTypeOK
    <3> QED
      BY <1>1, <2>1, <3>2 DEF Locked, Java!Enter
  <2>2. CASE depth' = depth
    BY <1>1, <2>2
  <2> QED
    BY <1>4, <2>1, <2>2 DEF fatten
<1> QED
  BY <1>2, <1>3, <1>4

(* objectUnlock gives one lock back.                                       *)
LEMMA ExitSteps ==
    ASSUME IInv, LInv, Balanced, NEW t \in Threads, NEW o \in Objects,
           objectUnlock(t, o)
    PROVE  Java!Exit(t, o)
<1> USE DEF IInv, TypeOK, locals
<1>1. waitset' = waitset
  BY SameWaitsets DEF objectUnlock, Begin, InObjectWait, InWait, LocalsTypeOK
<1>2. Java!Has(t, o)
  BY DEF objectUnlock, Balanced, Java!Has, waitset, InWait
<1> QED
  BY <1>1, <1>2 DEF objectUnlock, Balanced, Java!Exit

(* monitorWait gives the object up, if it was called by Object.wait().     *)
LEMMA BeginWaitSteps ==
    ASSUME IInv, LInv, NEW t \in Threads, monitorWait(t)
    PROVE  (\E p \in Objects : Java!BeginWait(t, p)) \/ UNCHANGED <<depth, waitset>>
<1> USE DEF IInv, TypeOK, locals
<1>1. /\ pc[t] = "wait" /\ obj[t] \in Objects /\ ~InWait(t) /\ depth' = depth
      /\ \A u \in Threads, p \in Objects :
            u # t => (InObjectWait(u, p)' <=> InObjectWait(u, p))
  BY DEF monitorWait, Goto, InObjectWait, InWait, LocalsTypeOK
<1>2. CASE owner[mon[t]] = t /\ call[t] \in Waits
  <2>1. \A u \in Threads, p \in Objects :
          InObjectWait(u, p)' <=> InObjectWait(u, p) \/ (u = t /\ p = obj[t])
    BY <1>1, <1>2 DEF monitorWait, Goto, InObjectWait, InWait, LocalsTypeOK
  <2>2. depth[t][obj[t]] > 0
    <3>1. FatIsCounted(t, obj[t]) /\ PlaceOK(t) /\ mon[t] # Nil
      BY <1>1 DEF LInv, ThreadLocksOK, CountsOK, ThreadOK, WithMonitor
    <3>2. mon[t] = cache[obj[t]] /\ mon[t] \in Monitors
      BY <1>2, <3>1 DEF PlaceOK, MonAt, Waits, LocalsTypeOK
    <3> QED
      BY <1>1, <1>2, <3>1, <3>2 DEF FatIsCounted, InTransit, Transient, Waits,
         MonTypeOK
  <2>3. Java!Has(t, obj[t])
    BY <1>1, <2>2 DEF Java!Has, waitset
  <2> QED
    BY <1>1, <2>1, <2>3, WaitsetGrows DEF Java!BeginWait
<1>3. CASE ~(owner[mon[t]] = t /\ call[t] \in Waits)
  <2>1. \A p \in Objects : InObjectWait(t, p)' <=> InObjectWait(t, p)
    BY <1>1, <1>3 DEF monitorWait, Goto, InObjectWait, InWait, LocalsTypeOK
  <2> QED
    BY <1>1, <2>1, SameWaitsets
<1> QED
  BY <1>2, <1>3

(* A waiter has the object again when it goes on.                          *)
LEMMA EndWaitSteps ==
    ASSUME IInv, LInv, NEW t \in Threads,
           testInterrupted(t) \/ wake(t) \/ timedOut(t)
    PROVE  (\E p \in Objects : Java!EndWait(t, p)) \/ UNCHANGED <<depth, waitset>>
<1> USE DEF IInv, TypeOK, locals
<1>1. /\ InWait(t) /\ obj[t] \in Objects /\ mon[t] \in Monitors /\ depth' = depth
      /\ owner[mon[t]] = Nil
  BY DEF testInterrupted, wake, timedOut, InWait, ThreadOK, WithMonitor,
     OwnerHoldsMutex, LocalsTypeOK
<1>2. \/ InWait(t)' /\ call' = call /\ obj' = obj
      \/ ~InWait(t)'
  BY DEF testInterrupted, wake, timedOut, Goto, Resume, Return, InWait, LocalsTypeOK
<1>3. \A u \in Threads, p \in Objects :
        u # t => (InObjectWait(u, p)' <=> InObjectWait(u, p))
  BY DEF testInterrupted, wake, timedOut, Goto, Resume, Return, InObjectWait,
     InWait, LocalsTypeOK
<1>4. CASE ~InWait(t)' /\ call[t] \in Waits
  <2>1. \A u \in Threads, p \in Objects :
          InObjectWait(u, p)' <=> InObjectWait(u, p) /\ ~(u = t /\ p = obj[t])
    BY <1>1, <1>3, <1>4 DEF InObjectWait
  <2>2. lock[obj[t]].fat /\ lock[obj[t]].mon = mon[t]
    BY <1>1, <1>4 DEF LInv, LockShape, ThreadLocksOK, PlaceOK, MonAt, Waiting, Waits,
       ThreadOK, WithMonitor, InWait
  <2>3. Java!Free(t, obj[t])
    BY <1>1, <2>2, FreeForOwner
  <2>4. t \in waitset[obj[t]]
    BY <1>1, <1>4 DEF waitset, Waits
  <2> QED
    BY <1>1, <2>1, <2>3, <2>4, WaitsetShrinks DEF Java!EndWait
<1>5. CASE InWait(t)' \/ call[t] \notin Waits
  <2>1. \A p \in Objects : InObjectWait(t, p)' <=> InObjectWait(t, p)
    <3>1. CASE InWait(t)'
      BY <1>1, <1>2, <3>1 DEF InObjectWait
    <3>2. CASE call[t] \notin Waits /\ ~InWait(t)'
      BY <1>1, <3>2 DEF InObjectWait
    <3> QED
      BY <1>5, <3>1, <3>2
  <2> QED
    BY <1>1, <1>3, <2>1, SameWaitsets
<1> QED
  BY <1>4, <1>5

(* Whichever of thin lock, Monitor, inflation, overflow and deflation the  *)
(* program meets, objectLock, objectUnlock and objectWait do what an       *)
(* abstract monitor does: a lock is entered when it is free, left by who   *)
(* has it, given up by a wait and had again before the wait returns.       *)
THEOREM LocksImplementMonitors ==
    ASSUME Balanced, NeverScavenges
    PROVE  Spec => ImplementsJavaMonitor
<1>1. Init => Java!Init
  BY DEF Init, Java!Init, waitset, InWait
<1>2. ASSUME IInv, LInv, [Next]_vars
      PROVE  [Java!Next]_(Java!vars)
  <2>1. CASE UNCHANGED vars
    <3>1. waitset' = waitset
      BY <2>1, SameWaitsets DEF vars, InObjectWait, InWait, locals
    <3> QED
      BY <2>1, <3>1 DEF vars, Java!vars
  <2>2. CASE Next
    <3>1. PICK t \in Threads :
            \/ \E o \in Objects :
                  \/ objectLock(t, o) \/ objectUnlock(t, o)
                  \/ \E c \in Calls : objectWait(t, o, c) \/ objectNotify(t, o, c)
            \/ \E u \in Threads : threadInterrupt(t, u)
            \/ leaveQueue(t) \/ threadInterrupted(t)
            \/ Step(t)
      BY <2>2 DEF Next
    <3>2. (\E p \in Objects : Java!Enter(t, p) \/ Java!Exit(t, p) \/
                              Java!BeginWait(t, p) \/ Java!EndWait(t, p))
          \/ UNCHANGED <<depth, waitset>>
      <4>1. CASE \E o \in Objects : objectLock(t, o) \/ objectUnlock(t, o)
        BY <1>2, <4>1, EnterSteps, ExitSteps
      <4>2. CASE monitorWait(t) \/ testInterrupted(t) \/ wake(t) \/ timedOut(t)
        BY <1>2, <4>2, BeginWaitSteps, EndWaitSteps
      <4>3. CASE contend(t) \/ fatten(t)
        <5>1. PICK o : o \in Objects
          BY ThinLockAssumption
        <5> QED
          BY <1>2, <4>3, <5>1, EnterSteps
      <4>4. CASE \E o \in Objects : \E c \in Calls : objectWait(t, o, c) \/ objectNotify(t, o, c)
        BY <1>2, <4>4, QuietSteps
      <4>5. CASE \/ \E u \in Threads : threadInterrupt(t, u)
                 \/ leaveQueue(t) \/ threadInterrupted(t)
                 \/ Step(t) /\ ~(\/ monitorWait(t) \/ testInterrupted(t) \/ wake(t)
                                 \/ timedOut(t) \/ contend(t) \/ fatten(t))
        <5>1. PICK o : o \in Objects
          BY ThinLockAssumption
        <5> QED
          BY <1>2, <4>5, <5>1, QuietSteps DEF Step
      <4> QED
        BY <3>1, <4>1, <4>2, <4>3, <4>4, <4>5
    <3> QED
      BY <3>2 DEF Java!Next, Java!vars
  <2> QED
    BY <1>2, <2>1, <2>2
<1> QED
  BY <1>1, <1>2, LocksInvariance, Invariance, PTL DEF Spec, ImplementsJavaMonitor, Java!Spec

===============================================================================
