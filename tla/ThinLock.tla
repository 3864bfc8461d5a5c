------------------------------- MODULE ThinLock -------------------------------
(***************************************************************************)
(* The object locks of lock.c: a thin lock in the object header, inflated  *)
(* to a Monitor on contention, on Object.wait() and when the recursion     *)
(* count overflows, and deflated again by the unlock that finds nobody     *)
(* interested.  A step of a thread is one access to shared memory, or a    *)
(* run of accesses made under the mutex that protects them all.            *)
(* Thread.interrupt() (thread.c) is here because it works on Monitors.     *)
(***************************************************************************)
EXTENDS Integers, FiniteSets

CONSTANTS
    Threads,        \* the threads; each has an ID of its own
    Objects,        \* the objects that are locked
    Monitors,       \* the addresses malloc() may return for a Monitor
    COUNT_SIZE,     \* bits of the recursion count in a thin lock word
    HASHTABSZE,     \* initial size of the table from objects to Monitors
    MaxDepth,       \* bound: how often a thread locks one object
    MaxTries,       \* attempts of threadInterrupt to get the mutex
    Calls,          \* the calls the program makes
    Spurious,       \* pthread_cond_wait() may return without a signal
    SMP,            \* several processors: a store may be delayed past a
                    \* later load, and entering++ is a load and a store
    EnterBound,     \* bound: how far lost updates of entering may drift
    Nil             \* NULL, and the absence of a thread

(* "unbalanced": monitorexit on an object the thread has not locked, which *)
(* nothing in interp.c or objectUnlock refuses.                            *)
AllCalls == {"lock", "wait", "timedwait", "notify", "notifyAll", "interrupt",
             "unbalanced"}

ASSUME ThinLockAssumption ==
    /\ Nil \notin Threads /\ Nil \notin Monitors /\ "self" \notin Threads /\ "self" # Nil
    /\ Objects # {}
    /\ COUNT_SIZE \in Nat /\ 2^COUNT_SIZE \in Nat /\ HASHTABSZE \in Nat \ {0}
    /\ MaxDepth \in Nat /\ MaxTries \in Nat
    /\ Calls \subseteq AllCalls
    /\ Spurious \in BOOLEAN /\ SMP \in BOOLEAN /\ EnterBound \in Nat

VARIABLES
    lock,           \* the lock word of each object
    flc,            \* the "fat lock contention" bit of each object's header
    cache,          \* mon_cache: the Monitor hashed for each object, or Nil
    hash_size,      \* slots of mon_cache
    free_list,      \* the Monitors on mon_free_list
    fresh,          \* the addresses malloc() has not returned yet
    in_use,         \* mon->in_use
    mutex,          \* the thread holding mon->lock
    owner, count, waiting, notifying, interrupting, entering,  \* of a Monitor
    interrupted,    \* thread->interrupted
    self_interrupting, \* thread->interrupting
    pc,             \* where each thread is
    call,           \* the call it is executing
    obj, mon,       \* its local variables of the same names
    save,           \* a value it has read and will use
    target,         \* the thread it interrupts
    depth           \* how often each thread has locked each object

objVars  == <<lock, flc>>
tblVars  == <<cache, hash_size, free_list, fresh, in_use>>
ctrVars  == <<count, waiting, notifying, interrupting, entering>>
monVars  == <<mutex, owner, ctrVars>>
thrVars  == <<interrupted, self_interrupting>>
locals   == <<call, obj, mon, target>>
vars     == <<objVars, tblVars, monVars, thrVars, pc, locals, save, depth>>

-----------------------------------------------------------------------------
(* Lock words.  The `self' pointer that objectLock swaps in before it     *)
(* inflates reads as a thin lock whose thread ID no thread has.            *)
Thin(t, n) == [fat |-> FALSE, tid |-> t, count |-> n, mon |-> Nil]
Fat(m)     == [fat |-> TRUE, tid |-> Nil, count |-> 0, mon |-> m]
Unlocked   == Thin(Nil, 0)
SelfPtr    == Thin("self", 0)

MaxCount   == 2^COUNT_SIZE - 1

ThinBy(t, o) == ~lock[o].fat /\ lock[o].tid = t

Goto(t, l) == pc' = [pc EXCEPT ![t] = l] /\ UNCHANGED locals

(* The end of a call: the locals of a thread between calls hold nothing.   *)
Return(t) ==
    /\ pc' = [pc EXCEPT ![t] = "idle"]
    /\ call' = [call EXCEPT ![t] = "none"]
    /\ mon' = [mon EXCEPT ![t] = Nil]
    /\ target' = [target EXCEPT ![t] = t]
    /\ UNCHANGED obj

(* The threads in pthread_cond_wait() on a Monitor and not yet signalled. *)
Parked(m) == {u \in Threads : pc[u] = "parked" /\ mon[u] = m}

(* thread->wait_mon: set when monitorWait starts, reset when it is over.   *)
wait_mon(u) == IF pc[u] \in {"flag", "parked", "wake", "timeout"}
               THEN mon[u] ELSE Nil

Init ==
    /\ lock = [o \in Objects |-> Unlocked]
    /\ flc = [o \in Objects |-> FALSE]
    /\ cache = [o \in Objects |-> Nil]
    /\ hash_size = HASHTABSZE
    /\ free_list = {} /\ fresh = Monitors
    /\ in_use = [m \in Monitors |-> FALSE]
    /\ mutex = [m \in Monitors |-> Nil]
    /\ owner = [m \in Monitors |-> Nil]
    /\ count = [m \in Monitors |-> 0]
    /\ waiting = [m \in Monitors |-> 0]
    /\ notifying = [m \in Monitors |-> 0]
    /\ interrupting = [m \in Monitors |-> 0]
    /\ entering = [m \in Monitors |-> 0]
    /\ interrupted = [t \in Threads |-> FALSE]
    /\ self_interrupting = [t \in Threads |-> FALSE]
    /\ pc = [t \in Threads |-> "idle"]
    /\ call = [t \in Threads |-> "none"]
    /\ obj \in [Threads -> {CHOOSE o \in Objects : TRUE}]
    /\ mon = [t \in Threads |-> Nil]
    /\ save = [t \in Threads |-> 0]
    /\ target = [t \in Threads |-> t]
    /\ depth = [t \in Threads |-> [o \in Objects |-> 0]]

-----------------------------------------------------------------------------
(* objectLock: the uncontended cases, which end at once.                  *)
Begin(t, o, c, m, l) ==
    /\ pc' = [pc EXCEPT ![t] = l]
    /\ call' = [call EXCEPT ![t] = c]
    /\ obj' = [obj EXCEPT ![t] = o]
    /\ mon' = [mon EXCEPT ![t] = m]
    /\ UNCHANGED target

Locked(t, o) == depth' = [depth EXCEPT ![t][o] = @ + 1]

objectLock(t, o) ==
    /\ pc[t] = "idle" /\ "lock" \in Calls /\ depth[t][o] < MaxDepth
    /\ \/ /\ lock[o] = Unlocked
          /\ lock' = [lock EXCEPT ![o] = Thin(t, 0)]
          /\ Locked(t, o)
          /\ UNCHANGED <<pc, locals>>
       \/ /\ ThinBy(t, o) /\ lock[o].count < MaxCount
          /\ lock' = [lock EXCEPT ![o].count = @ + 1]
          /\ Locked(t, o)
          /\ UNCHANGED <<pc, locals>>
       \/ /\ ThinBy(t, o) /\ lock[o].count = MaxCount
          /\ Begin(t, o, "overflow", Nil, "find")
          /\ UNCHANGED <<lock, depth>>
       \/ /\ lock[o] # Unlocked /\ ~ThinBy(t, o)
          /\ Begin(t, o, "lock", Nil, "find")
          /\ UNCHANGED <<lock, depth>>
    /\ UNCHANGED <<flc, tblVars, monVars, thrVars, save>>

-----------------------------------------------------------------------------
(* findMonitor: the Monitor in a fat lock word, else the one in mon_cache. *)
Found(t, m) ==
    /\ mon' = [mon EXCEPT ![t] = m]
    /\ pc' = [pc EXCEPT ![t] = IF call[t] = "unlock" THEN "trylock" ELSE "enter"]
    /\ UNCHANGED <<call, obj, target>>

findMonitor(t) ==
    /\ pc[t] = "find"
    /\ \/ lock[obj[t]].fat /\ Found(t, lock[obj[t]].mon)
       \/ ~lock[obj[t]].fat /\ Goto(t, "table")
    /\ UNCHANGED <<objVars, tblVars, monVars, thrVars, save, depth>>

Cached == {o \in Objects : cache[o] # Nil}

(* allocMonitor: a Monitor off the free list, as it is, or else a new one  *)
(* (Init holds what monitorInit writes, as no Monitor is ever freed).      *)
allocMonitor == IF free_list # {} THEN free_list ELSE fresh

(* SCAVENGE, over the slots the loop of findHashEntry visits: as many as   *)
(* there are entries, so that an entry in one of the others is missed.     *)
scavenge(table, used, list) ==
    LET entries == {p \in Objects : table[p] # Nil}
        n       == Cardinality(entries)
    IN  \E seen \in SUBSET entries :
            LET dead  == {p \in seen : ~used[table[p]]}
                freed == {table[p] : p \in dead}
            IN  /\ Cardinality(entries \ seen) <= hash_size - n
                /\ cache' = [p \in Objects |-> IF p \in dead THEN Nil
                                                             ELSE table[p]]
                /\ free_list' = list \cup freed
                /\ in_use' = [m \in Monitors |-> used[m] \/ m \in freed]
                /\ hash_size' = IF (n - Cardinality(dead)) * 3 > hash_size * 2
                                THEN hash_size * 2 ELSE hash_size

addEntry(o, m) ==
    LET table == [cache EXCEPT ![o] = m]
        used  == IF m \in fresh THEN [in_use EXCEPT ![m] = TRUE] ELSE in_use
        list  == free_list \ {m}
    IN  /\ fresh' = fresh \ {m}
        /\ \/ /\ (Cardinality(Cached) + 1) * 4 <= hash_size * 3
              /\ cache' = table /\ in_use' = used /\ free_list' = list
              /\ UNCHANGED hash_size
           \/ /\ (Cardinality(Cached) + 1) * 4 > hash_size * 3
              /\ scavenge(table, used, list)

(* Fault: a Monitor found in the table is not marked in use again.         *)
FOUND_forgotten(m) == UNCHANGED in_use

FOUND(m) == in_use' = [in_use EXCEPT ![m] = TRUE]

(* findHashEntry on mon_cache, under the lock of the table.                *)
findHashEntry(t) ==
    /\ pc[t] = "table"
    /\ LET o == obj[t] IN
       \/ /\ cache[o] # Nil
          /\ FOUND(cache[o])
          /\ Found(t, cache[o])
          /\ UNCHANGED <<cache, hash_size, free_list, fresh>>
       \/ /\ cache[o] = Nil
          /\ \E m \in allocMonitor : addEntry(o, m) /\ Found(t, m)
    /\ UNCHANGED <<objVars, monVars, thrVars, save, depth>>

-----------------------------------------------------------------------------
(* monitorLock.                                                            *)
Acquired(t) == Goto(t, IF call[t] = "lock" THEN "loop" ELSE "inflate")

SetEntering(m, n) ==
    /\ n \in -EnterBound .. EnterBound
    /\ entering' = [entering EXCEPT ![m] = n]

monitorLock(t) ==
    LET m == mon[t] IN
    /\ pc[t] = "enter"
    /\ \/ /\ owner[m] = t
          /\ count' = [count EXCEPT ![m] = @ + 1]
          /\ Acquired(t)
          /\ UNCHANGED <<entering, save>>
       \/ /\ owner[m] # t /\ ~SMP
          /\ SetEntering(m, entering[m] + 1)
          /\ Goto(t, "mutex")
          /\ UNCHANGED <<count, save>>
       \/ /\ owner[m] # t /\ SMP
          /\ save' = [save EXCEPT ![t] = entering[m]]
          /\ Goto(t, "entering")
          /\ UNCHANGED <<count, entering>>
    /\ UNCHANGED <<objVars, tblVars, mutex, owner, waiting, notifying,
                   interrupting, thrVars, depth>>

storeEntering(t) ==
    /\ pc[t] = "entering"
    /\ SetEntering(mon[t], save[t] + 1)
    /\ save' = [save EXCEPT ![t] = 0]
    /\ Goto(t, "mutex")
    /\ UNCHANGED <<objVars, tblVars, mutex, owner, count, waiting, notifying,
                   interrupting, thrVars, depth>>

monitorLocked(t) ==
    LET m == mon[t] IN
    /\ pc[t] = "mutex" /\ mutex[m] = Nil
    /\ mutex' = [mutex EXCEPT ![m] = t]
    /\ \/ /\ ~SMP
          /\ SetEntering(m, entering[m] - 1)
          /\ owner' = [owner EXCEPT ![m] = t]
          /\ Acquired(t)
          /\ UNCHANGED save
       \/ /\ SMP
          /\ save' = [save EXCEPT ![t] = entering[m]]
          /\ Goto(t, "entered")
          /\ UNCHANGED <<owner, entering>>
    /\ UNCHANGED <<objVars, tblVars, count, waiting, notifying, interrupting,
                   thrVars, depth>>

storeEntered(t) ==
    /\ pc[t] = "entered"
    /\ SetEntering(mon[t], save[t] - 1)
    /\ save' = [save EXCEPT ![t] = 0]
    /\ owner' = [owner EXCEPT ![mon[t]] = t]
    /\ Acquired(t)
    /\ UNCHANGED <<objVars, tblVars, mutex, count, waiting, notifying,
                   interrupting, thrVars, depth>>

-----------------------------------------------------------------------------
(* objectLock: the loop of a contender that holds the Monitor.             *)
contend(t) ==
    /\ pc[t] = "loop"
    /\ \/ lock[obj[t]].fat /\ Locked(t, obj[t]) /\ Return(t)
       \/ ~lock[obj[t]].fat /\ Goto(t, "set_flc") /\ UNCHANGED depth
    /\ UNCHANGED <<objVars, tblVars, monVars, thrVars, save>>

set_flc_bit(t) ==
    /\ pc[t] = "set_flc"
    /\ flc' = [flc EXCEPT ![obj[t]] = TRUE]
    /\ Goto(t, "cas")
    /\ UNCHANGED <<lock, tblVars, monVars, thrVars, save, depth>>

(* Fault: the lock word is stored to without being compared.               *)
compareAndSwap_store(t) ==
    /\ pc[t] = "cas"
    /\ lock' = [lock EXCEPT ![obj[t]] = SelfPtr]
    /\ Goto(t, "inflate")
    /\ UNCHANGED <<flc, tblVars, monVars, thrVars, save, depth>>

compareAndSwap(t) ==
    /\ pc[t] = "cas"
    /\ \/ /\ lock[obj[t]] = Unlocked
          /\ lock' = [lock EXCEPT ![obj[t]] = SelfPtr]
          /\ Goto(t, "inflate")
       \/ /\ lock[obj[t]] # Unlocked
          /\ Goto(t, "wait")
          /\ UNCHANGED lock
    /\ UNCHANGED <<flc, tblVars, monVars, thrVars, save, depth>>

(* pthread_cond_signal() and _broadcast(): threads that leave the queue of *)
(* the condition variable, while thread t goes to label l.                 *)
Wake(woken, t, l) ==
    /\ pc' = [u \in Threads |-> IF u = t THEN l
                                ELSE IF u \in woken THEN "wake" ELSE pc[u]]
    /\ UNCHANGED locals

NotifyAll(t, m, l) ==
    /\ notifying' = [notifying EXCEPT ![m] = waiting[m] - interrupting[m]]
    /\ Wake(Parked(m), t, l)

(* Fault: the waiters already being interrupted are notified once more.    *)
NotifyOne_interrupted(t, m, l) ==
    \/ /\ notifying[m] < waiting[m]
       /\ notifying' = [notifying EXCEPT ![m] = @ + 1]
       /\ \/ \E u \in Parked(m) : Wake({u}, t, l)
          \/ Parked(m) = {} /\ Goto(t, l)
    \/ /\ notifying[m] >= waiting[m]
       /\ Goto(t, l)
       /\ UNCHANGED notifying

NotifyOne(t, m, l) ==
    \/ /\ notifying[m] + interrupting[m] < waiting[m]
       /\ notifying' = [notifying EXCEPT ![m] = @ + 1]
       /\ \/ \E u \in Parked(m) : Wake({u}, t, l)
          \/ Parked(m) = {} /\ Goto(t, l)
    \/ /\ notifying[m] + interrupting[m] >= waiting[m]
       /\ Goto(t, l)
       /\ UNCHANGED notifying

(* Fault: the contenders are not told that the lock is now fat.            *)
inflate_quietly(t) ==
    /\ pc[t] = "inflate"
    /\ flc' = [flc EXCEPT ![obj[t]] = FALSE]
    /\ Goto(t, "fatten")
    /\ UNCHANGED <<lock, tblVars, monVars, thrVars, save, depth>>

(* inflate, and the store to mon->count its callers follow it with: the    *)
(* count is the owner's, so nobody sees the two stores apart.              *)
inflate(t) ==
    /\ pc[t] = "inflate"
    /\ flc' = [flc EXCEPT ![obj[t]] = FALSE]
    /\ NotifyAll(t, mon[t], "fatten")
    /\ UNCHANGED <<lock, tblVars, mutex, owner, count, waiting, interrupting,
                   entering, thrVars, save, depth>>

fatten(t) ==
    LET o == obj[t]
        m == mon[t]
    IN
    /\ pc[t] = "fatten"
    /\ lock' = [lock EXCEPT ![o] = Fat(m)]
    /\ \/ /\ call[t] = "lock"
          /\ Goto(t, "loop")
          /\ UNCHANGED <<count, depth>>
       \/ /\ call[t] = "overflow"
          /\ count' = [count EXCEPT ![m] = 2^COUNT_SIZE]
          /\ Locked(t, o) /\ Return(t)
       \/ /\ call[t] \in {"wait", "timedwait"}
          /\ count' = [count EXCEPT ![m] = lock[o].count]
          /\ Goto(t, "wait")
          /\ UNCHANGED depth
    /\ UNCHANGED <<flc, tblVars, mutex, owner, waiting, notifying,
                   interrupting, entering, thrVars, save>>

-----------------------------------------------------------------------------
(* objectWait and monitorWait; a contender of objectLock waits here too.   *)
objectWait(t, o, c) ==
    /\ pc[t] = "idle" /\ c \in Calls \cap {"wait", "timedwait"}
    /\ \/ ThinBy(t, o) /\ Begin(t, o, c, Nil, "find")
       \/ lock[o].fat /\ Begin(t, o, c, lock[o].mon, "wait")
       \/ ~lock[o].fat /\ ~ThinBy(t, o) /\ Begin(t, o, c, Nil, "not_owner")
    /\ UNCHANGED <<objVars, tblVars, monVars, thrVars, save, depth>>

monitorWait(t) ==
    LET m == mon[t] IN
    /\ pc[t] = "wait"
    /\ \/ /\ owner[m] = t
          /\ save' = [save EXCEPT ![t] = count[m]]
          /\ count' = [count EXCEPT ![m] = 0]
          /\ owner' = [owner EXCEPT ![m] = Nil]
          /\ waiting' = [waiting EXCEPT ![m] = @ + 1]
          /\ Goto(t, "flag")
       \/ /\ owner[m] # t
          /\ Goto(t, IF call[t] = "lock" THEN "loop" ELSE "not_owner")
          /\ UNCHANGED <<owner, count, waiting, save>>
    /\ UNCHANGED <<objVars, tblVars, mutex, notifying, interrupting, entering,
                   thrVars, depth>>

(* From label out of monitorWait: the thread holds the mutex again.        *)
Resume(t) == IF call[t] = "lock" THEN Goto(t, "loop") ELSE Return(t)

(* Faults: the old count, the owner or the waiter is forgotten.            *)
Out_count(t) ==
    LET m == mon[t] IN
    /\ mutex' = [mutex EXCEPT ![m] = t]
    /\ owner' = [owner EXCEPT ![m] = t]
    /\ waiting' = [waiting EXCEPT ![m] = @ - 1]
    /\ save' = [save EXCEPT ![t] = 0]
    /\ UNCHANGED count

Out_owner(t) ==
    LET m == mon[t] IN
    /\ mutex' = [mutex EXCEPT ![m] = t]
    /\ count' = [count EXCEPT ![m] = save[t]]
    /\ waiting' = [waiting EXCEPT ![m] = @ - 1]
    /\ save' = [save EXCEPT ![t] = 0]
    /\ UNCHANGED owner

Out_waiting(t) ==
    LET m == mon[t] IN
    /\ mutex' = [mutex EXCEPT ![m] = t]
    /\ owner' = [owner EXCEPT ![m] = t]
    /\ count' = [count EXCEPT ![m] = save[t]]
    /\ save' = [save EXCEPT ![t] = 0]
    /\ UNCHANGED waiting

Out(t) ==
    LET m == mon[t] IN
    /\ mutex' = [mutex EXCEPT ![m] = t]
    /\ owner' = [owner EXCEPT ![m] = t]
    /\ count' = [count EXCEPT ![m] = save[t]]
    /\ waiting' = [waiting EXCEPT ![m] = @ - 1]
    /\ save' = [save EXCEPT ![t] = 0]

testInterrupted(t) ==
    /\ pc[t] = "flag"
    /\ \/ /\ interrupted[t] /\ Out(t) /\ Goto(t, "interrupted")
       \/ /\ ~interrupted[t]
          /\ mutex' = [mutex EXCEPT ![mon[t]] = Nil]
          /\ Goto(t, "parked")
          /\ UNCHANGED <<owner, count, waiting, save>>
    /\ UNCHANGED <<objVars, tblVars, notifying, interrupting, entering,
                   thrVars, depth>>

(* The condition variable lets a thread go that nobody signalled: its time *)
(* is up (ETIMEDOUT), or the wakeup is spurious.                           *)
leaveQueue(t) ==
    /\ pc[t] = "parked"
    /\ \/ call[t] = "timedwait" /\ Goto(t, "timeout")
       \/ Spurious /\ Goto(t, "wake")
    /\ UNCHANGED <<objVars, tblVars, monVars, thrVars, save, depth>>

wake(t) ==
    LET m == mon[t] IN
    /\ pc[t] = "wake" /\ mutex[m] = Nil
    /\ \/ /\ self_interrupting[t]
          /\ self_interrupting' = [self_interrupting EXCEPT ![t] = FALSE]
          /\ interrupting' = [interrupting EXCEPT ![m] = @ - 1]
          /\ Out(t) /\ Goto(t, "interrupted")
          /\ UNCHANGED notifying
       \/ /\ ~self_interrupting[t] /\ notifying[m] # 0
          /\ notifying' = [notifying EXCEPT ![m] = @ - 1]
          /\ Out(t) /\ Resume(t)
          /\ UNCHANGED <<self_interrupting, interrupting>>
       \/ /\ ~self_interrupting[t] /\ notifying[m] = 0
          /\ Goto(t, "parked")
          /\ UNCHANGED <<self_interrupting, mutex, owner, count, waiting,
                         notifying, interrupting, save>>
    /\ UNCHANGED <<objVars, tblVars, entering, interrupted, depth>>

timedOut(t) ==
    /\ pc[t] = "timeout" /\ mutex[mon[t]] = Nil
    /\ Out(t) /\ Resume(t)
    /\ UNCHANGED <<objVars, tblVars, notifying, interrupting, entering,
                   thrVars, depth>>

clearInterrupted(t) ==
    /\ pc[t] = "interrupted"
    /\ interrupted' = [interrupted EXCEPT ![t] = FALSE]
    /\ Resume(t)
    /\ UNCHANGED <<objVars, tblVars, monVars, self_interrupting, save,
                   depth>>

-----------------------------------------------------------------------------
(* objectUnlock.                                                           *)

(* Faults: the test for deflation forgets the recursion, or the waiters.   *)
Uncontended_recursive(m) == entering[m] = 0 /\ waiting[m] = 0
Uncontended_waited(m)    == count[m] = 0 /\ entering[m] = 0

Uncontended(m) == count[m] = 0 /\ entering[m] = 0 /\ waiting[m] = 0

objectUnlock(t, o) ==
    /\ pc[t] = "idle"
    /\ \/ /\ depth[t][o] > 0
          /\ depth' = [depth EXCEPT ![t][o] = @ - 1]
       \/ /\ depth[t][o] = 0 /\ "unbalanced" \in Calls
          /\ UNCHANGED depth
    /\ \/ /\ lock[o] = Thin(t, 0)
          /\ lock' = [lock EXCEPT ![o] = Unlocked]
          /\ Begin(t, o, "unlock", Nil, "test_flc")
          /\ UNCHANGED save
       \/ /\ lock[o] = Thin(t, 0) /\ SMP /\ ~flc[o]
          /\ Begin(t, o, "unlock", Nil, "drain")
          /\ UNCHANGED <<lock, save>>
       \/ /\ ThinBy(t, o) /\ lock[o].count > 0
          /\ lock' = [lock EXCEPT ![o].count = @ - 1]
          /\ UNCHANGED <<pc, locals, save>>
       \/ /\ lock[o].fat
          /\ LET m == lock[o].mon IN
             Begin(t, o, "unlock", m,
                   IF Uncontended(m) THEN "deflate" ELSE "unlock")
          /\ UNCHANGED <<lock, save>>
       \/ /\ ~lock[o].fat /\ ~ThinBy(t, o)
          /\ UNCHANGED <<lock, pc, locals, save>>
    /\ UNCHANGED <<flc, tblVars, monVars, thrVars>>

(* The store to the lock word leaves the processor after the header was    *)
(* read: the contention bit was clear when the thread tested it.           *)
drainStore(t) ==
    /\ pc[t] = "drain"
    /\ lock' = [lock EXCEPT ![obj[t]] = Unlocked]
    /\ Return(t)
    /\ UNCHANGED <<flc, tblVars, monVars, thrVars, save, depth>>

test_flc_bit(t) ==
    /\ pc[t] = "test_flc"
    /\ IF flc[obj[t]] THEN Goto(t, "find") ELSE Return(t)
    /\ UNCHANGED <<objVars, tblVars, monVars, thrVars, save, depth>>

monitorTryLock(t) ==
    LET m == mon[t] IN
    /\ pc[t] = "trylock"
    /\ \/ /\ owner[m] = t
          /\ count' = [count EXCEPT ![m] = @ + 1]
          /\ Goto(t, "notify")
          /\ UNCHANGED <<mutex, owner>>
       \/ /\ owner[m] # t /\ mutex[m] = Nil
          /\ mutex' = [mutex EXCEPT ![m] = t]
          /\ owner' = [owner EXCEPT ![m] = t]
          /\ Goto(t, "notify")
          /\ UNCHANGED count
       \/ /\ owner[m] # t /\ mutex[m] # Nil
          /\ Goto(t, "test_flc")
          /\ UNCHANGED <<mutex, owner, count>>
    /\ UNCHANGED <<objVars, tblVars, waiting, notifying, interrupting, entering,
                   thrVars, save, depth>>

(* Fault: a contender seen by the contention bit is not notified.          *)
notifyContender_never(t) ==
    /\ pc[t] = "notify"
    /\ Goto(t, "unlock")
    /\ UNCHANGED <<objVars, tblVars, monVars, thrVars, save, depth>>

notifyContender(t) ==
    /\ pc[t] = "notify"
    /\ \/ flc[obj[t]] /\ NotifyOne(t, mon[t], "unlock")
       \/ ~flc[obj[t]] /\ Goto(t, "unlock") /\ UNCHANGED notifying
    /\ UNCHANGED <<objVars, tblVars, mutex, owner, count, waiting, interrupting,
                   entering, thrVars, save, depth>>

deflate(t) ==
    /\ pc[t] = "deflate"
    /\ lock' = [lock EXCEPT ![obj[t]] = Unlocked]
    /\ Goto(t, "unused")
    /\ UNCHANGED <<flc, tblVars, monVars, thrVars, save, depth>>

notInUse(t) ==
    /\ pc[t] = "unused"
    /\ in_use' = [in_use EXCEPT ![mon[t]] = FALSE]
    /\ Goto(t, "unlock")
    /\ UNCHANGED <<objVars, cache, hash_size, free_list, fresh, monVars,
                   thrVars, save, depth>>

(* Fault: the owner of the Monitor is not asked for.                       *)
monitorUnlock_unasked(t) ==
    LET m == mon[t] IN
    /\ pc[t] = "unlock"
    /\ Return(t)
    /\ \/ /\ count[m] = 0
          /\ owner' = [owner EXCEPT ![m] = Nil]
          /\ mutex' = [mutex EXCEPT ![m] = Nil]
          /\ UNCHANGED count
       \/ /\ count[m] # 0
          /\ count' = [count EXCEPT ![m] = @ - 1]
          /\ UNCHANGED <<owner, mutex>>
    /\ UNCHANGED <<objVars, tblVars, waiting, notifying, interrupting, entering,
                   thrVars, save, depth>>

monitorUnlock(t) ==
    LET m == mon[t] IN
    /\ pc[t] = "unlock"
    /\ Return(t)
    /\ \/ /\ owner[m] = t /\ count[m] = 0
          /\ owner' = [owner EXCEPT ![m] = Nil]
          /\ mutex' = [mutex EXCEPT ![m] = Nil]
          /\ UNCHANGED count
       \/ /\ owner[m] = t /\ count[m] # 0
          /\ count' = [count EXCEPT ![m] = @ - 1]
          /\ UNCHANGED <<owner, mutex>>
       \/ /\ owner[m] # t
          /\ UNCHANGED <<owner, mutex, count>>
    /\ UNCHANGED <<objVars, tblVars, waiting, notifying, interrupting, entering,
                   thrVars, save, depth>>

-----------------------------------------------------------------------------
(* objectNotify and objectNotifyAll: on a thin lock nobody can be waiting. *)
objectNotify(t, o, c) ==
    /\ pc[t] = "idle" /\ c \in Calls \cap {"notify", "notifyAll"}
    /\ ~ThinBy(t, o)
    /\ \/ /\ lock[o].fat /\ owner[lock[o].mon] = t
          /\ \/ c = "notify" /\ NotifyOne(t, lock[o].mon, "idle")
             \/ c = "notifyAll" /\ NotifyAll(t, lock[o].mon, "idle")
       \/ /\ ~(lock[o].fat /\ owner[lock[o].mon] = t)
          /\ Begin(t, o, c, Nil, "not_owner")
          /\ UNCHANGED notifying
    /\ UNCHANGED <<objVars, tblVars, mutex, owner, count, waiting, interrupting,
                   entering, thrVars, save, depth>>

(* signalException of IllegalMonitorStateException, "thread not owner".    *)
notOwner(t) ==
    /\ pc[t] = "not_owner"
    /\ Return(t)
    /\ UNCHANGED <<objVars, tblVars, monVars, thrVars, save, depth>>

-----------------------------------------------------------------------------
(* threadInterrupt: wait_mon is read before the flag is set.               *)
threadInterrupt(t, u) ==
    /\ pc[t] = "idle" /\ "interrupt" \in Calls
    /\ pc' = [pc EXCEPT ![t] = "set_interrupted"]
    /\ call' = [call EXCEPT ![t] = "interrupt"]
    /\ mon' = [mon EXCEPT ![t] = wait_mon(u)]
    /\ target' = [target EXCEPT ![t] = u]
    /\ UNCHANGED <<objVars, tblVars, monVars, thrVars, obj, save, depth>>

setInterrupted(t) ==
    /\ pc[t] = "set_interrupted"
    /\ interrupted' = [interrupted EXCEPT ![target[t]] = TRUE]
    /\ \/ mon[t] = Nil /\ Return(t)
       \/ mon[t] # Nil /\ owner[mon[t]] = t /\ Goto(t, "got_lock")
       \/ mon[t] # Nil /\ owner[mon[t]] # t /\ Goto(t, "try_mutex")
    /\ UNCHANGED <<objVars, tblVars, monVars, self_interrupting, save,
                   depth>>

tryMutex(t) ==
    LET m == mon[t] IN
    /\ pc[t] = "try_mutex"
    /\ \/ /\ mutex[m] = Nil
          /\ mutex' = [mutex EXCEPT ![m] = t]
          /\ Goto(t, "got_lock")
          /\ save' = [save EXCEPT ![t] = 0]
       \/ /\ mutex[m] # Nil /\ wait_mon(target[t]) = m /\ save[t] + 1 < MaxTries
          /\ save' = [save EXCEPT ![t] = @ + 1]
          /\ UNCHANGED <<mutex, pc, locals>>
       \/ /\ mutex[m] # Nil
          /\ wait_mon(target[t]) # m \/ save[t] + 1 >= MaxTries
          /\ save' = [save EXCEPT ![t] = 0]
          /\ Return(t)
          /\ UNCHANGED mutex
    /\ UNCHANGED <<objVars, tblVars, owner, ctrVars, thrVars, depth>>

interruptWaiter(t) ==
    LET m == mon[t]
        u == target[t]
        reachable == /\ wait_mon(u) = m
                     /\ interrupted[u] /\ ~self_interrupting[u]
                     /\ notifying[m] + interrupting[m] < waiting[m]
    IN
    /\ pc[t] = "got_lock"
    /\ \/ /\ reachable
          /\ self_interrupting' = [self_interrupting EXCEPT ![u] = TRUE]
          /\ interrupting' = [interrupting EXCEPT ![m] = @ + 1]
          /\ Wake(Parked(m), t, "release")
       \/ /\ ~reachable
          /\ Goto(t, "release")
          /\ UNCHANGED <<self_interrupting, interrupting>>
    /\ UNCHANGED <<objVars, tblVars, mutex, owner, count, waiting, notifying,
                   entering, interrupted, save, depth>>

releaseMutex(t) ==
    LET m == mon[t] IN
    /\ pc[t] = "release"
    /\ mutex' = IF owner[m] = t THEN mutex ELSE [mutex EXCEPT ![m] = Nil]
    /\ Return(t)
    /\ UNCHANGED <<objVars, tblVars, owner, ctrVars, thrVars, save, depth>>

(* threadInterrupted, the body of Thread.interrupted().                    *)
threadInterrupted(t) ==
    /\ pc[t] = "idle" /\ interrupted[t]
    /\ interrupted' = [interrupted EXCEPT ![t] = FALSE]
    /\ UNCHANGED <<objVars, tblVars, monVars, self_interrupting, pc, locals,
                   save, depth>>

-----------------------------------------------------------------------------
(* What a thread does inside a call, and the calls that begin one.         *)
Step(t) ==
    \/ findMonitor(t) \/ findHashEntry(t)
    \/ monitorLock(t) \/ storeEntering(t) \/ monitorLocked(t) \/ storeEntered(t)
    \/ contend(t) \/ set_flc_bit(t) \/ compareAndSwap(t)
    \/ inflate(t) \/ fatten(t)
    \/ monitorWait(t) \/ testInterrupted(t) \/ wake(t) \/ timedOut(t)
    \/ clearInterrupted(t)
    \/ drainStore(t) \/ test_flc_bit(t) \/ monitorTryLock(t)
    \/ notifyContender(t) \/ deflate(t) \/ notInUse(t) \/ monitorUnlock(t)
    \/ notOwner(t)
    \/ setInterrupted(t) \/ tryMutex(t) \/ interruptWaiter(t)
    \/ releaseMutex(t)

Next == \E t \in Threads :
    \/ \E o \in Objects :
          \/ objectLock(t, o) \/ objectUnlock(t, o)
          \/ \E c \in Calls : objectWait(t, o, c) \/ objectNotify(t, o, c)
    \/ \E u \in Threads : threadInterrupt(t, u)
    \/ leaveQueue(t) \/ threadInterrupted(t)
    \/ Step(t)

Spec == Init /\ [][Next]_vars

-----------------------------------------------------------------------------
(* Properties.                                                             *)
Labels == {"idle", "find", "table", "enter", "entering", "mutex", "entered",
           "loop", "set_flc", "cas", "inflate", "fatten", "wait", "flag",
           "parked", "wake", "timeout", "interrupted", "drain", "test_flc",
           "trylock", "notify", "deflate", "unused", "unlock", "not_owner",
           "set_interrupted", "try_mutex", "got_lock", "release"}

LockWord == [fat : BOOLEAN, tid : Threads \cup {Nil, "self"}, count : Nat,
             mon : Monitors \cup {Nil}]

ObjTypeOK ==
    /\ lock \in [Objects -> LockWord]
    /\ flc \in [Objects -> BOOLEAN]
    /\ depth \in [Threads -> [Objects -> Nat]]

TableTypeOK ==
    /\ cache \in [Objects -> Monitors \cup {Nil}]
    /\ hash_size \in Nat
    /\ free_list \subseteq Monitors /\ fresh \subseteq Monitors
    /\ in_use \in [Monitors -> BOOLEAN]

MonTypeOK ==
    /\ mutex \in [Monitors -> Threads \cup {Nil}]
    /\ owner \in [Monitors -> Threads \cup {Nil}]
    /\ count \in [Monitors -> Nat]
    /\ waiting \in [Monitors -> Int]
    /\ notifying \in [Monitors -> Int]
    /\ interrupting \in [Monitors -> Int]
    /\ entering \in [Monitors -> Int]

ThreadTypeOK ==
    /\ interrupted \in [Threads -> BOOLEAN]
    /\ self_interrupting \in [Threads -> BOOLEAN]
    /\ save \in [Threads -> Int]

LocalsTypeOK ==
    /\ pc \in [Threads -> Labels]
    /\ call \in [Threads -> AllCalls \cup {"none", "overflow", "unlock"}]
    /\ obj \in [Threads -> Objects]
    /\ mon \in [Threads -> Monitors \cup {Nil}]
    /\ target \in [Threads -> Threads]

TypeOK == ObjTypeOK /\ TableTypeOK /\ MonTypeOK /\ ThreadTypeOK /\ LocalsTypeOK

InWait(t) == pc[t] \in {"flag", "parked", "wake", "timeout"}

(* What the program was promised: t is between objectLock and objectUnlock *)
(* of o, and not inside Object.wait() on o.                                *)
Holds(t, o) == depth[t][o] > 0 /\ ~(InWait(t) /\ obj[t] = o)

(* Two threads never hold the same object, whichever of them came by a     *)
(* thin lock, by inflating it, by a deflation or out of Object.wait().     *)
MutualExclusion ==
    \A o \in Objects : \A t, u \in Threads :
        Holds(t, o) /\ Holds(u, o) => t = u

(* Between calls the lock word, or the Monitor it points at, says exactly  *)
(* how often a thread has locked an object: no lock is lost or won by the  *)
(* count's overflow into a Monitor, by a wait or by a contender.           *)
DepthIsRecorded ==
    \A t \in Threads : \A o \in Objects :
        pc[t] = "idle" =>
            depth[t][o] = IF lock[o].fat
                          THEN LET m == lock[o].mon IN
                               IF owner[m] = t THEN count[m] + 1 ELSE 0
                          ELSE IF ThinBy(t, o) THEN lock[o].count + 1 ELSE 0

(* IllegalMonitorStateException "thread not owner" is for threads that are *)
(* not the owner.                                                          *)
OnlyNonOwnersThrow ==
    \A t \in Threads : pc[t] = "not_owner" => depth[t][obj[t]] = 0

(* Whoever misuses the locks, a Monitor has one owner at a time: the       *)
(* thread in mon->owner is the one that holds the mutex.                   *)
OwnerHoldsMutex ==
    \A m \in Monitors : owner[m] # Nil => mutex[m] = owner[m]

Contender(t, o) == call[t] = "lock" /\ obj[t] = o

(* A thread that unlocks o and has yet to look for contenders.             *)
Releasing(u, o) ==
    /\ call[u] = "unlock" /\ obj[u] = o
    /\ pc[u] \in {"test_flc", "find", "table", "trylock", "notify"}

(* No contender is forgotten: while one is parked in objectLock, the lock  *)
(* is not fat, and either its contention bit is set under a holder or a    *)
(* releaser that will see it, or another contender is on its way to take   *)
(* the lock, which inflates it and wakes everybody.                        *)
ContenderIsRemembered ==
    \A t \in Threads : \A o \in Objects :
        pc[t] = "parked" /\ Contender(t, o) =>
            /\ ~lock[o].fat
            /\ \/ /\ flc[o]
                  /\ \E u \in Threads : ThinBy(u, o) \/ Releasing(u, o)
               \/ \E u \in Threads :
                     /\ Contender(u, o)
                     /\ pc[u] \in {"wake", "loop", "set_flc", "cas", "inflate"}

(* A pending notification or interrupt has a thread to take it: as many    *)
(* threads as there are of them have left the condition variable and will  *)
(* look at the counts.                                                     *)
NotificationsHaveTakers ==
    \A m \in Monitors :
        notifying[m] + interrupting[m] <=
            Cardinality({t \in Threads : pc[t] = "wake" /\ mon[t] = m})

(* Thread.interrupt() reaches a waiting thread: once the interrupter is    *)
(* done, the thread it flagged is no longer parked.                        *)
InterruptIsDelivered ==
    \A u \in Threads :
        pc[u] = "parked" /\ interrupted[u] =>
            \E t \in Threads :
                /\ target[t] = u
                /\ pc[t] \in {"set_interrupted", "try_mutex", "got_lock"}

(* A Monitor that a lock word points at stays the object's own: it is      *)
(* hashed for that object and no other, and is not on the free list.       *)
MonitorIsNotRecycled ==
    \A o \in Objects :
        lock[o].fat =>
            /\ cache[o] = lock[o].mon /\ lock[o].mon \notin free_list
            /\ \A p \in Objects \ {o} : lock[o].mon \notin {cache[p], lock[p].mon}

(* t has locked o, or is executing a call on it.                           *)
Uses(t, o) ==
    \/ depth[t][o] > 0
    \/ pc[t] # "idle" /\ call[t] # "interrupt" /\ obj[t] = o

(* An object no thread has anything to do with any more has a thin lock:   *)
(* the collector, which may free it, ends the VM if it finds a fat one     *)
(* (alloc.c: doSweep).                                                     *)
AbandonedIsThin ==
    \A o \in Objects : (\A t \in Threads : ~Uses(t, o)) => ~lock[o].fat

(* lock.c implements JavaMonitor.                                          *)
waitset == [o \in Objects |->
               {t \in Threads : /\ InWait(t) /\ obj[t] = o
                                /\ call[t] \in {"wait", "timedwait"}}]

Java == INSTANCE JavaMonitor WITH held <- depth, waitset <- waitset

ImplementsJavaMonitor == Java!Spec

-----------------------------------------------------------------------------
(* Fairness: the scheduler runs every thread that can run, and a thread    *)
(* leaves its synchronized code.  Nothing makes a thread begin a call.     *)
Fairness == \A t \in Threads :
    /\ WF_vars(Step(t))
    /\ WF_vars(\E o \in Objects : objectUnlock(t, o))

FairSpec == Spec /\ Fairness

(* A lock that is free while a contender is parked on it is taken: the     *)
(* releasing thread finds the contention bit and wakes a contender.        *)
FreeLockIsTaken ==
    \A o \in Objects :
        (lock[o] = Unlocked /\ \E t \in Threads : pc[t] = "parked" /\ Contender(t, o))
            ~> (lock[o] # Unlocked)

===============================================================================
