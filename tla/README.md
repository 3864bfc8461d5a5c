# JamVM in TLA+

A verification project for JamVM 1.0.0, the small Java virtual machine under
`src/jamvm-1.0.0` (C, threads by POSIX threads).  TLA+ modules model the parts
of the VM in which threads meet (object locks, the life and the suspension of
threads, the heap, finalization, class initialisation, constant pools and byte
code that are rewritten at run time) and what one thread does by itself (frames,
operands, references, hash tables, casts).  TLC checks them on small instances,
TLAPS proves some of their properties for instances of any size, and
`PROJECT.json` maps every definition to the lines it stands for.  Paths below are relative to
`src/jamvm-1.0.0/src`.

1. The system
2. The modules and the code
3. The runs, what they show and their bounds
4. Fairness and deadlock
5. What is proved
6. What the code does that it says it does not
7. What is not modelled
8. Plan

## 1. The system

| Component | State it keeps | Operations | Modules |
|---|---|---|---|
| Object locks (`lock.c`, `hash.h`, `thread.c:132-190`) | a lock word and a contention bit per object; Monitors (mutex, owner, count, waiters, pending notifications and interrupts, `entering`, `in_use`); `mon_cache` from objects to Monitors; `mon_free_list` | `objectLock/Unlock/Wait/Notify/NotifyAll`, `threadInterrupt`, inflation, deflation, scavenging of Monitors | `ThinLock`, `JavaMonitor` |
| Threads (`thread.c`) | the thread list under the queue lock, `non_daemon_thrds`, `state`/`suspend`/`blocking` of a thread, its signal mask, `exit_cv` | `createJavaThread`, `threadStart`, `attachThread`, `suspendAllThreads`, `resumeAllThreads`, `disable/enableSuspend`, thread dump, exit of the VM | `ThreadLife` |
| Heap (`alloc.c:180-700`) | block headers from `heapbase` to `heaplimit`, the free list, the cursor `chunkpp`, the failure state of `gcMalloc`, `heap_lock` | `gcMalloc`, `doSweep`, `expandHeap`, `gc1` | `Heap` |
| Finalization (`alloc.c:90-130, 180-280, 420-500, 880-910`) | `has_finaliser_list`, the ring `run_finaliser_list`, `runningFinalizers` | `ADD_FINALIZED_OBJECT`, the second half of `doMark`, `runFinalizers`, the finalizer thread | `Finalizer` |
| Classes (`class.c`) | `loaded_classes`; `flags`, `initing_tid`, `super`, method table and static fields of a class | `findSystemClass`, `defineClass`, `linkClass`, `initClass` | `ClassInit` |
| Resolution and quickening (`resolve.c`, `interp.c:218-239, 1101-1445`) | type and info of constant pool entries, byte codes and their operands, all rewritten at run time | `resolveClass/Method/Field/SingleConstant`, `OPCODE_REWRITE` | `Quicken` |
| Frames and exceptions (`interp.c:1661-1763`, `execute.c`, `excep.c`, `frame.h`) | the frames on the Java stack, `last_frame`, `stack_end`, the pending exception | invoke, return, throw, find a handler, call Java from C and C from Java | `JavaStack` |
| Byte codes (`interp.c:376-1316`) | operand stack and local variables, in words; `pc` | load, store, compute, compare, branch, switch, arrays and fields | `Operands`, `TypedOperands` |
| JNI (`jni.c:32-171`) | local references in frames, the table of global ones | add, expand; add, delete, mark | `JavaStack`, `GlobalRefs` |
| Hash tables (`hash.h`, `hash.c`) under classes, strings, UTF-8, libraries and Monitors | slots, size, count | find or add, grow, scavenge | `HashTable`, `ThinLock` |
| Casts (`cast.c`) | none of their own; the class hierarchy grows | `isInstanceOf` | `Casts` |
| Native libraries, reflection, start-up (`dll.c`, `natives.c`, `reflect.c`, `jam.c`) | the libraries loaded | load, look up, bind | not modelled |

How they meet.  The heap is the hub: an allocation may collect, a collection
suspends every thread (`gc0` → `suspendAllThreads`), moves garbage with a
finalizer to the ring (`doMark`), throws away the Monitors of dead objects
(`doSweep` ends the VM when it meets a fat lock on one), and a failed
allocation runs finalizers, which run Java code, which locks objects and
allocates again.  Every operation that may block is bracketed by
`disableSuspend`/`enableSuspend`, so that the collector does not wait for it: all
of the VM's locks are taken inside such a region.  The interpreter resolves a
constant pool entry on first use, which may load, link and initialise a class,
which runs Java code again, in a new interpreter on the same Java stack; the
collector later walks that stack.  Threads share memory
everywhere; there are no messages other than `SIGUSR1` and condition variables.

What is hard.  Words that are read and written without a lock (the lock word,
the contention bit, `in_use`, `suspend` and `blocking`, the flags of a class,
constant pool entries and the byte code itself); condition variables
shared by several kinds of waiters and signalled once; two agents that suspend
the same threads with one flag; a ring, a table and a list that fill up; a
failure state all threads share; finalizers that come back to the code that runs
them.  `PROJECT.json` lists each hazard at its line, with the properties that
are there for it.

What makes each component correct:

- locks: one holder at a time and no lock lost or won by a change of
  representation; a contender, a waiter or an interrupted thread never forgotten;
  a Monitor belongs to one object; everything is a step of a plain Java monitor;
- threads: whoever runs is listed and can be stopped; the world is stopped while
  a thread collects; who sleeps is woken; the VM exits when, and only when, the
  last non-daemon thread has ended;
- heap: blocks tile it, the free list is exact, reachable objects stay, and a
  collection's report can be relied on;
- finalization: once, before the object is freed, and nobody waits for ever;
- classes: `<clinit>` once, after that of the superclass; nobody uses a class
  before, nobody waits for an initialisation that is over;
- constant pools and byte code: what a thread reads half way through another
  thread's change is never used;
- the Java stack: each lock released once whichever way a method is left, no
  frame over another one's words, every word in use in the reach of the collector;
- byte codes: the words left are those of the typed machine of the JVM, and
  control goes where it says;
- tables: what was entered and not deleted is found, and only that; there is room
  when something is added.

## 2. The modules and the code

A thread is a program counter and a few local variables; its *labels* name places
in the C function it is in (`"find"`, `"mutex"`, `"await_started"`).  A step is
one access to memory that other threads use without a common lock, or a run of
accesses under the mutex that protects all of them.  Definitions have the names
of the functions they come from, with a verb for the part when a function takes
several steps (`monitorLock`, `monitorLocked`).  Definitions named
`<definition>_<word>` with a "fault" comment are not part of the model: they are
plausible bugs, one per checked property, that show that the property would
notice.

### ThinLock — `lock.c`, and `threadInterrupt` of `thread.c`

- `objectLock` holds the cases that end at once: free, recursive, and, for the
  others, the start of the slow path: `findMonitor`, `findHashEntry`,
  `monitorLock`, `monitorLocked`, and then the loop `contend` → `set_flc_bit` →
  `compareAndSwap` → (park) → `inflate`.  A count that overflows ends in `fatten`.
- `objectUnlock` is the thin case (store, then `test_flc_bit`, `monitorTryLock`
  and `notifyContender`) and the fat one with its test for deflation
  (`Uncontended`) and its three separate stores: the lock word (`deflate`),
  `in_use` (`notInUse`), the mutex (`monitorUnlock`).
- `monitorWait`: `testInterrupted`, parking, `leaveQueue` (spurious wakeup or
  time-out), `wake` (the `out` part of the code, `Out`) and `timedOut`.  The
  waiters of `objectWait` and the parked contenders are on one condition variable,
  as in the code.
- `findHashEntry` with `addEntry`, `scavenge` and `FOUND` is the macro of `hash.h`
  with the arguments `lock.c` gives it.  Which entries a scavenge visits is a
  choice among those the order of the slots allows: it stops after as many slots
  as there are entries, so that entries may be missed.
- `threadInterrupt` reads `wait_mon`, sets the flag and tries for the mutex
  (`setInterrupted`, `tryMutex`, `interruptWaiter`, `releaseMutex`).
- With `SMP = TRUE` the plain store that unlocks a thin lock may become visible
  after the load of the contention bit (`drainStore`), and `entering++` and
  `entering--` are a load and a store.

`depth` is a history variable: what the program was promised.  `target` and
`call` are locals; `pc = "idle"` is Java code.

`JavaMonitor` is the abstract specification: a reentrant lock and a wait set per
object, no representation.  `ThinLock` instantiates it with `held <- depth` and
the wait set computed from the threads inside `monitorWait`; the property
`ImplementsJavaMonitor` is its specification.  The step that returns from
`wait()` maps to `EndWait`, which needs the lock to be free: this is where a
Monitor that was deflated under its waiters would be found.

### ThreadLife — `thread.c`

- `createJavaThread`, `pthread_create` (which may fail), `addToList`,
  `threadStart`, `threadStarted`: the handshake between creator and child over one
  condition variable that all creators share (`Broadcast`).  `createVMThread` and
  `attachThread` are the VM's own threads.
- `removeFromList`, `threadFreed`, `signalExit` are the end of `threadStart`;
  `lockExit`, `testExit`, `parkExit` are `mainThreadWaitToExitVM`, in which the
  condition variable's atomic unlock-and-wait is one step.
- `disableSuspend`, `disabled`, `enableSuspend`, `testSuspend`, `unblockSignal`
  are the brackets; `suspendHandler`, `suspended`, `sigsuspend` are the handler and
  `suspendLoop`, which nests: `frames` is the stack of its activations, each with
  the state it saved and the place it returns to.
- `lockQueue`, `setSuspend`, `pthread_kill`, `awaitThread` are the two loops of
  `suspendAllThreads` and `resumeAllThreads`, and `phase` says which of the two;
  `lockHeap`, `startResume`, `endResume`, `unlockHeap` are their callers `gc1` and
  `gcMalloc`, and `dumpThreads` is the one in `dumpThreadsLoop`.
- `SMP` lets the store to `blocking` pass the load of `suspend` in
  `enableSuspend`, for which the code has no fence.

A collection itself has no steps here: it is the time spent at label `"stopped"`.

### Heap — the allocator and the collector of `alloc.c`

Addresses and sizes count grains.  `header` is a function from the addresses of
blocks to size and ALLOC bit.  `SweptBlocks` applies `SweepBlock` to one block
after the other, in address order (`Kept`, `Merged` or `Opened`), and `Swept` closes
the last chunk; the result has the new headers, the new free list, the largest chunk
and the free space, and `doSweep` installs them.  `search` is the first-fit search
from `chunkpp`, and `gotIt` splits a chunk.  `case0` … `case3` are the cases of
`gcMalloc`'s switch, with `crash` for the null pointer in `expandHeap`.  The state
of that switch is one variable for all threads, as the code's `static int state`,
and `case1` gives up `heap_lock` to run finalizers.

Marking is abstracted: what is marked is what the program reaches together with
*any* other set of objects, which is what a conservative scan of C stacks amounts
to.  The mark algorithm is planned as a module of its own.  The exception that
`signalException` creates is one more `gcMalloc`, of size `OOMSize`.

### Finalizer — finalization in `alloc.c`

- `allocObject`, `disableSuspend`, `lockHas`, `ADD_FINALIZED_OBJECT`,
  `enableSuspend`: the creation of an object that has a finalizer.
- `gcMalloc`, `lockHeap`, `gc0`, `grabHas`, `lockRun`, `doMark`, `setCount`,
  `doSweep`: a collection, in which each entry of `has_finaliser_list` that the scan
  looks at and the store to `has_finaliser_count` are separate steps, because threads that
  have suspension disabled go on in between.  `kept` and `scanned` are the `j` and
  `i` of that loop.
- `Append1` and `Enlarged` are the ring with its conventions: empty is
  `start = size, end = 0`, and it is full when `start = end`.
- `runFinalizers`, `executeMethod`, `finalized`, `nextFinalizer`,
  `LastFinalizer`: the loop that runs finalizers, on the finalizer thread
  (`finalizerThreadLoop`) or on a thread out of heap.  While a finalizer runs its
  thread is at `"java"` with `ob` set: it allocates, collects and comes back to
  `runFinalizers` like any other.

Addresses are reused: an object that was freed may be allocated again, with `ran`
reset.  `ThreadLife`'s protocol is taken for granted (`MayRun`): a thread that
runs Java code does not while another one has stopped the world.  Spurious
wakeups of `run_fnlzr_lock` are left out, and so are references between objects
with finalizers.

### ClassInit and Quicken — `class.c`, `resolve.c`, `interp.c`

The functions call one another to any depth, and `<clinit>` is Java code that
comes back to all of them: each thread has a stack of *activations*, and an
activation is at a label of its function and about a class, a constant pool entry
or an instruction.  `ClassInit` has the actions of `class.c`, `Quicken` those of
`resolve.c` and of the interpreter, and the next-state relation of both.

- `findHashedClass`, `loadSystemClass`, `defineClass`, `addClassToHash`,
  `setSuper`: a class gets into the table of loaded classes, or what another
  thread put there is taken instead.
- `linkClass`, `prepareFields`, `allocTable`, `fillTable`, `setLinked`: linking,
  which takes no lock, with one step per access to what other threads see.
- `InitClass`, `testState`, `interruptWait`, `initSuper`, `superInitialised`,
  `executeStaticMethod`, `runBody`, `endInit`: `initClass`.  What lies between
  `objectLock` and `objectUnlock` or `objectWait` is one step: that these are a
  lock and a condition is `ThinLock`'s subject.
- `readType`, `readIndex`, `checkType`, `lookup`, `setInfo`, `setResolved` are the
  retry loop that all functions of `resolve.c` have; `Ref` and `ClassOf` say what an
  entry names.
- `dispatch`, `readOperand`, `checkOpcode`, `resolved`, `rewriteOperand`,
  `rewriteOpcode`, `useQuick` execute an instruction in its slow form or in its
  quick form; `Kind` says how many operands its rewriting changes.

### JavaStack — `interp.c`, `execute.c`, `excep.c`, `frame.h`, `jni.c`, `alloc.c:746`

A frame is at the address of its header, in words; `lvars` is where the caller's
operands are.  `calls` are the C functions that wait for one another:
interpreters, native methods, and the `executeMethod` below each.
`callFromByteCode`, `callFromNative`, `invokeMethod`, `methodReturn`,
`nativeReturn`, `throwException`, `findCatchBlock`, `stackOverflow` are the places
where they call and return.  What a synchronized method has locked is in the frame as a
history variable (`sync`); the code does not store it.  `executeMethod` and the native
case of `invokeMethod` have it in a variable of their own (`sync` of the call), but
`findCatchBlock` unlocks what local variable 0 holds (`local0`) and `methodReturn` what the
interpreter's register `this` holds, which is loaded from local variable 0 of the
frame that goes on after each invocation, return and catch.  `astore_0` is the byte code by which
the methods in `Overwrites` change the one and not the other.  `addJNILref` may move the frame of a native method
(`Expanded`).  `Scanned` is what `scanThread` looks at.

### Operands and TypedOperands — `interp.c`

`Operands` is the interpreter word by word: `Write` and `Read` put longs into two
words, and each byte code is an operator on `ostack`, `lvars`, `data` and `pc`.
`TypedOperands` is the abstract specification: the machine of the JVM, whose
operands have types, runs beside it and says which byte codes may come next and
what they are to leave.  `OperandsAreTyped` says that the words are an encoding of the typed state: the
refinement is stated on states, since the two machines take each step together.

### GlobalRefs, HashTable, Casts — `jni.c`, `hash.h`, `hash.c`, `cast.c`

`GlobalRefs` has the table with its holes (`addJNIGref`, `delJNIGref`), and a
history variable `held` of what programs were promised.  `HashTable` is the macro
`findHashEntry` and `resizeHash` for any hash function; `entries` is its
history variable.  `Casts` translates `cast.c` (`isInstanceOf`, `implements`,
`isInstOfArray`) over a hierarchy that grows as classes are defined, and compares
it with subtyping as the closure of a relation.

### MC modules and proofs

The modules `MC...` hold model values, sets, programs and symmetry, nothing else;
`MCSequential` puts the five parts that one thread does by itself into one
specification, each behaviour one of one part, and `MCLockTable` makes each behaviour of
`ThinLock` one of a single thread on all objects or of all threads on one.  Symmetry is used in runs that check
safety only; no definition picks a thread, except that `CHOOSE` over objects in
`Init`, which has nothing to do with threads.  `ThinLockSafety`,
`ThinLockWaiters`, `ThreadLifeProofs`, `HeapProofs`, `FinalizerProofs`,
`ClassInitProofs`, `JavaStackProofs` and `SequentialProofs` hold proofs.

## 3. The runs, what they show and their bounds

State counts are distinct states; every passing run is exhaustive.

| Run | Instance | Checks | States |
|---|---|---|---|
| `lock_contention` | 3 threads, 1 object, depth 3, all calls but timed waits and misuse | `MutualExclusion`, `DepthIsRecorded`, `OnlyNonOwnersThrow`, `ContenderIsRemembered`, `NotificationsHaveTakers`, `AbandonedIsThin`, `ImplementsJavaMonitor` | 789 000 |
| `lock_smp` | 3 threads, several processors, timed waits, spurious wakeups | `MutualExclusion` | 469 000 |
| `lock_table` | 1 thread on 3 objects or 2 threads on 1, 3 Monitors, a table of 2 slots, timed waits and unbalanced unlocks | `MonitorIsNotRecycled`, `OwnerHoldsMutex` | 195 000 |
| `lock_live` | 3 threads, `lock` and `unlock`, fair | `FreeLockIsTaken` | 17 000 |
| `life_of_threads` | main, a user thread, a daemon, a VM thread, fair | `RunnersAreListed`, `NonDaemonsAreCounted`, `MainLeavesLast`, `MainExits` | 281 000 |
| `suspend_gc` | 3 running threads that allocate and call native code | `StopTheWorld`, `StateIsRestored` | 516 000 |
| `suspend_dump` | 2 threads, collections, thread dumps, fair | `SleepersWake` | 201 000 |
| `finalizers` | 2 mutators and the finalizer thread, 2 addresses | `FinalizedOnce`, `QueuedAreKept`, `WaiterIsRemembered` | 1 110 000 |
| `heap` | 2 threads, 3 to 5 grains, requests of 1 to 3 | `HeapIsTiled`, `FreeListIsAccurate`, `ReachableAreKept`, `LargestIsRight` | 390 000 |
| `class_use` | 3 threads, 6 classes (one missing, two whose `<clinit>` may fail, a superclass that two share), 8 instructions of every kind | `InitialisedOnce`, `StaticsAreKept`, `InheritsWhatItShould`, `QuickIsComplete`, `UsedWhenInitialised`, `WaitersHaveInitialiser`, `LooksUpWithAnIndex` | 815 000 |
| `sequential` | frames: 4 methods and 2 objects on a stack of 10 words; operands: words of 2 bits; 2 objects in a table that grows by 2; 7 keys in a table of 2 slots; 2 classes and an interface with their arrays | `LocksMatchFrames`, `HeadersAreIntact`, `RootsAreScanned`, `CallsMatchFrames`; `OperandsAreTyped`; `HeldAreMarked`; `EntriesAreFound`; `CastsFollowTheRules` | 226 000 |
| `finalizer_twice` | 1 mutator, 3 addresses, ring of 2 | `FinalizedOnce`, violated | |

Bounds and why they are enough:

- `COUNT_SIZE = 1` (8 in the code): the count of a thin lock overflows at the third
  recursive lock, so that `MaxDepth = 3` takes it into the Monitor and back.  Runs
  that do not concern recursion have `MaxDepth` 1 or 2.
- `MaxTries = 2` (5): one failed attempt that is repeated and one that gives up.
- `EnterBound = 3`: `entering` counts threads on their way; three threads cannot
  push it further without lost updates, and with them (`lock_smp`) the bound cuts
  off only a further drift of the same kind.
- `HASHTABSZE = 2` in `lock_table` (32): with three objects the table reaches
  three quarters, scavenges with some entries out of sight, and grows.  That is
  the part of one thread: a second one could have its Monitor scavenged before it has
  locked it (section 6).  Misuse needs two, and has them on one object: one unlocks
  what the other has locked, waits for, or is about to lock, fat or thin.  In the
  other lock runs there is one object and the table plays no part.
- Three threads are needed for a lock: an owner, a contender on the mutex and one
  that arrives or is parked; two could not show a lost wakeup by a third.  That an interrupt makes
  a waiter steal a contender's notification takes a fourth (section 6); the theorem on
  `ContenderIsRemembered`, for any number of threads, leaves interrupts out.
- Thread life: a creator, a second creator that shares the condition variable and
  a VM thread that attaches itself; three user threads add states and no new
  pair of partners.
- `LIST_INCREMENT = 3` with two objects in `finalizers`: the ring wraps but never
  fills, for a full ring is a known flaw (`finalizer_twice`, with an increment of 2
  and three objects; the code has 1000).  The passing run is therefore about a
  ring with room, as are the theorems.
- `heap`: at three grains a request can take the whole heap, a remainder, or
  fail; the heap grows once by half or by more, up to a maximum of 5 that cuts an
  expansion short; two threads are enough for one to change `state` while the
  other runs finalizers.

- `class_use`: `A` extends `S`, and so does `X`, which the `<clinit>` of `A` uses
  first; `S` may fail, so that failure reaches `A`, its users and those who wait;
  `W` extends a class that is missing.  Three threads are the one that
  initialises, one that waits and one that arrives.  `A` and `S` are linked at
  first, because linking by two threads is a known flaw (section 6).
- `sequential`, frames: `StackSize = 10` with headers of 2 words and a red zone of 4 holds up to
  eight frames and overflows once; `MaxCalls = 3` is Java in C in Java in C.  Two objects,
  so that a lock can be that of the wrong one; the static method stores to local variable 0
  (`Overwrites`), the synchronized instance method does not (`ThisIsKept`).
  Operands: with `Word = 2` a word has 2 bits, a long 4, a byte 1: each operation runs
  on *all* operands there are, boundaries and shift counts included.  The table of
  references grows, has more and fewer holes than its increment, and is full.  Seven keys
  with colliding hashes (one slot, its neighbour, the last one) take the hash
  table from 2 slots to 16, through scavenging.  The hierarchies are all those of two
  classes and an interface, in every order of definition.

Each module has one type invariant, `TypeOK`.  Those of `Heap`, `Finalizer` and
`JavaStack` are the first conjunct of `HeapIsTiled`, `QueuedAreKept` and
`HeadersAreIntact`; those of `ThinLock`, `ThreadLife` and `Quicken` are theorems of
their own (section 5).  `lock_smp`'s property is also checked in
`lock_contention`; the question is another one there.

## 4. Fairness and deadlock

`ThinLock!Fairness`: weak fairness of every thread inside a call, and of
`objectUnlock`: a thread that holds a lock releases it in the end (code that
holds one for ever refutes nothing).  No thread has to start a call.  POSIX gives
no order to a mutex or to a condition variable: so weak fairness only, and
`FreeLockIsTaken` says that *some* thread takes a free lock, not that a given
contender does.

`ThreadLife!Fairness`: weak fairness of each thread inside the VM, of whoever
suspends or resumes, and of the main thread's exit; strong fairness of `End` for
the threads that are not daemons, since a `run()` method that alternates between
Java and native code ends in the end even though `End` is enabled only now and then.
Collecting, dumping and creating threads are not obliged to happen.

Deadlock is checked in `lock_live`, `lock_table`, `suspend_gc`, `finalizers`,
`class_use` (a thread that waits for an initialisation for ever would be one;
threads that have executed all their instructions stutter: `ended`) and
`sequential`, in which the parts that end by being complete stutter.  It
is off where the system may really stop: in `lock_contention` and `lock_smp` all
threads may be in `wait()` with no one left to notify; in `life_of_threads` the VM
exits; in `heap` it may crash.  In `suspend_dump` there is nothing to stop it, but
the run is about liveness, which includes that.

## 5. What is proved

All theorems hold for any number of threads, objects and Monitors (finite or not) and
rest on the modules' named assumptions only: `Nil` is no thread, a lock word says which
thread has it, sizes are natural numbers, a method with a handler has room for the
exception among its operands, as a compiler leaves it, the least heap is no larger than
the largest, the name of an array class is no name of a class or primitive type.  Those of `ThinLockSafety`, `ThinLockWaiters` and
`ClassInitProofs`, and the theorems on `StopTheWorld`, have more hypotheses, written out in
them: each keeps out a step of the code that breaks the property (see 6).

`ThinLockSafety`, its first part

- `TypeCorrect == Spec => []TypeOK`
- `MonitorsAreOwnedExclusively == Spec => []OwnerHoldsMutex`: whatever the
  program calls, unlocks without a lock included, the thread in `mon->owner` holds
  the mutex.

The inductive invariant `IInv` is `TypeOK`, `OwnerHoldsMutex`, `ThreadOK` of every thread
and `FatHasMonitor`.  `OwnerHoldsMutex` alone is not inductive: `monitorLocked`
sets the owner having taken the mutex a step earlier when `SMP` holds, `Out` takes
the ownership back on the mutex that it reacquired on waking, and `threadInterrupt`
holds a mutex without being the owner.  So `ThreadOK` says at which labels a
thread has a Monitor and at which it holds its mutex, and that the count it has saved to restore is
a natural number.  `FatHasMonitor` is what gives a Monitor to the thread that
follows a lock word.  `StepInvariant` has one step per action and under it one per
conjunct; `CallInvariant` does the same for the calls that begin.

`ThinLockSafety`, its second part

- `MonitorsStay` (`MonitorIsNotRecycled`), for one thread: `Threads = {t}`, with any objects,
  Monitors and size of table, whatever it calls, unbalanced unlocks included.

The table may be scavenged at every new entry, and Monitors go to the free list and out again.  The
invariant `MInv` says that a Monitor is hashed for one object and then neither free nor new
(`HashedOnce`), that those on the free list are marked in use, as a new entry takes them
(`FreeIsMarked`: `EntryIsHashed` needs it, for the entry is not to be scavenged by the call that makes
it), that a fat lock word points at the object's Monitor and that it is marked (`FatIsHashed`),
and that so is the Monitor the thread has found, until it unlocks it (`MonIsHashed`), or the stores of
`deflate` and `notInUse` would leave a fat lock with a Monitor that is not marked.  `MonIsHashed`
is what a second thread breaks: while it is between `findMonitor` and `entering++`, the
first one deflates, clears the mark and scavenges (see 6).  For several threads
it holds without scavenging, which `TableOK` and `LockShape` below say outright.

`ThinLockSafety`, its third part

- `LocksExclude` (`MutualExclusion`), `NoLockIsLost` (`DepthIsRecorded`) and
  `OwnersAreNotRefused` (`OnlyNonOwnersThrow`), all from `LocksInvariance == Spec => []LInv`.

They hold for programs that unlock what they have locked (`Balanced`) while the table of
Monitors has room for every object (`NeverScavenges`), with one processor or several
and with spurious wakeups.  Neither hypothesis can be dropped: `objectUnlock`
deflates an uncontended Monitor whoever owns it, and a Monitor that is scavenged between `findMonitor` and `entering++` goes to another object while
a thread is about to lock it for the first (see 6).  What is left without them is shown by
`lock_table`, which scavenges and unlocks without a lock, and by the theorems of the first two parts.

`MutualExclusion` speaks of who has an object, and the code has four places for that:
the thin lock word, the Monitor's owner, the word on its way to memory, and
the count that `monitorWait` keeps on its stack.  `LInv` relates them.  `TableOK` and `LockShape` say
that an object and its Monitor belong together; `CountsOK`, for each
thread and object, says that the depth is in the word or in the Monitor (`HeldIsSeen`) and
is counted right there (`ThinIsCounted`, `FatIsCounted`), with the labels where it may not be
(`InTransit`: a contender owns the Monitor before the lock is fat); and `PlaceOK` says what a
thread knows at each label, such as that `deflate` is reached by an owner without a lock on an
object that nobody waits for.  `WaitersCounted` makes `waiting = 0` mean that.  The
proof has one lemma per action.  What the other threads keep is proved once:
`OthersKeep` says that a thread whose own variables, Monitors and thin locks are left alone
(`Undisturbed`) keeps its part, and each lemma shows that its action leaves the others
alone.  `ElsewhereKeeps` does that for the other objects of the thread that moves.

- `LocksImplementMonitors` (`ImplementsJavaMonitor`): under the same two hypotheses, every
  step of `ThinLock` is a step of `JavaMonitor` or none.

A lock is entered on the fast path, by a contender that has the Monitor of a fat lock, or when the
thin lock's count overflows; it is left in `objectUnlock`, given up in `monitorWait` and had again
where a waiter goes on.  The other 27 actions change nothing in the abstract monitor
(`QuietSteps`).  `LInv` is what shows that the object is free when it is entered.

`ThinLockWaiters`

- `PendingIsTaken` (`NotificationsHaveTakers`), for programs without timed waits
  (`NoTimedWait`) and without any other hypothesis;
- `MonitorsAreGivenBack` (`AbandonedIsThin`), with `Balanced`, `NeverScavenges` and one processor;
- `ContendersAreRemembered` (`ContenderIsRemembered`), with `Balanced`, `NeverScavenges` and `Calm`: one
  processor, no spurious wakeups, no interrupts, no timed waits.

What a theorem leaves out breaks its property, with a behaviour for each in section 6; only
for `ContenderIsRemembered` with scavenging TLC has found none, and the theorem needs `NeverScavenges`
for `LInv`.

`NInv` counts: `waiting` is the number of threads in `monitorWait`, `interrupting` that of the woken
ones that are to be interrupted, and `notifying` is no more than there are others awake.
What makes it hold is that whoever has the mutex finds every waiter parked or awake
(`ParkedOrWoken`), so that `monitorNotify` wakes somebody or counts one who is awake already; and
that a thread which calls it has the mutex (`Owning`), which nobody's misuse can change.

`EInv` says that `entering` is the number of threads at the mutex.  `FatIsKept` says who will deflate
a fat lock: a thread that has locked the object, also when it waits, a contender that has got as
far as the mutex, or the thread that is deflating it.  `UnlockKeepsOn` is the hard step: an unlock that does not
deflate has found a count, an `entering` or a `waiting` that is not 0, and each means another keeper.

`RInv` is about a contender from the failure of its compare-and-swap on (`Asleep`): its lock is thin, and
it is seen (`Seen`).  `WordOK` says that a lock word which is neither free nor some thread's
is being inflated, which takes the Monitor that the contender has.  While the contender sleeps, an
inflation of its lock wakes it (`InflateWakesSleepers`), nobody can park between that
and the store of the fat word (`CalmThread`), and so nothing clears the contention bit but what wakes it.  `ReleaserWakesOne`: who releases
the lock and sees the bit finds fewer notifications than waiters, and all who wait on
the Monitor of a thin lock are contenders, so one of them gets up.  It finds its notification, for there are as
many as threads awake (`Notified`): this is where an interrupt or a spurious wakeup breaks in.

`HeapProofs`

- `HeapStaysTiled` (`HeapIsTiled`), `FreeListStaysAccurate` (`FreeListIsAccurate`),
  `ReachableStay` (`ReachableAreKept`) and `SweepFindsLargest` (`LargestIsRight`), for any
  size of the heap, any requests, number of threads and marks, without hypotheses.

The inductive invariant `Inv` says that blocks do not overlap and leave no gap (`Blocks`, `NoGap`:
stronger than counting the blocks at each grain, and what each step needs), that the list
has the free ones in order (`Lists`), that `heapfree` is the number of their grains, and that what the
program reaches is allocated; its second half, that who is between the two ends of `gcMalloc`'s critical
section has `heap_lock`.  So the chunk `search` has found is as it was when `gotIt` takes it.

The sweep is what makes this hard: a loop over blocks that changes the headers it walks on.
`SweptTo` is its loop invariant.  Up to the address `i`, what it has built are blocks without
a gap, which no block from `i` on overlaps; the marked objects are in it unchanged, and
nothing else is allocated; the list has the chunks, and `largest` and `free` account
for all of them but for an open last one.  One lemma for each thing a block may do preserves it
(`ObjectIsKept`, `ChunkIsOpened`, `ChunkIsMerged`, `ChunkIsClosed`).  `SweptIsTiled` follows: whatever the
heap is, the sweep gives a heap with an exact list and its largest chunk.  That the recursive function of
`SweptBlocks` has the values its definition says (`BuildsIsDefined`), and that what holds at
each step holds at the end, is induction over data, which the library's
theorems cannot be used for here; `LeastNumber` and `UpTo` derive it from the fact
that finite sets are well-founded under inclusion.

`ChunkIsTaken` and `ChunkIsSplit` are the two ways of `gotIt`, with lemmas for a list from
which an entry goes (`ChunkIsUnlisted`), in which one changes (`ChunkIsReplaced`) or to which one is
added (`ChunkIsAppended`, after growth).  `LargestIsRight` needs the list to be complete.

`FinalizerProofs`

- `WaitersAreRemembered == Spec => []WaiterIsRemembered`: for any number of
  mutators, a thread waiting in `runFinalizers` waits for one that runs finalizers,
  or somebody woken has still to pass the signal on.

The argument: `pthread_cond_signal` wakes one of the waiters of either kind, and
whoever is woken is a *helper*, at `"woken"`, `"daemon_woken"` or `"finalizers"`,
until it has run `runFinalizers`, which either starts running finalizers, or
waits because somebody else is running them, or signals again.  The invariant is
inductive together with the type of `pc`.

- `RunOnceWhileThereIsRoom == Spec /\ []~RingIsFull => []FinalizedOnce` and
  `KeptWhileThereIsRoom == Spec /\ []~RingIsFull => []QueuedAreKept`;
- `FewAreFinalizedOnce`: both, and `~RingIsFull`, for a program with fewer objects with a
  finalizer than `LIST_INCREMENT`.

A full ring is a flaw of the code (see 6), and the theorems say that it is the only one
these properties meet.  `FInv` is about where an object is.  `RingOK`: the entries of
the ring are different objects, whichever way it wraps around, and an empty ring has its start
behind its end.  `NewOK` and `ListOK`: an object that is being added is in neither list,
`has_finaliser_list` has each object once and its finalizer has not run.  `ListsOK`: outside of a
collection no object is in both lists.  Inside one this fails, for an entry goes to
the ring before the count is stored: `ScanOK` follows the loop instead, with
what it has kept and what it has not yet looked at.  `RunningOK`: the thread that
runs finalizers is at the first entry, and only that one's may have run.  `MarksOK`:
what another thread is just adding was on its stack when the world was stopped.  `RingAppend`,
`RingStart`, `RingNext` and `RingLast` say what happens to the set of entries when
the ring is appended to and walked; `FewObjectsFit` counts them.  That entries
are lost when a thread appends in the middle of the scan (alloc.c:262) does no harm to these
two properties.

`ThreadLifeProofs`

- `TypeCorrect`, `StateComesBack` (`StateIsRestored`), `RunnersListed`
  (`RunnersAreListed`), `CountIsRight` (`NonDaemonsAreCounted`) and `LeavesLast`
  (`MainLeavesLast`);
- `Stops` and `FixedThreadsStop` (`StopTheWorld`).

One invariant carries the first five.  `NonDaemonsAreCounted` is disturbed by a creator, which
adds the child's entry and counts it, and by a thread that ends, which takes away its
own: the proof needs that the child is not listed yet and that the ending thread still
is.  Hence `ObjectsOK` (a Thread object is claimed by one creator at most, and
its thread has not started before), `ListedOK` (at which labels a thread is listed) and `OpOK`
(which operation each label belongs to).  `FramesOK` describes the stack of
activations of `suspendLoop`: only its lowest element may have saved a state other than
`SUSPENDED`, which is why `StateIsRestored` holds at any depth.  `KillOK` is about the two loops
over the list.  `MainLeavesLast` is an action property: only `testExit` takes the main
thread out of its wait (`OnlyTheTestLeaves`), and it tests the count.

`StopTheWorld` fails in the code as it is, in four ways (see 6), and the theorems
say that these are all.  `Stops` leaves out delayed stores, thread dumps and attachment
(`Plain`) and assumes that no thread is put on the list while another one has
stopped the world (`NobodyJoins`); `FixedThreadsStop` needs no such assumption when no
threads are created.  The invariant `SInv` follows `suspendAllThreads` through its two loops.
`HeapOK` says who has `heap_lock`, so that two threads never stop each other, and `LockOK`
who has the thread list; `BlockOK` gives the `blocking` and `suspend` flags at each label;
and `StopOK` says of every thread on the list how far the stopping thread has got with it:
not yet signalled, signalled, or *caught*: in `suspendLoop`, or about to go there before it
runs Java code again.  A caught thread stays so until `resumeAllThreads` takes its mark away.

`ClassInitProofs`, its first part

- `TypeCorrect`, `QuickComplete` (`QuickIsComplete`) and `NeverLooksUpAPointer`
  (`LooksUpWithAnIndex`).

The invariant is `TypeOK`, `EntriesOK`, `CodeOK` and `ThreadOK`.  A thread reads a type,
then an index, then the type again; what it holds in between may be out of date.  So
`ThreadOK` says of each label what follows from what the thread *is about to look at*: if
the type still is unresolved at `checkType`, then the info read was the index,
for no entry goes back.  The same holds of the byte code at `checkOpcode` and the
operands read before it.  Activations below the top wait at the labels at which they
called, about what they called for.

`ClassInitProofs`, its second part

- `RunsOnce` (`InitialisedOnce`), `StaticsStay` (`StaticsAreKept`) and `NobodyWaitsForNothing`
  (`WaitersHaveInitialiser`), as long as `NobodyRelinks`;
- `LinkedAreInitialised`: all three, when all classes are linked before.

`linkClass` tests the flags of a class without its lock, and a thread that is late clears
the static fields of a class, and sets its flags back to `LINKED`, after another one has
begun to initialise it (see 6).  `NobodyRelinks` says of a behaviour that this does not
happen; it holds in the instance of `class_use`, where one thread links each class
that is not linked before.  In a program whose classes are all linked when the threads
come to use them no thread is inside `linkClass` (`LinkedInv`), and there is nothing to assume.

The invariant `CInv` has three parts.  `InitOK`: an activation of `initClass` past its test
has the class in state `INITING` and the thread in `initing_tid`, `<clinit>` has not run
before the label `"body"`, and there is one such activation for a class on a stack.
`WaitOK`: a thread waits for a class in state `INITING` only.  `ClassOK`: who is in
`initing_tid` of such a class does have an activation that will end it.  `<clinit>` makes
this hard: it may use any class, its own included, so that an activation of `initClass` may
be at any depth.  `Moves` says how a step shifts a stack, `QuietStep` that a step which
initialises nothing keeps `CInv`, and `OwnStep` what the initialising thread may do.  That
nobody is left waiting comes from `endInit`, which wakes all (`Woken`).

- `UsedAfterInitialisation == Spec /\ []NobodyRelinks => []UsedWhenInitialised` and
  `LinkedAreUsedWhenInitialised`, the same for linked classes without the hypothesis on
  the behaviour, both for programs with `BodiesApart`.

These join the protocol of `initClass` with the rewriting of byte code by several threads.
A static field whose constant pool entry is resolved, and a byte code about it that has become
quick, are used without another look at the class; so `StaticsReady` says of the shared
state that the class of each is `INITED`, for everybody.  An entry becomes resolved at the end of
`resolveField` or `resolveMethod`, by which time `initClass` has returned; but it returns at once to a thread
that is itself initialising the class (`UsableBy`), which is why a byte code of `<clinit>` that shares its entry with a
static field lets the other threads through too early (interp.c:1140, see 6).  `BodiesApart` keeps
these out.  It is a condition on the program, not on the schedule, and the instance of `class_use`
meets it.  What a thread knows when a call returns has been promised by the activation called:
`Chain` says of each two neighbours on a stack what the caller counts on (`Counts`), such as
that who waits to look up a field is above an activation of `initClass` of that field's class;
`Sure` says what the first activation knows now that nobody is above it.  `ChainKeeps` carries this
over the steps that push and pop.  An exception ends the promise, and the byte
code with it.

- `LinkedInherit == Spec /\ []SupersLeaveSubclasses => []InheritsWhatItShould`, when all classes
  are linked before.

`SupersInv` says that the superclass of a class whose `<clinit>` has been run is `INITED`, which stays.
`initClass` of the superclass also returns when this thread itself is initialising the superclass, further
down; then `<clinit>` of the superclass has used the subclass, may fail later, and leaves an
initialised class below one in error, as the language demands.  `SupersLeaveSubclasses` says that no
thread gets there.  It holds of `class_use`, and with a byte code about `X` in the `<clinit>`
of `S` TLC finds that `InheritsWhatItShould` fails.  `Climbs` follows the call of `initClass` for the superclass up
the stack, through failures and interrupts: when it has returned, the superclass is ready or there is an exception.
What a class inherits when several threads link its superclass is only model-checked.

`JavaStackProofs`

- `HeadersStayIntact` (`HeadersAreIntact`), `RootsStayScanned` (`RootsAreScanned`),
  `CallsKeepMatching` (`CallsMatchFrames`) and `LocksKeepMatching` (`LocksMatchFrames`),
  for any methods and objects, any size of header and stack, any `LIST_INCR` that is no
  smaller than a header, and any depth of calls.  Only the last has a hypothesis, which is part of the
  property: no method that is synchronized on its receiver stores to local variable 0
  (`ThisIsKept`).  Any other method may.

None of the four is inductive: a return relies on what all the calls below have left behind.
The invariant `JInv` says of any frames and calls that

- the frames tile the stack (`FramesOK`): each lies above the operands of the one before
  it, which is the next below, and its local variables lie in between;
- the active C functions cut them into pieces (`Chain`): there is a sequence `L` with the
  last frame of each C function, the innermost first.  One that `executeMethod` called owns
  the frames from the first dummy frame below its last one, none of which is of the other
  kind (interpreted, native); a native method the interpreter invoked owns one.  `StateOK`
  says what its registers are good for, `PairOK` what its caller waits for;
- if `ThisIsKept`, each object is locked as often as there are frames up to `LockTop` that are
  synchronized on it; what the code takes for that object is: local variable 0 of
  every frame (`SyncOK`), and the register `this` of every interpreter, also of those that wait for
  C code and go on with it (`ThisOK`);
- there are as many dummy frames as active `executeMethod`s.

`Chain` is what `POP_TOP_FRAME` needs: that two frames down from the last one of a C function
is the last one of its caller.  `ChainPush`, `ChainPop` and `TopStep` say how it changes
when a C function is called, ends, or goes on; `PutKeeps` and `UpToKeeps` that frames
still tile the stack when one is added or those above one are popped.  That a method keeps its
operands within `max_stack`, and so may be called with a frame right above, is `push`'s guard.

`SequentialProofs`

- `ReferencesAreKept == (~DeletesNull /\ GrefsSpec) => []HeldAreMarked`: for any objects and any
  increment of the table.  `DeleteGlobalRef(NULL)` is the known flaw (see 6).
- `EntriesAreAlwaysFound == HashSpec => []EntriesAreFound`: for any keys, any hash function and any
  size the table has at first, scavenged or not.

`GrefsInv` counts: the holes are as many as `global_ref_deleted` says, and an object is in as many
places as it is held.  The hard step is the addition that closes the holes: `Compacted` gives each entry
that holds something the number of such entries before it, and the proof shows that this is a bijection
onto the front of the table, so that nothing is lost and there is room behind.

`HashInv` says that the table has each entry once, that it is `Chained`, with no empty slot on the way from the slot an entry
hashes to to where it is, and that a quarter is empty, which is why a search ends.
Scavenging does break chains; the step is atomic and builds the table anew
afterwards, and the new table is `Chained` whatever the old one was.  That is a
recursive function over the slots, reasoned about with `LeastNumber` and `UpTo` as in `HeapProofs`.

- `CastsAreRight == (MaxDim <= 1 /\ CastsSpec) => []CastsFollowTheRules`: for any classes, interfaces
  and primitive types, defined in any order.  With arrays of more dimensions the property fails
  (see 6); `ArraysDecided` says what `isInstanceOf` decides of arrays for any `MaxDim`, and lacks
  one disjunct of the rules only, arrays of arrays as `Object[]` and `Cloneable[]`.

`isSubClassOf` and `implements` go up the hierarchy by recursion, and `CHOOSE` picks a solution of their
equations.  What such a function finds is shown without induction over the hierarchy, along
the behaviour: `CastsInv` says that the equations have a solution and that every solution
finds exactly the classes for which `test` is in their closure.  A class has its parents
there before it is defined (`AddsClass`), so that a solution on the classes of before extends to
the new one (`SolutionsExtend`), every solution on the classes of now is one on those of
before (`SolutionsRestrict`), and the new class decides as its parents do (`StepIsRight`).

Only model-checked: everything else.

- Liveness under fairness (`FreeLockIsTaken`, `MainExits`, `SleepersWake`) and `ENABLED` are
  beyond the prover.
- `OperandsAreTyped`, which encodes values in words: for any width that takes the laws of powers of two
  (`2^(2*Word) = 2^Word * 2^Word`) and of the encoding of a sequence, by induction on numbers
  and sequences.  TLC decodes all the words there are in the instance.
- That a class linked by one of several threads inherits a whole method table: `LinkedInherit` is
  about classes that are linked.

## 6. What the code does that it says it does not

One run is expected to fail; `findings` in `PROJECT.json` has the details.

- `finalizer_twice` (alloc.c:246).  A full ring of finalizers is not recognised,
  or is rearranged under the thread that walks it: a finalizer runs twice.

The models have more of these, which were found with TLC and have no run.
Passing runs avoid them only by their instance (the `Calls`, `Ops`, sizes), never
by a changed action.

| Where | What happens | How to see it |
|---|---|---|
| lock.c:172 | a waiter that is notified and times out leaves its notification counted; a later `monitorNotify` sees nobody left to notify, and a parked contender is not woken | `ContenderIsRemembered`, 3 threads, 1 object, `lock`, `timedwait` and `notify` |
| lock.c:184 | a thread that wakes without a notification of its own, because somebody else was interrupted or for no reason, takes the notification with which `inflate` had counted a contender as woken; the contender parks again on a lock that is fat by then and tests its word no more | `ContenderIsRemembered`, 1 object: 4 threads, `lock`, `wait` and `interrupt`; or 3 threads, `lock`, `wait` and `notify`, with `Spurious = TRUE` |
| thread.c:350 | a thread started while another one collects is listed and runs | `StopTheWorld` with `create` and `gc`, two spawned threads |
| thread.c:275 | a thread that leaves the list between being marked and being resumed sleeps for ever; if it is the last non-daemon one the VM never exits | `ThreadLife!ThreadsDie`, `MainExits`, a VM thread that collects and a thread that ends |
| thread.c:374 | a VM thread allocates before it is listed and is not stopped | `StopTheWorld` with `attach` and `gc` |
| thread.c:521 | the store to `blocking` passes the load of `suspend` | `StopTheWorld` in `suspend_gc` with `SMP = TRUE` |
| thread.c:552 | a thread dump resumes what a collection has suspended | `StopTheWorld` in `suspend_dump` |
| thread.c:135, 148 | an interrupt reaches a thread that is about to park, or gives up after 5 attempts | `ThinLock!InterruptIsDelivered` |
| lock.c:330 | `objectUnlock` deflates an uncontended Monitor without asking who owns it: a thread that unlocks what it has not locked takes the lock away from its owner | `MutualExclusion`, 2 threads, `lock`, `wait` and `unbalanced`; with `notify`, `AbandonedIsThin` and, for 3 threads, `ContenderIsRemembered` |
| lock.c:307 | the store that unlocks a thin lock passes the load of the contention bit: a contender that has set the bit in between parks, and nobody looks | `ContenderIsRemembered`, 2 threads, `lock`, `SMP = TRUE` |
| lock.c:99 | lost updates of `entering`: a Monitor is never deflated, and `doSweep` exits on its object | `AbandonedIsThin` in `lock_smp` |
| lock.c:332, hash.h | a Monitor found but not locked yet is scavenged | `OnlyNonOwnersThrow` or `AbandonedIsThin`, 2 threads, 2 objects, a table of 1 |
| alloc.c:262 | an entry appended during `doMark` is cut off: freed without its finalizer | `Finalizer!NoneFreedUnfinalized`, 2 mutators |
| alloc.c:895 | the finalizer thread waits before it looks; a notification in between is lost | `Finalizer!DaemonIsNotified` |
| alloc.c:680 | the failure state stays at 3: a later failed allocation throws without collecting | `Heap!AlreadyThrowing` |
| alloc.c:560 | `expandHeap` with an empty free list follows a null pointer | `Heap!LastChunkExists` |
| class.c:475 | two threads link one class: static fields are cleared after `<clinit>` has set them, the flags go back to `LINKED`, and `<clinit>` runs twice | `class_use` with `Linked = {}` and `Main <- RacingMain`: `InitialisedOnce`, `StaticsAreKept`, `InheritsWhatItShould` |
| interp.c:1140 | an instruction of `A` that `A.<clinit>` itself quickens lets another thread use `A` before it is initialised | `UsedWhenInitialised`, with an instruction about `A` in `TheBody` of `A` |
| class.c:601 | a thread that is interrupted while it waits for the superclass of the class it initialises marks that class bad for ever | reachable in `class_use` (`interruptWait` below `initSuper`) |
| excep.c:115, interp.c:1722 | a method that is synchronized on its receiver and stores to local variable 0 unlocks another object, and its own stays locked: by an exception, or by a return after a call has loaded the register `this` again.  Compilers do not emit that store, but the VM does not refuse it | `LocksMatchFrames` without its hypothesis, in `sequential` with `Overwrites = {java}` |
| interp.c:1094 | `lreturn` and `dreturn` copy the operand over itself (`*neoU8 = neoU8`), not to the result; the line commented out beside it shows what was meant | `OperandsAreTyped` with `"long"` in `returns` |
| cast.c:44 | an array class with more dimensions is no instance of `Object[]` or `Cloneable[]` | `CastsFollowTheRules` with `MaxDim = 2` |
| jni.c:150 | `DeleteGlobalRef(NULL)` finds a hole and counts it as a deletion: the table is then written beyond its end | `HeldAreMarked` with `DeletesNull = TRUE` |

Seen in the code while modelling it, and outside what the models say: IDIV and IREM
of the least int by -1 trap (interp.c:812, 826; the typed machine does not execute
them); CALOAD sign-extends chars (578); JSR_W pushes the address of the wrong
instruction (1645); AASTORE does not check the type of what it stores (671);
GETFIELD_THIS takes `this` where the method may have stored to local variable 0 (1226);
the exception of MONITOREXIT is not tested for; `stack_end` moves up by 1024 for every
StackOverflowError and never back (1670), and `CREATE_TOP_FRAME` tests no limit;
`executeMethod`'s result lies above
the frame it has popped, where nothing scans it; `addJNIGref` returns with the lock held and
suspension disabled when it cannot grow the table (jni.c:116), `addJNILref` returns
NULL without an exception, and `delJNILref` leaves holes; `genThreadID` hands out
the number of the bit plus one while `freeThreadID` clears the bit with the
number itself, so that two live threads come to have one ID (thread.c:80-108);
`arraycopy` adds start and length before it compares them (natives.c:96).

## 7. What is not modelled, and why

- Of the byte codes: the arithmetic of floats (but comparisons with NaN are modelled),
  JSR, RET, GOTO and the WIDE forms; subtraction stands for the operators that cannot
  fail.  `callNative.s` and the calling convention are the machine's own.
- The class-file parser and the layout of fields, `jam.c`'s command line,
  `reflect.c`, `natives.c` and `dll.c`, most of `jni.c`
  (one call forwarded to one VM function; `ensureJNILrefCapacity` is never called), `-verbose` output: sequential
  translation of data, with nothing another actor could see half done.
- The algorithm that marks (`markChildren`, alloc.c:780-857): `Heap` takes what is marked as given.
- Thread IDs: a thread in `ThinLock` stands for its ID.
- Failure of `malloc`, on which the code mostly exits.
- The InterruptedException that `monitorWait` leaves pending (lock.c:200): `ThinLock` ends with the
  lock regained and the flag cleared; what the caller does about an exception is `JavaStack`'s.
- Local variable 0 is an object or something that does not matter: a synchronized method that
  stores a number there (ISTORE_0) would have the number taken for an address.
- The uncaught-exception handler of a thread and `Thread.join()` (a `wait()` on
  the Thread object, which is `ThinLock`'s).
- Weak memory beyond the two places where `SMP` lets a store pass a load.  The
  architectures the VM is written for are x86 and PowerPC; PowerPC would allow
  more.
- `sleep()`: a timed wait on a Monitor nobody notifies.

## 8. Plan

The plan's modules are written, but for these, in the order of importance.

1. `Mark` (alloc.c:210-231, 728-857): marking in address order with recursion for what
   lies behind the scan, against reachability over bounded graphs; it discharges
   what `Heap` assumes of marks.
2. `ThreadIDs` (thread.c:80-108), with the bit that is cleared next to the one that
   was set; UTF-8 and `arraycopy` as pure algorithms against a reference.
3. Runs for the rest of section 6, the linking race and `MainExits` with a
   collecting VM thread first.
4. Proofs: what a class inherits when it is linked while others use it; operands and their types.
