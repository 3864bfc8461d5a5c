------------------------------- MODULE Finalizer -------------------------------
(***************************************************************************)
(* Finalization in alloc.c: the list of objects that have a finalizer, the *)
(* ring of those that a collection found to be garbage, and the threads    *)
(* that run their finalizers: the finalizer thread and every thread that   *)
(* has run out of heap.  A step of a thread is what it does under one lock *)
(* without letting go of it, or one access outside of the locks.           *)
(*                                                                         *)
(* The suspension protocol is that of ThreadLife, taken for granted: when  *)
(* the world is stopped no other thread runs Java code, but a thread that  *)
(* has disabled suspension goes on until it enables it again.  References  *)
(* between objects with finalizers are left out.                           *)
(***************************************************************************)
EXTENDS Integers, Sequences, FiniteSets

CONSTANTS
    Mutators,       \* threads that run Java code
    Daemon,         \* the finalizer thread
    Objects,        \* addresses of objects whose class has a finalizer
    LIST_INCREMENT,
    Nil

Threads == Mutators \cup {Daemon}

ASSUME FinalizerAssumption ==
    /\ Daemon \notin Mutators /\ Nil \notin Threads /\ Nil \notin Objects
    /\ LIST_INCREMENT \in Nat \ {0}

VARIABLES
    heap_lock, has_fnlzr_lock, run_fnlzr_lock,  \* their holders, or Nil
    world,              \* the thread that has suspended all others, or Nil
    allocated,          \* the objects in the heap
    reach,              \* those that the program can reach
    ran,                \* how often the finalizer of an object has run
    has_finaliser_list, \* its first has_finaliser_count entries
    run_finaliser,      \* run_finaliser_list, _start, _end and _size
    runningFinalizers,
    marked,             \* the mark bits
    kept,               \* the first j entries doMark keeps in the list
    scanned,            \* how many entries doMark has looked at
    pc,                 \* where each thread is
    new,                \* the object a thread has allocated and is adding
    ob                  \* the object whose finalizer a thread runs

locks   == <<heap_lock, has_fnlzr_lock, run_fnlzr_lock>>
heap    == <<allocated, reach, ran>>
lists   == <<has_finaliser_list, run_finaliser, runningFinalizers>>
marks   == <<marked, kept, scanned>>
vars    == <<locks, world, heap, lists, marks, pc, new, ob>>

-----------------------------------------------------------------------------
Init ==
    /\ heap_lock = Nil /\ has_fnlzr_lock = Nil /\ run_fnlzr_lock = Nil
    /\ world = Nil
    /\ allocated = {} /\ reach = {}
    /\ ran = [o \in Objects |-> 0]
    /\ has_finaliser_list = <<>>
    /\ run_finaliser = [start |-> 0, end |-> 0, size |-> 0, list |-> <<>>]
    /\ runningFinalizers = Nil
    /\ marked = {} /\ kept = <<>> /\ scanned = 0
    /\ pc = [t \in Threads |-> IF t = Daemon THEN "daemon" ELSE "java"]
    /\ new = [t \in Threads |-> Nil]
    /\ ob = [t \in Threads |-> Nil]

Goto(t, l) == pc' = [pc EXCEPT ![t] = l]

(* A thread that runs Java code, or is about to, is suspended while        *)
(* another one has stopped the world.                                      *)
MayRun(t) == world \in {Nil, t}

Java(t) == pc[t] = "java" /\ MayRun(t)

-----------------------------------------------------------------------------
(* The ring.  Its entries are those doMark marks.                          *)
Indices(r) ==
    IF r.end > r.start THEN r.start .. r.end - 1
    ELSE (r.start .. r.size - 1) \cup (0 .. r.end - 1)

Queued == {run_finaliser.list[i] : i \in Indices(run_finaliser)}

NothingToRun == run_finaliser.start = run_finaliser.size /\ run_finaliser.end = 0

(* A full ring is laid out from index 0 and grows.                         *)
Enlarged(r) ==
    LET n == r.size + LIST_INCREMENT IN
    [start |-> 0, end |-> r.size, size |-> n,
     list |-> [i \in 0 .. n - 1 |-> IF i < r.size THEN r.list[i] ELSE Nil]]

Append1(r, o) ==
    LET g == IF r.start = r.end THEN Enlarged(r) ELSE r
        e == g.end % g.size
    IN  [g EXCEPT !.list[e] = o, !.end = e + 1]

(* notifyVMWaitLock: one of the threads waiting on run_fnlzr_lock is woken *)
Waiting == {u \in Threads : pc[u] \in {"wait", "daemon_wait"}}

Woken(u) == IF pc[u] = "wait" THEN "woken" ELSE "daemon_woken"

NotifyAndGoto(t, l) ==
    \/ \E u \in Waiting : pc' = [pc EXCEPT ![t] = l, ![u] = Woken(u)]
    \/ Waiting = {} /\ Goto(t, l)

-----------------------------------------------------------------------------
(* allocObject: gcMalloc found a chunk; ADD_FINALIZED_OBJECT follows.      *)
allocObject(t) ==
    /\ Java(t) /\ heap_lock = Nil
    /\ \E o \in Objects \ allocated :
          /\ allocated' = allocated \cup {o}
          /\ ran' = [ran EXCEPT ![o] = 0]
          /\ new' = [new EXCEPT ![t] = o]
    /\ Goto(t, "add")
    /\ UNCHANGED <<locks, world, reach, lists, marks, ob>>

(* disableSuspend, after which the thread goes on in a stopped world.      *)
disableSuspend(t) ==
    /\ pc[t] = "add" /\ MayRun(t)
    /\ Goto(t, "lock_has")
    /\ UNCHANGED <<locks, world, heap, lists, marks, new, ob>>

lockHas(t) ==
    /\ pc[t] = "lock_has" /\ has_fnlzr_lock = Nil
    /\ has_fnlzr_lock' = t
    /\ Goto(t, "append")
    /\ UNCHANGED <<heap_lock, run_fnlzr_lock, world, heap, lists, marks, new, ob>>

ADD_FINALIZED_OBJECT(t) ==
    /\ pc[t] = "append"
    /\ has_finaliser_list' = Append(has_finaliser_list, new[t])
    /\ has_fnlzr_lock' = Nil
    /\ Goto(t, "enable")
    /\ UNCHANGED <<heap_lock, run_fnlzr_lock, world, heap, run_finaliser,
                   runningFinalizers, marks, new, ob>>

(* enableSuspend, and the return to Java code, which has the new object.   *)
enableSuspend(t) ==
    /\ pc[t] = "enable" /\ MayRun(t)
    /\ reach' = reach \cup ({new[t]} \ {Nil})
    /\ new' = [new EXCEPT ![t] = Nil]
    /\ Goto(t, "java")
    /\ UNCHANGED <<locks, world, allocated, ran, lists, marks, ob>>

(* The program loses its last reference to an object, or a finalizer makes *)
(* its object reachable again.                                             *)
drop(t, o) ==
    /\ Java(t) /\ o \in reach
    /\ reach' = reach \ {o}
    /\ UNCHANGED <<locks, world, allocated, ran, lists, marks, pc, new, ob>>

resurrect(t) ==
    /\ Java(t) /\ ob[t] # Nil
    /\ reach' = reach \cup {ob[t]}
    /\ UNCHANGED <<locks, world, allocated, ran, lists, marks, pc, new, ob>>

-----------------------------------------------------------------------------
(* gcMalloc when no chunk is large enough: gc0 under heap_lock, with       *)
(* suspension disabled.                                                    *)
gcMalloc(t) ==
    /\ Java(t)
    /\ Goto(t, "lock_heap")
    /\ UNCHANGED <<locks, world, heap, lists, marks, new, ob>>

lockHeap(t) ==
    /\ pc[t] = "lock_heap" /\ heap_lock = Nil
    /\ heap_lock' = t
    /\ Goto(t, "gc")
    /\ UNCHANGED <<has_fnlzr_lock, run_fnlzr_lock, world, heap, lists, marks,
                   new, ob>>

(* suspendAllThreads, and the roots of doMark: what the program reaches    *)
(* and what is on the stacks.                                              *)
gc0(t) ==
    /\ pc[t] = "gc"
    /\ world' = t
    /\ marked' = reach \cup {new[u] : u \in Threads} \cup {ob[u] : u \in Threads}
    /\ Goto(t, "grab_has")
    /\ UNCHANGED <<locks, heap, lists, kept, scanned, new, ob>>

(* doMark grabs has_fnlzr_lock and lets go of it.                          *)
grabHas(t) ==
    /\ pc[t] = "grab_has" /\ has_fnlzr_lock = Nil
    /\ Goto(t, "lock_run")
    /\ UNCHANGED <<locks, world, heap, lists, marks, new, ob>>

lockRun_rootsOnly(t) ==  \* fault: the ring is not marked
    /\ pc[t] = "lock_run" /\ run_fnlzr_lock = Nil
    /\ run_fnlzr_lock' = t
    /\ Goto(t, "scan")
    /\ UNCHANGED <<heap_lock, has_fnlzr_lock, world, heap, lists, marks, new, ob>>

(* It has run_fnlzr_lock instead, and marks the ring.                      *)
lockRun(t) ==
    /\ pc[t] = "lock_run" /\ run_fnlzr_lock = Nil
    /\ run_fnlzr_lock' = t
    /\ marked' = marked \cup Queued
    /\ Goto(t, "scan")
    /\ UNCHANGED <<heap_lock, has_fnlzr_lock, world, heap, lists, kept, scanned, new, ob>>

(* The loop over has_finaliser_list: what is not marked goes to the ring.  *)
(* A thread that has disabled suspension may append to the list meanwhile. *)
doMark(t) ==
    /\ pc[t] = "scan"
    /\ \/ /\ scanned = Len(has_finaliser_list)
          /\ Goto(t, "set_count")
          /\ UNCHANGED <<marks, run_finaliser>>
       \/ /\ scanned < Len(has_finaliser_list)
          /\ LET o == has_finaliser_list[scanned + 1] IN
             \/ /\ o \in marked
                /\ kept' = Append(kept, o)
                /\ UNCHANGED <<marked, run_finaliser>>
             \/ /\ o \notin marked
                /\ marked' = marked \cup {o}
                /\ run_finaliser' = Append1(run_finaliser, o)
                /\ UNCHANGED kept
          /\ scanned' = scanned + 1
          /\ UNCHANGED pc
    /\ UNCHANGED <<locks, world, heap, has_finaliser_list, runningFinalizers,
                   new, ob>>

(* if(j != has_finaliser_count): the store to the count, the notification  *)
(* and the end of the lock.                                                *)
setCount(t) ==
    /\ pc[t] = "set_count"
    /\ \/ /\ Len(kept) # Len(has_finaliser_list)
          /\ has_finaliser_list' = kept
          /\ NotifyAndGoto(t, "sweep")
       \/ /\ Len(kept) = Len(has_finaliser_list)
          /\ Goto(t, "sweep")
          /\ UNCHANGED has_finaliser_list
    /\ run_fnlzr_lock' = Nil
    /\ UNCHANGED <<heap_lock, has_fnlzr_lock, world, heap, run_finaliser,
                   runningFinalizers, marks, new, ob>>

(* doSweep and resumeAllThreads; gcMalloc then has a chunk, or runs the    *)
(* finalizers without heap_lock.                                           *)
doSweep(t) ==
    /\ pc[t] = "sweep"
    /\ allocated' = allocated \cap marked
    /\ marked' = {} /\ kept' = <<>> /\ scanned' = 0
    /\ world' = Nil
    /\ heap_lock' = Nil
    /\ Goto(t, "enable") \/ Goto(t, "finalizers")
    /\ UNCHANGED <<has_fnlzr_lock, run_fnlzr_lock, reach, ran, lists, new, ob>>

-----------------------------------------------------------------------------
(* runFinalizers, called by gcMalloc and by the finalizer thread.          *)
Start(t) ==
    LET r == run_finaliser
        i == r.start % r.size
    IN  /\ run_finaliser' = [r EXCEPT !.start = i]
        /\ runningFinalizers' = t
        /\ ob' = [ob EXCEPT ![t] = r.list[i]]
        /\ Goto(t, "execute")

runFinalizers(t) ==
    /\ pc[t] \in {"finalizers", "woken"} /\ run_fnlzr_lock = Nil
    /\ \/ /\ runningFinalizers \notin {Nil, t}
          /\ Goto(t, "wait")
          /\ UNCHANGED <<run_finaliser, runningFinalizers, ob>>
       \/ /\ runningFinalizers = t \/ (runningFinalizers = Nil /\ NothingToRun)
          /\ NotifyAndGoto(t, "out")
          /\ UNCHANGED <<run_finaliser, runningFinalizers, ob>>
       \/ /\ runningFinalizers = Nil /\ ~NothingToRun
          /\ Start(t)
    /\ UNCHANGED <<locks, world, heap, has_finaliser_list, marks, new>>

(* Suspension is enabled while the finalizer runs.                         *)
executeMethod(t) ==
    /\ pc[t] = "execute" /\ MayRun(t)
    /\ ran' = [ran EXCEPT ![ob[t]] = @ + 1]
    /\ Goto(t, "java")
    /\ UNCHANGED <<locks, world, allocated, reach, lists, marks, new, ob>>

finalized(t) ==
    /\ Java(t) /\ ob[t] # Nil
    /\ Goto(t, "relock")
    /\ UNCHANGED <<locks, world, heap, lists, marks, new, ob>>

LastFinalizer_kept(t) ==  \* fault: the ring is not emptied
    /\ run_finaliser' = [run_finaliser EXCEPT !.start = @ + 1]
    /\ runningFinalizers' = Nil
    /\ NotifyAndGoto(t, "out")

LastFinalizer_silent(t) ==  \* fault: nobody is notified
    /\ run_finaliser' = [run_finaliser EXCEPT !.start = run_finaliser.size,
                                             !.end = 0]
    /\ runningFinalizers' = Nil
    /\ Goto(t, "out")

(* The ring is empty again, and a thread that waits for that is notified.  *)
LastFinalizer(t) ==
    /\ run_finaliser' = [run_finaliser EXCEPT !.start = run_finaliser.size,
                                             !.end = 0]
    /\ runningFinalizers' = Nil
    /\ NotifyAndGoto(t, "out")

(* while(++run_finaliser_start != run_finaliser_end)                       *)
nextFinalizer(t) ==
    LET r == run_finaliser
        i == r.start + 1
        next == i % r.size
    IN
    /\ pc[t] = "relock" /\ run_fnlzr_lock = Nil
    /\ \/ /\ i # r.end
          /\ run_finaliser' = [r EXCEPT !.start = next]
          /\ ob' = [ob EXCEPT ![t] = r.list[next]]
          /\ Goto(t, "execute")
          /\ UNCHANGED runningFinalizers
       \/ /\ i = r.end
          /\ LastFinalizer(t)
          /\ ob' = [ob EXCEPT ![t] = Nil]
    /\ UNCHANGED <<locks, world, heap, has_finaliser_list, marks, new>>

(* The end of runFinalizers: the finalizer thread waits for more, unless   *)
(* it was a finalizer of its own that ran out of heap; gcMalloc takes      *)
(* heap_lock and collects once more, or gives up.                          *)
out(t) ==
    /\ pc[t] = "out"
    /\ \/ t = Daemon /\ runningFinalizers # t /\ Goto(t, "daemon")
       \/ /\ t # Daemon \/ runningFinalizers = t
          /\ Goto(t, "lock_heap") \/ Goto(t, "enable")
    /\ UNCHANGED <<locks, world, heap, lists, marks, new, ob>>

(* finalizerThreadLoop: it waits first and looks afterwards.               *)
finalizerThreadLoop ==
    /\ \/ pc[Daemon] = "daemon" /\ Goto(Daemon, "daemon_wait")
       \/ pc[Daemon] = "daemon_woken" /\ Goto(Daemon, "finalizers")
    /\ run_fnlzr_lock = Nil
    /\ UNCHANGED <<locks, world, heap, lists, marks, new, ob>>

-----------------------------------------------------------------------------
Program(t) ==
    \/ allocObject(t) \/ gcMalloc(t) \/ resurrect(t)
    \/ \E o \in Objects : drop(t, o)

Step(t) ==
    \/ disableSuspend(t) \/ lockHas(t) \/ ADD_FINALIZED_OBJECT(t)
    \/ enableSuspend(t) \/ lockHeap(t) \/ gc0(t) \/ grabHas(t) \/ lockRun(t)
    \/ doMark(t) \/ setCount(t) \/ doSweep(t) \/ runFinalizers(t)
    \/ executeMethod(t) \/ finalized(t) \/ nextFinalizer(t) \/ out(t)

Next == finalizerThreadLoop \/ \E t \in Threads : Program(t) \/ Step(t)

Spec == Init /\ [][Next]_vars

-----------------------------------------------------------------------------
(* Properties.                                                             *)
Labels == {"java", "add", "lock_has", "append", "enable", "lock_heap", "gc",
           "grab_has", "lock_run", "scan", "set_count", "sweep", "finalizers",
           "wait", "woken", "execute", "relock", "out", "daemon",
           "daemon_wait", "daemon_woken"}

TypeOK ==
    /\ {heap_lock, has_fnlzr_lock, run_fnlzr_lock, world, runningFinalizers}
          \subseteq Threads \cup {Nil}
    /\ allocated \subseteq Objects /\ reach \subseteq allocated
    /\ ran \in [Objects -> Nat]
    /\ has_finaliser_list \in Seq(Objects) /\ kept \in Seq(Objects)
    /\ run_finaliser.start \in 0 .. run_finaliser.size
    /\ run_finaliser.end \in 0 .. run_finaliser.size
    /\ Queued \subseteq Objects
    /\ marked \subseteq Objects \cup {Nil} /\ scanned \in Nat
    /\ pc \in [Threads -> Labels]
    /\ new \in [Threads -> Objects \cup {Nil}]
    /\ ob \in [Threads -> Objects \cup {Nil}]

(* alloc.c, doMark: "finalizers are ran only once, even if finalization    *)
(* resurrects the object".                                                 *)
FinalizedOnce == \A o \in Objects : ran[o] <= 1

(* What waits for its finalizer is not freed, wherever the ring has its    *)
(* start and its end; the one whose finalizer runs is still in the ring.   *)
QueuedAreKept ==
    /\ TypeOK
    /\ Queued \subseteq allocated
    /\ \A t \in Threads : ob[t] # Nil => ob[t] \in Queued

(* A thread that waits in runFinalizers for another one to be done is not  *)
(* forgotten: that thread is still running finalizers, or one that was     *)
(* woken in its stead will pass the signal on.                             *)
WaiterIsRemembered ==
    (\E t \in Threads : pc[t] = "wait") =>
        \/ runningFinalizers # Nil
        \/ \E u \in Threads : pc[u] \in {"woken", "daemon_woken", "finalizers"}

(* README: "Full object finalisation support".  No object is freed before  *)
(* its finalizer has run.                                                  *)
NoneFreedUnfinalized ==
    [][\A o \in allocated \ allocated' : ran[o] > 0]_vars

(* "The finalizer thread waits for notification of new finalizers (by the  *)
(* thread doing gc) and then runs them": while it waits and nobody else is *)
(* about to run finalizers, there are none.  It fails: see the README.     *)
DaemonIsNotified ==
    /\ pc[Daemon] = "daemon_wait" /\ run_fnlzr_lock = Nil /\ runningFinalizers = Nil
    /\ \A t \in Mutators : pc[t] \notin {"finalizers", "woken", "wait"}
    => NothingToRun

===============================================================================
