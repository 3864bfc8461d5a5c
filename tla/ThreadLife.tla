------------------------------ MODULE ThreadLife ------------------------------
(***************************************************************************)
(* thread.c: how Java threads are created, join the thread list, end and   *)
(* let the main thread leave, and how a thread suspends and resumes all    *)
(* the others with SIGUSR1 around a garbage collection (alloc.c: gc1) or a *)
(* thread dump.  A step of a thread is one access to shared memory, or a   *)
(* run of accesses made while it holds the thread queue lock.              *)
(***************************************************************************)
EXTENDS Integers, FiniteSets, Sequences

CONSTANTS
    Main,           \* the main thread, head of the thread list
    Spawned,        \* the threads createJavaThread() may start, one per
                    \* java.lang.Thread object
    Daemons,        \* those whose daemon field is set
    Internal,       \* those that the VM starts itself: the collector's and
                    \* the finalizer's, by createVMThread(); they never end
    Started,        \* those that are running at first
    Dumper,         \* dumpThreadsLoop: it is on no list
    Ops,            \* what the threads do
    SMP,            \* a store may be delayed past a later load (x86 SMP)
    Nil

AllOps == {"native", "alloc", "gc", "create", "attach", "exit", "dump"}

ASSUME ThreadLifeAssumption ==
    /\ Daemons \subseteq Spawned /\ Started \subseteq Spawned
    /\ Internal \subseteq Daemons
    /\ IsFiniteSet(Spawned) /\ Main \notin Spawned
    /\ Dumper \notin Spawned \cup {Main} /\ Nil \notin Spawned \cup {Main, Dumper}
    /\ Ops \subseteq AllOps /\ SMP \in BOOLEAN

Threads == Spawned \cup {Main}
Actors  == Threads \cup {Dumper}

VARIABLES
    lock,           \* the thread holding the thread queue lock, or Nil
    heap_lock,      \* the thread holding the heap lock, or Nil
    exit_lock,      \* the thread holding exit_lock, or Nil
    list,           \* the threads on the thread list
    non_daemon_thrds,
    vmData,         \* of a java.lang.Thread: "null", "thread" or "dead"
    state, suspend, blocking,   \* of a Thread
    masked,         \* SIGUSR1 is blocked in a thread
    pending,        \* SIGUSR1 is pending for a thread
    frames,         \* the calls of suspendLoop a thread is in
    pc,             \* where each thread is
    op,             \* what it is doing
    child,          \* the thread it is starting
    phase,          \* what it does to all the others: "suspend" or "resume"
    todo,           \* the threads its loop over the list has still to visit
    cur             \* the one it is visiting

locks   == <<lock, heap_lock, exit_lock>>
flags   == <<suspend, blocking>>
listing == <<list, non_daemon_thrds, vmData>>
signals == <<masked, pending, frames>>
loop    == <<phase, todo, cur>>
doing   == <<op, child>>
vars    == <<locks, listing, state, flags, signals, pc, doing, loop>>

-----------------------------------------------------------------------------
Init ==
    /\ lock = Nil /\ heap_lock = Nil /\ exit_lock = Nil
    /\ list = Started \cup {Main}
    /\ non_daemon_thrds = Cardinality(Started \ Daemons)
    /\ vmData = [j \in Spawned |-> IF j \in Started THEN "thread" ELSE "null"]
    /\ state = [t \in Threads |-> IF t \in list THEN "RUNNING" ELSE "CREATING"]
    /\ suspend = [t \in Threads |-> FALSE]
    /\ blocking = [t \in Threads |-> FALSE]
    /\ masked = [t \in Threads |-> FALSE]
    /\ pending = [t \in Threads |-> FALSE]
    /\ frames = [t \in Threads |-> <<>>]
    /\ pc = [t \in Actors |-> IF t \in list THEN "run"
                              ELSE IF t = Dumper THEN "dump" ELSE "none"]
    /\ op = [t \in Threads |-> "run"]
    /\ child = [t \in Threads |-> Nil]
    /\ phase = [t \in Actors |-> "suspend"]
    /\ todo = [t \in Actors |-> {}]
    /\ cur = [t \in Actors |-> Nil]

Goto(t, l) == pc' = [pc EXCEPT ![t] = l]

Set(f, t, v) == [f EXCEPT ![t] = v]

-----------------------------------------------------------------------------
(* disableSuspend0: SIGUSR1 is blocked, then blocking is set.              *)
First == [native |-> "native", gc |-> "heap", alloc |-> "heap",
          create |-> "create", exit |-> "leave", wait |-> "wait_exit"]

disableSuspend(t, o, c) ==
    /\ pc[t] = "run"
    /\ masked' = Set(masked, t, TRUE)
    /\ op' = Set(op, t, o)
    /\ child' = Set(child, t, c)
    /\ Goto(t, "disable")
    /\ UNCHANGED <<locks, listing, flags, pending, frames, loop>>

disabled(t) ==
    /\ pc[t] = "disable"
    /\ blocking' = Set(blocking, t, TRUE)
    /\ Goto(t, First[op[t]])
    /\ UNCHANGED <<locks, listing, state, suspend, signals, doing, loop>>

(* Fault: the thread is RUNNING again whatever it was suspended in.        *)
suspendLoop_running(t, ret) ==
    /\ frames' = [frames EXCEPT ![t] = <<[old |-> "RUNNING", ret |-> ret]>> \o @]
    /\ state' = Set(state, t, "SUSPENDED")
    /\ Goto(t, "suspended")

(* suspendLoop: it remembers the state it found and where it returns to:   *)
(* into a suspendLoop it interrupted, or to where SIGUSR1 is unblocked.    *)
suspendLoop(t, ret) ==
    /\ frames' = [frames EXCEPT ![t] = <<[old |-> state[t], ret |-> ret]>> \o @]
    /\ state' = Set(state, t, "SUSPENDED")
    /\ Goto(t, "suspended")

(* enableSuspend: blocking is reset, then suspend tested.  Without a fence *)
(* the store to blocking may leave the processor after suspend was read.   *)
enableSuspend(t) ==
    /\ pc[t] = "enable"
    /\ \/ /\ blocking' = Set(blocking, t, FALSE)
          /\ Goto(t, "test_suspend")
       \/ /\ SMP /\ ~suspend[t]
          /\ Goto(t, "drain")
          /\ UNCHANGED blocking
    /\ UNCHANGED <<locks, listing, state, suspend, signals, doing, loop>>

drainStore(t) ==
    /\ pc[t] = "drain"
    /\ blocking' = Set(blocking, t, FALSE)
    /\ Goto(t, "enabled")
    /\ UNCHANGED <<locks, listing, state, suspend, signals, doing, loop>>

(* Fault: a thread that unblocks does not ask whether it was suspended.    *)
testSuspend_skipped(t) ==
    /\ pc[t] = "test_suspend"
    /\ Goto(t, "enabled")
    /\ UNCHANGED <<locks, listing, state, flags, signals, doing, loop>>

testSuspend(t) ==
    /\ pc[t] = "test_suspend"
    /\ \/ suspend[t] /\ suspendLoop(t, "enabled")
       \/ ~suspend[t] /\ Goto(t, "enabled") /\ UNCHANGED <<state, frames>>
    /\ UNCHANGED <<locks, listing, flags, masked, pending, doing, loop>>

(* SIGUSR1 is unblocked, at the end of enableSuspend or of the handler: a  *)
(* pending one is delivered before the thread does anything else.          *)
unblockSignal(t) ==
    /\ pc[t] = "enabled"
    /\ \/ /\ pending[t]
          /\ pending' = Set(pending, t, FALSE)
          /\ suspendLoop(t, "enabled")
          /\ UNCHANGED <<masked, doing>>
       \/ /\ ~pending[t]
          /\ masked' = Set(masked, t, FALSE)
          /\ Goto(t, CASE op[t] = "exit" -> "freed"
                       [] op[t] = "wait" -> "exited"
                       [] op[t] = "alloc" -> "unlock_heap"
                       [] OTHER -> "run")
          /\ op' = Set(op, t, "run")
          /\ child' = Set(child, t, Nil)
          /\ UNCHANGED <<state, pending, frames>>
    /\ UNCHANGED <<locks, listing, flags, loop>>

(* The signal interrupts Java code: suspendHandler.                        *)
suspendHandler(t) ==
    /\ pc[t] = "run" /\ pending[t]
    /\ pending' = Set(pending, t, FALSE)
    /\ masked' = Set(masked, t, TRUE)
    /\ suspendLoop(t, "enabled")
    /\ UNCHANGED <<locks, listing, flags, doing, loop>>

(* while(thread->suspend) sigsuspend(&mask)                                *)
suspended(t) ==
    /\ pc[t] = "suspended"
    /\ \/ suspend[t] /\ Goto(t, "asleep") /\ UNCHANGED <<state, frames>>
       \/ /\ ~suspend[t]
          /\ state' = Set(state, t, Head(frames[t]).old)
          /\ Goto(t, Head(frames[t]).ret)
          /\ frames' = [frames EXCEPT ![t] = Tail(@)]
    /\ UNCHANGED <<locks, listing, flags, masked, pending, doing, loop>>

sigsuspend(t) ==
    /\ pc[t] = "asleep" /\ pending[t]
    /\ pending' = Set(pending, t, FALSE)
    /\ suspendLoop(t, "suspended")
    /\ UNCHANGED <<locks, listing, flags, masked, doing, loop>>

-----------------------------------------------------------------------------
(* suspendAllThreads and resumeAllThreads: one loop that sets the flag of  *)
(* every other thread and signals those that are not blocking, and one     *)
(* that waits for them.  The order of the list is left open.               *)
lockQueue(a) ==
    /\ pc[a] = "queue" /\ lock = Nil
    /\ lock' = a
    /\ todo' = Set(todo, a, list \ {a})
    /\ Goto(a, "mark")
    /\ UNCHANGED <<heap_lock, exit_lock, listing, state, flags, signals, doing,
                   phase, cur>>

(* Fault: resumeAllThreads clears the flag of those that are asleep only.  *)
setSuspend_asleep(a) ==
    /\ pc[a] = "mark"
    /\ \/ \E u \in todo[a] :
             /\ suspend' = IF phase[a] = "resume" /\ state[u] # "SUSPENDED"
                           THEN suspend
                           ELSE Set(suspend, u, phase[a] = "suspend")
             /\ cur' = Set(cur, a, u)
             /\ Goto(a, "kill")
             /\ UNCHANGED todo
       \/ /\ todo[a] = {}
          /\ todo' = Set(todo, a, IF phase[a] = "suspend" THEN list \ {a} ELSE list)
          /\ Goto(a, "await")
          /\ UNCHANGED <<suspend, cur>>
    /\ UNCHANGED <<locks, listing, state, blocking, signals, doing, phase>>

setSuspend(a) ==
    /\ pc[a] = "mark"
    /\ \/ \E u \in todo[a] :
             /\ suspend' = Set(suspend, u, phase[a] = "suspend")
             /\ cur' = Set(cur, a, u)
             /\ Goto(a, "kill")
             /\ UNCHANGED todo
       \/ /\ todo[a] = {}
          /\ todo' = Set(todo, a, IF phase[a] = "suspend" THEN list \ {a} ELSE list)
          /\ Goto(a, "await")
          /\ UNCHANGED <<suspend, cur>>
    /\ UNCHANGED <<locks, listing, state, blocking, signals, doing, phase>>

pthread_kill(a) ==
    /\ pc[a] = "kill"
    /\ pending' = Set(pending, cur[a], pending[cur[a]] \/ ~blocking[cur[a]])
    /\ todo' = Set(todo, a, todo[a] \ {cur[a]})
    /\ cur' = Set(cur, a, Nil)
    /\ Goto(a, "mark")
    /\ UNCHANGED <<locks, listing, state, flags, masked, frames, doing, phase>>

awaitThread(a) ==
    /\ pc[a] = "await"
    /\ \/ \E u \in todo[a] :
             /\ IF phase[a] = "suspend"
                THEN blocking[u] \/ state[u] = "SUSPENDED"
                ELSE state[u] # "SUSPENDED"
             /\ todo' = Set(todo, a, todo[a] \ {u})
             /\ UNCHANGED <<lock, pc>>
       \/ /\ todo[a] = {}
          /\ lock' = Nil
          /\ Goto(a, IF phase[a] = "suspend" THEN "stopped" ELSE "resumed")
          /\ UNCHANGED todo
    /\ UNCHANGED <<heap_lock, exit_lock, listing, state, flags, signals, doing,
                   phase, cur>>

(* gc1 and gcMalloc: a collection under the heap lock.  gcMalloc may find  *)
(* room without one, and releases the lock only after enableSuspend.       *)
lockHeap(t) ==
    /\ pc[t] = "heap" /\ heap_lock = Nil
    /\ heap_lock' = t
    /\ \/ phase' = Set(phase, t, "suspend") /\ Goto(t, "queue")
       \/ op[t] = "alloc" /\ Goto(t, "enable") /\ UNCHANGED phase
    /\ UNCHANGED <<lock, exit_lock, listing, state, flags, signals, doing, todo,
                   cur>>

unlockHeap(t) ==
    /\ pc[t] = "unlock_heap"
    /\ heap_lock' = Nil
    /\ Goto(t, "run")
    /\ UNCHANGED <<lock, exit_lock, listing, state, flags, signals, doing, loop>>

(* dumpThreadsLoop, on SIGQUIT.                                            *)
dumpThreads ==
    /\ pc[Dumper] = "dump" /\ "dump" \in Ops
    /\ phase' = Set(phase, Dumper, "suspend")
    /\ Goto(Dumper, "queue")
    /\ UNCHANGED <<locks, listing, state, flags, signals, doing, todo, cur>>

(* The collection, or the dump, is over.                                   *)
startResume(a) ==
    /\ pc[a] = "stopped"
    /\ phase' = Set(phase, a, "resume")
    /\ Goto(a, "queue")
    /\ UNCHANGED <<locks, listing, state, flags, signals, doing, todo, cur>>

endResume(a) ==
    /\ pc[a] = "resumed"
    /\ heap_lock' = IF a # Dumper /\ op[a] = "gc" THEN Nil ELSE heap_lock
    /\ Goto(a, IF a = Dumper THEN "dump" ELSE "enable")
    /\ UNCHANGED <<lock, exit_lock, listing, state, flags, signals, doing, loop>>

-----------------------------------------------------------------------------
(* createJavaThread: under the queue lock it claims the Thread object, and *)
(* again it waits for the thread to have started and adds it to the list.  *)
createJavaThread(t) ==
    /\ pc[t] = "create" /\ lock = Nil
    /\ \/ /\ vmData[child[t]] = "null"
          /\ vmData' = Set(vmData, child[t], "thread")
          /\ Goto(t, "spawn")
       \/ /\ vmData[child[t]] # "null"
          /\ Goto(t, "enable")
          /\ UNCHANGED vmData
    /\ UNCHANGED <<locks, list, non_daemon_thrds, state, flags, signals, doing,
                   loop>>

pthread_create(t) ==
    /\ pc[t] = "spawn"
    /\ \/ /\ pc' = [pc EXCEPT ![t] = "handshake", ![child[t]] = "start"]
          /\ UNCHANGED vmData
       \/ /\ vmData' = Set(vmData, child[t], "null")
          /\ Goto(t, "enable")
    /\ UNCHANGED <<locks, list, non_daemon_thrds, state, flags, signals, doing,
                   loop>>

(* pthread_cond_broadcast(&cv), while thread t goes to label l.            *)
Broadcast(t, l) ==
    pc' = [u \in Actors |-> CASE u = t -> l
                              [] pc[u] = "await_started" -> "handshake"
                              [] pc[u] = "await_running" -> "started"
                              [] OTHER -> pc[u]]

addToList(t) ==
    LET c == child[t] IN
    /\ pc[t] = "handshake" /\ lock = Nil
    /\ \/ /\ state[c] = "STARTED"
          /\ list' = list \cup {c}
          /\ non_daemon_thrds' = non_daemon_thrds + (IF c \in Daemons THEN 0 ELSE 1)
          /\ state' = Set(state, c, "RUNNING")
          /\ Broadcast(t, "enable")
       \/ /\ state[c] # "STARTED"
          /\ Goto(t, "await_started")
          /\ UNCHANGED <<list, non_daemon_thrds, state>>
    /\ UNCHANGED <<locks, vmData, flags, signals, doing, loop>>

(* Fault: the new thread does not wait for its creator.                    *)
threadStart_alone(t) ==
    /\ pc[t] = "start" /\ lock = Nil
    /\ masked' = Set(masked, t, TRUE)
    /\ blocking' = Set(blocking, t, TRUE)
    /\ state' = Set(state, t, "STARTED")
    /\ Broadcast(t, "enable")
    /\ UNCHANGED <<locks, listing, suspend, pending, frames, doing, loop>>

(* threadStart, with suspension disabled until the creator is done.        *)
threadStart(t) ==
    /\ pc[t] = "start" /\ lock = Nil
    /\ masked' = Set(masked, t, TRUE)
    /\ blocking' = Set(blocking, t, TRUE)
    /\ state' = Set(state, t, "STARTED")
    /\ Broadcast(t, "await_running")
    /\ UNCHANGED <<locks, listing, suspend, pending, frames, doing, loop>>

threadStarted(t) ==
    /\ pc[t] = "started" /\ lock = Nil
    /\ Goto(t, IF state[t] = "RUNNING" THEN "enable" ELSE "await_running")
    /\ UNCHANGED <<locks, listing, state, flags, signals, doing, loop>>

(* Fault: a daemon that ends is counted out.                               *)
removeFromList_daemon(t) ==
    /\ pc[t] = "leave" /\ lock = Nil
    /\ list' = list \ {t}
    /\ non_daemon_thrds' = non_daemon_thrds - 1
    /\ Goto(t, "enable")
    /\ UNCHANGED <<locks, vmData, state, flags, signals, doing, loop>>

(* createVMThread, and attachThread in the new thread: it allocates its    *)
(* Thread object and then adds itself to the list.                         *)
createVMThread(c) ==
    /\ pc[Main] = "run" /\ "attach" \in Ops /\ pc[c] = "none"
    /\ state' = Set(state, c, "RUNNING")
    /\ Goto(c, "attach")
    /\ UNCHANGED <<locks, listing, flags, signals, doing, loop>>

attachThread(c) ==
    /\ pc[c] = "attach" /\ lock = Nil
    /\ list' = list \cup {c}
    /\ vmData' = Set(vmData, c, "thread")
    /\ Goto(c, "run")
    /\ UNCHANGED <<locks, non_daemon_thrds, state, flags, signals, doing, loop>>

(* The end of threadStart.                                                 *)
removeFromList(t) ==
    /\ pc[t] = "leave" /\ lock = Nil
    /\ list' = list \ {t}
    /\ non_daemon_thrds' = non_daemon_thrds - (IF t \in Daemons THEN 0 ELSE 1)
    /\ Goto(t, "enable")
    /\ UNCHANGED <<locks, vmData, state, flags, signals, doing, loop>>

threadFreed(t) ==
    /\ pc[t] = "freed"
    /\ vmData' = Set(vmData, t, "dead")
    /\ Goto(t, IF non_daemon_thrds = 0 THEN "signal_exit" ELSE "dead")
    /\ UNCHANGED <<locks, list, non_daemon_thrds, state, flags, signals, doing,
                   loop>>

(* Fault: exit_cv is signalled without exit_lock.                          *)
signalExit_unlocked(t) ==
    /\ pc[t] = "signal_exit"
    /\ pc' = [pc EXCEPT ![t] = "dead",
                        ![Main] = IF @ = "await_exit" THEN "wait_exit" ELSE @]
    /\ UNCHANGED <<locks, listing, state, flags, signals, doing, loop>>

signalExit(t) ==
    /\ pc[t] = "signal_exit" /\ exit_lock = Nil
    /\ pc' = [pc EXCEPT ![t] = "dead",
                        ![Main] = IF @ = "await_exit" THEN "wait_exit" ELSE @]
    /\ UNCHANGED <<locks, listing, state, flags, signals, doing, loop>>

(* mainThreadWaitToExitVM.                                                 *)
lockExit ==
    /\ pc[Main] = "wait_exit" /\ exit_lock = Nil
    /\ exit_lock' = Main
    /\ state' = Set(state, Main, "WAITING")
    /\ Goto(Main, "test_exit")
    /\ UNCHANGED <<lock, heap_lock, listing, flags, signals, doing, loop>>

(* Fault: the main thread leaves one thread too early.                     *)
testExit_early ==
    /\ pc[Main] = "test_exit"
    /\ \/ /\ non_daemon_thrds > 1
          /\ Goto(Main, "park_exit")
          /\ UNCHANGED exit_lock
       \/ /\ non_daemon_thrds <= 1
          /\ exit_lock' = Nil
          /\ Goto(Main, "enable")
    /\ UNCHANGED <<lock, heap_lock, listing, state, flags, signals, doing, loop>>

testExit ==
    /\ pc[Main] = "test_exit"
    /\ \/ /\ non_daemon_thrds # 0
          /\ Goto(Main, "park_exit")
          /\ UNCHANGED exit_lock
       \/ /\ non_daemon_thrds = 0
          /\ exit_lock' = Nil
          /\ Goto(Main, "enable")
    /\ UNCHANGED <<lock, heap_lock, listing, state, flags, signals, doing, loop>>

parkExit ==
    /\ pc[Main] = "park_exit"
    /\ exit_lock' = Nil
    /\ Goto(Main, "await_exit")
    /\ UNCHANGED <<lock, heap_lock, listing, state, flags, signals, doing, loop>>

-----------------------------------------------------------------------------
(* A region of native code that may block, with suspension disabled.       *)
leaveNative(t) ==
    /\ pc[t] = "native"
    /\ Goto(t, "enable")
    /\ UNCHANGED <<locks, listing, state, flags, signals, doing, loop>>

(* What Java code does.  An ending thread sets its state to 0 first.       *)
Begin(t) ==
    \/ \E o \in Ops \cap {"native", "alloc", "gc"} :
          disableSuspend(t, o, Nil) /\ UNCHANGED state
    \/ \E c \in Spawned \ Internal :
          /\ "create" \in Ops
          /\ disableSuspend(t, "create", c) /\ UNCHANGED state

End(t) ==
    /\ "exit" \in Ops /\ t \notin Internal
    /\ \/ /\ t # Main /\ disableSuspend(t, "exit", Nil)
          /\ state' = Set(state, t, "CREATING")
       \/ /\ t = Main /\ disableSuspend(t, "wait", Nil)
          /\ UNCHANGED state

Step(t) ==
    \/ disabled(t) \/ enableSuspend(t) \/ drainStore(t) \/ testSuspend(t)
    \/ unblockSignal(t) \/ suspendHandler(t) \/ suspended(t) \/ sigsuspend(t)
    \/ lockHeap(t) \/ createJavaThread(t) \/ pthread_create(t) \/ addToList(t)
    \/ threadStart(t) \/ threadStarted(t) \/ removeFromList(t) \/ threadFreed(t)
    \/ signalExit(t) \/ leaveNative(t) \/ unlockHeap(t) \/ attachThread(t)

SuspendResume(a) ==
    \/ lockQueue(a) \/ setSuspend(a) \/ pthread_kill(a) \/ awaitThread(a)
    \/ startResume(a) \/ endResume(a)

MainStep == lockExit \/ testExit \/ parkExit

(* When main() has returned the process is gone.                           *)
Alive == pc[Main] # "exited"

Next ==
    /\ Alive
    /\ \/ \E t \in Threads : Begin(t) \/ End(t) \/ Step(t)
       \/ \E a \in Actors : SuspendResume(a)
       \/ \E c \in Internal : createVMThread(c)
       \/ dumpThreads \/ MainStep

Spec == Init /\ [][Next]_vars

-----------------------------------------------------------------------------
(* Properties.                                                             *)
States == {"CREATING", "STARTED", "RUNNING", "WAITING", "SUSPENDED"}

Labels == {"none", "dump", "run", "disable", "native", "heap", "create",
           "leave", "wait_exit", "enable", "test_suspend", "drain", "enabled",
           "suspended", "asleep", "queue", "mark", "kill", "await", "stopped",
           "resumed", "spawn", "handshake", "await_started", "start",
           "await_running", "started", "freed", "signal_exit", "dead",
           "test_exit", "park_exit", "await_exit", "exited", "attach",
           "unlock_heap"}

TypeOK ==
    /\ lock \in Actors \cup {Nil}
    /\ heap_lock \in Threads \cup {Nil}
    /\ exit_lock \in {Main, Nil}
    /\ list \subseteq Threads
    /\ non_daemon_thrds \in Int
    /\ vmData \in [Spawned -> {"null", "thread", "dead"}]
    /\ state \in [Threads -> States]
    /\ suspend \in [Threads -> BOOLEAN]
    /\ blocking \in [Threads -> BOOLEAN]
    /\ masked \in [Threads -> BOOLEAN]
    /\ pending \in [Threads -> BOOLEAN]
    /\ frames \in [Threads -> Seq([old : States, ret : {"suspended", "enabled"}])]
    /\ pc \in [Actors -> Labels]
    /\ op \in [Threads -> {"run", "native", "alloc", "gc", "create", "exit", "wait"}]
    /\ child \in [Threads -> Spawned \cup {Nil}]
    /\ phase \in [Actors -> {"suspend", "resume"}]
    /\ todo \in [Actors -> SUBSET Threads]
    /\ cur \in [Actors -> Threads \cup {Nil}]

(* The collector is stop-the-world: while one thread marks and sweeps, no  *)
(* other thread executes Java code or allocates its own Thread object.     *)
StopTheWorld ==
    \A t \in Threads : pc[t] = "stopped" =>
        \A u \in Threads \ {t} : pc[u] \notin {"run", "attach"}

(* A thread that runs Java code is on the list, so that a collection       *)
(* suspends it and scans its stack.                                        *)
RunnersAreListed == \A t \in Threads : pc[t] = "run" => t \in list

(* non_daemon_thrds counts the listed threads that are not daemons, though *)
(* it is changed by the creator and by the thread that ends.               *)
NonDaemonsAreCounted ==
    non_daemon_thrds = Cardinality(list \ (Daemons \cup {Main}))

(* Suspending never costs a thread its state: outside suspendLoop no       *)
(* thread is left marked SUSPENDED, which resumeAllThreads would wait for. *)
StateIsRestored ==
    \A t \in Threads :
        state[t] = "SUSPENDED" <=> frames[t] # <<>>

(* The main thread leaves only when no other non-daemon thread is listed.  *)
MainLeavesLast ==
    [][pc[Main] = "test_exit" /\ pc'[Main] = "enable" =>
          list \subseteq Daemons \cup {Main}]_vars

(* Fairness: the scheduler runs every thread that can run, and the run()   *)
(* method of a thread that is no daemon ends, however often it leaves and  *)
(* re-enters Java code before; nothing makes a thread collect or start     *)
(* another one, and a daemon may run for ever.                             *)
Fairness ==
    /\ \A t \in Threads : WF_vars(Alive /\ Step(t))
    /\ \A t \in Threads \ Daemons : SF_vars(Alive /\ End(t))
    /\ \A a \in Actors : WF_vars(Alive /\ SuspendResume(a))
    /\ WF_vars(Alive /\ MainStep)

FairSpec == Spec /\ Fairness

(* The VM exits: when every run() method ends, so does the wait of the     *)
(* main thread for the non-daemon threads.                                 *)
MainExits == pc[Main] = "wait_exit" ~> pc[Main] = "exited"

(* A thread that has left the list dies: nothing can hold it up any more.  *)
ThreadsDie ==
    \A t \in Spawned :
        op[t] = "exit" /\ t \notin list ~> pc[t] = "dead" \/ ~Alive

(* Whoever is suspended is resumed.                                        *)
SleepersWake == \A t \in Threads : pc[t] = "asleep" ~> pc[t] # "asleep"

===============================================================================
