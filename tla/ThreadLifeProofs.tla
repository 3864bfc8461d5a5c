--------------------------- MODULE ThreadLifeProofs ---------------------------
(***************************************************************************)
(* Proofs about ThreadLife, for any number of threads, whatever they do:   *)
(* they start and end, collect garbage, are suspended while they are       *)
(* suspended already, and stores may be delayed or not.                    *)
(***************************************************************************)
EXTENDS ThreadLife, TLAPS, FiniteSetTheorems

(* Where a thread is before it is started and after it has ended, and      *)
(* while it waits for its creator to put it on the list.                   *)
Outside == {"none", "start", "attach", "freed", "signal_exit", "dead"}
Joining == {"await_running", "started"}
Creating == {"create", "spawn", "handshake", "await_started"}
Asleep == {"suspended", "asleep"}

(* The calls of suspendLoop: the outermost one was made in another state   *)
(* than SUSPENDED and returns to unblock the signal, the others were made  *)
(* by the handler out of sigsuspend.                                       *)
FramesOK(t) ==
    /\ frames[t] # <<>> <=> pc[t] \in Asleep
    /\ frames[t] # <<>> <=> state[t] = "SUSPENDED"
    /\ \A k \in 1..Len(frames[t]) :
          /\ frames[t][k].ret = "enabled" <=> k = Len(frames[t])
          /\ frames[t][k].old = "SUSPENDED" <=> k < Len(frames[t])
          /\ frames[t][k].old # "STARTED"

(* What a thread does, and whether it is on the list.                      *)
ListedOK(t) ==
    /\ pc[t] \in Outside => op[t] = "run" /\ t \notin list
    /\ pc[t] \in Joining => /\ op[t] = "run" /\ state[t] \in {"STARTED", "RUNNING"}
                            /\ t \in list <=> state[t] = "RUNNING"
    /\ pc[t] \notin Outside \cup Joining =>
          (t \in list <=> op[t] # "exit" \/ pc[t] \in {"disable", "leave"})
    /\ state[t] = "STARTED" => pc[t] \in Joining

OpOK(t) ==
    /\ pc[t] = "disable" => op[t] # "run"
    /\ pc[t] = "leave" => op[t] = "exit"
    /\ pc[t] \in Creating => op[t] = "create"
    /\ op[t] = "create" => child[t] \in Spawned \ Internal
    /\ op[t] = "exit" => t # Main
    /\ pc[t] = "attach" => t \in Internal
    /\ pc[t] \in {"run", "unlock_heap"} => op[t] = "run"

ThreadOK(t) == FramesOK(t) /\ ListedOK(t) /\ OpOK(t)

(* A Thread object is claimed by one creator, and its thread not started   *)
(* before that.                                                            *)
ObjectsOK ==
    /\ \A c \in Spawned \ Internal : vmData[c] = "null" => pc[c] = "none"
    /\ \A t \in Threads : pc[t] = "spawn" => /\ vmData[child[t]] = "thread"
                                             /\ pc[child[t]] = "none"
    /\ \A t, u \in Threads :
          pc[t] = "spawn" /\ pc[u] = "spawn" /\ child[t] = child[u] => t = u

KillOK == \A a \in Actors : pc[a] = "kill" => cur[a] \in Threads

(* The inductive invariant.                                                *)
IInv ==
    /\ TypeOK /\ KillOK /\ ObjectsOK /\ NonDaemonsAreCounted
    /\ \A t \in Threads : ThreadOK(t)

-----------------------------------------------------------------------------
(* The types.                                                              *)
LEMMA BroadcastLabels ==
    ASSUME TypeOK, NEW t, NEW l \in Labels, Broadcast(t, l)
    PROVE  pc' \in [Actors -> Labels]
<1>1. \A u \in Actors : (CASE u = t -> l
                            [] pc[u] = "await_started" -> "handshake"
                            [] pc[u] = "await_running" -> "started"
                            [] OTHER -> pc[u]) \in Labels
  BY DEF TypeOK, Labels
<1> QED
  BY <1>1 DEF Broadcast

LEMMA TypeSteps ==
    ASSUME IInv, NEW t \in Threads, Step(t) \/ Begin(t) \/ End(t)
    PROVE  TypeOK'
<1> t \in Actors
  BY DEF Actors
<1> USE DEF TypeOK, Goto, Set, locks, listing, flags, signals, loop, doing, Labels, States
<1>1. CASE \E o \in Ops \cap {"native", "alloc", "gc"} : disableSuspend(t, o, Nil) /\ UNCHANGED state
  BY <1>1 DEF IInv, disableSuspend
<1>2. CASE \E c \in Spawned \ Internal : disableSuspend(t, "create", c) /\ UNCHANGED state
  BY <1>2 DEF IInv, disableSuspend
<1>3. CASE End(t)
  <2>1. PICK o \in {"exit", "wait"} : disableSuspend(t, o, Nil)
    BY <1>3 DEF End
  <2>2. state' \in [Threads -> States]
    BY <1>3 DEF IInv, End
  <2> QED
    BY <2>1, <2>2 DEF IInv, disableSuspend
<1>4. CASE disabled(t)
  <2>1. First[op[t]] \in Labels
    BY <1>4 DEF IInv, ThreadOK, OpOK, disabled, First
  <2> QED
    BY <1>4, <2>1 DEF IInv, disabled
<1>5. CASE enableSuspend(t) \/ drainStore(t)
  <2>1. /\ blocking' \in [Threads -> BOOLEAN]
        /\ \E l \in {"test_suspend", "drain", "enabled"} : Goto(t, l)
        /\ UNCHANGED <<locks, listing, state, suspend, signals, doing, loop>>
    BY <1>5 DEF IInv, enableSuspend, drainStore
  <2> QED
    BY <2>1 DEF IInv
<1>6. ASSUME NEW ret \in {"suspended", "enabled"}, suspendLoop(t, ret)
      PROVE  /\ frames' \in [Threads -> Seq([old : States, ret : {"suspended", "enabled"}])]
             /\ state' \in [Threads -> States] /\ pc' \in [Actors -> Labels]
  BY <1>6 DEF IInv, suspendLoop
<1>7. CASE testSuspend(t)
  BY <1>6, <1>7 DEF IInv, testSuspend
<1>8. CASE unblockSignal(t)
  <2>1. CASE pending[t]
    BY <1>6, <1>8, <2>1 DEF IInv, unblockSignal
  <2>2. CASE ~pending[t]
    <3>1. \E l \in {"freed", "exited", "unlock_heap", "run"} : Goto(t, l)
      BY <1>8, <2>2 DEF unblockSignal
    <3>2. pc' \in [Actors -> Labels]
      BY <3>1 DEF IInv
    <3>3. /\ masked' \in [Threads -> BOOLEAN]
          /\ op' = [op EXCEPT ![t] = "run"] /\ child' = [child EXCEPT ![t] = Nil]
          /\ UNCHANGED <<state, pending, frames, locks, listing, flags, loop>>
      BY <1>8, <2>2 DEF IInv, unblockSignal
    <3> QED
      BY <3>2, <3>3 DEF IInv
  <2> QED
    BY <2>1, <2>2
<1>9. CASE suspendHandler(t)
  BY <1>6, <1>9 DEF IInv, suspendHandler
<1>10. CASE sigsuspend(t)
  BY <1>6, <1>10 DEF IInv, sigsuspend
<1>11. CASE suspended(t)
  <2>1. CASE ~suspend[t]
    <3>1. frames[t] # <<>>
      BY <1>11 DEF IInv, ThreadOK, FramesOK, suspended, Asleep
    <3>2. ASSUME NEW S, NEW s \in Seq(S), s # <<>>
          PROVE  Head(s) \in S /\ Tail(s) \in Seq(S)
      BY <3>2
    <3>3. /\ Head(frames[t]) \in [old : States, ret : {"suspended", "enabled"}]
          /\ Tail(frames[t]) \in Seq([old : States, ret : {"suspended", "enabled"}])
      BY <3>1, <3>2 DEF IInv
    <3>4. PICK f, r : f = Head(frames[t]) /\ r = Tail(frames[t])
      OBVIOUS
    <3>5. /\ f.old \in States /\ f.ret \in Labels
          /\ r \in Seq([old : States, ret : {"suspended", "enabled"}])
      BY <3>3, <3>4
    <3>6. /\ state' = [state EXCEPT ![t] = f.old] /\ pc' = [pc EXCEPT ![t] = f.ret]
          /\ frames' = [frames EXCEPT ![t] = r]
      BY <1>11, <2>1, <3>4 DEF suspended
    <3>7. /\ state' \in [Threads -> States] /\ pc' \in [Actors -> Labels]
          /\ frames' \in [Threads -> Seq([old : States, ret : {"suspended", "enabled"}])]
      BY <3>5, <3>6 DEF IInv
    <3> QED
      BY <1>11, <3>7 DEF IInv, suspended
  <2> QED
    BY <1>11, <2>1 DEF IInv, suspended
<1>12. CASE lockHeap(t) \/ leaveNative(t) \/ unlockHeap(t)
  <2>1. /\ heap_lock' \in Threads \cup {Nil} /\ phase' \in [Actors -> {"suspend", "resume"}]
        /\ \E l \in {"queue", "enable", "run"} : Goto(t, l)
        /\ UNCHANGED <<lock, exit_lock, listing, state, flags, signals, doing, todo, cur>>
    BY <1>12 DEF IInv, lockHeap, leaveNative, unlockHeap
  <2> QED
    BY <2>1 DEF IInv
<1>13. CASE createJavaThread(t)
  <2>1. /\ vmData' \in [Spawned -> {"null", "thread", "dead"}]
        /\ \E l \in {"spawn", "enable"} : Goto(t, l)
    <3>1. CASE vmData[child[t]] = "null"
      <4>1. vmData' = [vmData EXCEPT ![child[t]] = "thread"] /\ Goto(t, "spawn")
        BY <1>13, <3>1 DEF createJavaThread
      <4> QED
        BY <4>1 DEF IInv
    <3>2. CASE vmData[child[t]] # "null"
      BY <1>13, <3>2 DEF IInv, createJavaThread
    <3> QED
      BY <3>1, <3>2
  <2> QED
    BY <1>13, <2>1 DEF IInv, createJavaThread
<1>14. CASE pthread_create(t)
  BY <1>14 DEF IInv, pthread_create
<1>15. CASE addToList(t)
  <2>1. child[t] \in Threads
    BY <1>15 DEF IInv, ThreadOK, OpOK, addToList, Creating, Threads
  <2>2. PICK c : c = child[t]
    OBVIOUS
  <2>3. /\ \/ list' = list \cup {c} /\ state' = [state EXCEPT ![c] = "RUNNING"]
           \/ UNCHANGED <<list, state>>
        /\ \E d \in {0, 1} : non_daemon_thrds' = non_daemon_thrds + d
        /\ Broadcast(t, "enable") \/ Goto(t, "await_started")
    <3>1. CASE UNCHANGED non_daemon_thrds
      <4>1. non_daemon_thrds' = non_daemon_thrds + 0
        BY <3>1 DEF IInv
      <4> QED
        BY <1>15, <2>2, <4>1 DEF addToList
    <3>2. CASE UNCHANGED non_daemon_thrds \/
               non_daemon_thrds' = non_daemon_thrds + (IF c \in Daemons THEN 0 ELSE 1)
      <4>1. \E d \in {0, 1} : non_daemon_thrds' = non_daemon_thrds + d
        BY <3>1, <3>2
      <4> QED
        BY <1>15, <2>2, <4>1 DEF addToList
    <3> QED
      BY <1>15, <2>2, <3>2 DEF addToList
  <2>4. /\ list' \subseteq Threads /\ non_daemon_thrds' \in Int
        /\ state' \in [Threads -> States]
    <3>1. state' \in [Threads -> States] /\ list' \subseteq Threads
      <4>1. state \in [Threads -> States] /\ list \subseteq Threads /\ c \in Threads
        BY <2>1, <2>2 DEF IInv
      <4>2. CASE list' = list \cup {c} /\ state' = [state EXCEPT ![c] = "RUNNING"]
        BY <4>1, <4>2
      <4> QED
        BY <2>3, <4>1, <4>2
    <3>2. non_daemon_thrds' \in Int
      BY <2>3 DEF IInv
    <3> QED
      BY <3>1, <3>2
  <2>5. pc' \in [Actors -> Labels]
    BY <2>3, BroadcastLabels DEF IInv
  <2> QED
    BY <1>15, <2>4, <2>5 DEF IInv, addToList
<1>16. CASE threadStart(t)
  BY <1>16 DEF IInv, threadStart, Broadcast
<1>17. CASE threadStarted(t)
  BY <1>17 DEF IInv, threadStarted
<1>18. CASE removeFromList(t)
  BY <1>18 DEF IInv, removeFromList
<1>19. CASE threadFreed(t)
  BY <1>19 DEF IInv, threadFreed
<1>20. CASE signalExit(t)
  BY <1>20 DEF IInv, signalExit
<1>21. CASE attachThread(t)
  BY <1>21 DEF IInv, attachThread
<1> QED
  BY <1>1, <1>2, <1>3, <1>4, <1>5, <1>7, <1>8, <1>9, <1>10, <1>11, <1>12, <1>13, <1>14,
     <1>15, <1>16, <1>17, <1>18, <1>19, <1>20, <1>21 DEF Step, Begin

LEMMA TypeSuspends ==
    ASSUME IInv, NEW a \in Actors, SuspendResume(a)
    PROVE  TypeOK'
<1> USE DEF TypeOK, Goto, Set, locks, listing, flags, signals, loop, doing, Labels
<1>1. CASE lockQueue(a)
  BY <1>1 DEF IInv, lockQueue
<1>2. CASE setSuspend(a)
  <2>1. /\ suspend' \in [Threads -> BOOLEAN] /\ cur' \in [Actors -> Threads \cup {Nil}]
        /\ todo' \in [Actors -> SUBSET Threads]
        /\ \E l \in {"kill", "await"} : Goto(a, l)
    <3>1. CASE todo[a] = {} /\ UNCHANGED <<suspend, cur>>
      <4>1. (IF phase[a] = "suspend" THEN list \ {a} ELSE list) \in SUBSET Threads
        BY DEF IInv
      <4>2. todo' = [todo EXCEPT ![a] = IF phase[a] = "suspend" THEN list \ {a} ELSE list]
            \/ UNCHANGED todo
        BY <1>2 DEF setSuspend
      <4>3. todo' \in [Actors -> SUBSET Threads]
        BY <4>1, <4>2 DEF IInv
      <4> QED
        BY <1>2, <3>1, <4>3 DEF IInv, setSuspend
    <3>2. ASSUME NEW u \in todo[a], suspend' = Set(suspend, u, phase[a] = "suspend"),
                 cur' = Set(cur, a, u), Goto(a, "kill"), UNCHANGED todo
          PROVE  /\ suspend' \in [Threads -> BOOLEAN]
                 /\ cur' \in [Actors -> Threads \cup {Nil}]
      BY <3>2 DEF IInv
    <3> QED
      BY <1>2, <3>1, <3>2 DEF IInv, setSuspend
  <2> QED
    BY <1>2, <2>1 DEF IInv, setSuspend
<1>3. CASE pthread_kill(a)
  <2>1. cur[a] \in Threads
    BY <1>3 DEF IInv, KillOK, pthread_kill
  <2> QED
    BY <1>3, <2>1 DEF IInv, pthread_kill
<1>4. CASE awaitThread(a)
  <2>1. /\ \/ \E u \in todo[a] : todo' = [todo EXCEPT ![a] = todo[a] \ {u}]
           \/ UNCHANGED todo
        /\ lock' \in {lock, Nil}
        /\ UNCHANGED pc \/ Goto(a, "stopped") \/ Goto(a, "resumed")
        /\ UNCHANGED <<heap_lock, exit_lock, listing, state, flags, signals, doing, phase, cur>>
    BY <1>4 DEF awaitThread
  <2>2. todo' \in [Actors -> SUBSET Threads]
    BY <2>1 DEF IInv
  <2>3. lock' \in Actors \cup {Nil} /\ pc' \in [Actors -> Labels]
    BY <2>1 DEF IInv
  <2> QED
    BY <2>1, <2>2, <2>3 DEF IInv
<1>5. CASE startResume(a) \/ endResume(a)
  BY <1>5 DEF IInv, startResume, endResume
<1> QED
  BY <1>1, <1>2, <1>3, <1>4, <1>5 DEF SuspendResume

LEMMA TypeOthers ==
    ASSUME IInv, \/ \E c \in Internal : createVMThread(c)
                 \/ dumpThreads \/ MainStep \/ UNCHANGED vars
    PROVE  TypeOK'
<1> Main \in Threads /\ Internal \subseteq Threads /\ Threads \subseteq Actors /\ Dumper \in Actors
  BY ThreadLifeAssumption DEF Threads, Actors
<1> USE DEF IInv, TypeOK, Goto, Set, locks, listing, flags, signals, loop, doing, Labels, States
<1>1. CASE \E c \in Internal : createVMThread(c)
  BY <1>1 DEF createVMThread
<1>2. CASE dumpThreads
  BY <1>2 DEF dumpThreads
<1>3. CASE MainStep
  <2>1. /\ exit_lock' \in {Main, Nil} /\ state' \in [Threads -> States]
        /\ \E l \in {"test_exit", "park_exit", "enable", "await_exit"} : Goto(Main, l)
        /\ UNCHANGED <<lock, heap_lock, listing, flags, signals, doing, loop>>
    BY <1>3 DEF MainStep, lockExit, testExit, parkExit
  <2> QED
    BY <2>1
<1>4. CASE UNCHANGED vars
  BY <1>4 DEF vars
<1> QED
  BY <1>1, <1>2, <1>3, <1>4

-----------------------------------------------------------------------------
(* Threads that a step leaves where they are, on the list or off it.       *)
Same(u) ==
    /\ pc'[u] = pc[u] /\ state'[u] = state[u] /\ frames'[u] = frames[u]
    /\ op'[u] = op[u] /\ child'[u] = child[u] /\ (u \in list' <=> u \in list)

LEMMA SameStays ==
    ASSUME NEW u, ThreadOK(u), Same(u)
    PROVE  ThreadOK(u)'
<1>1. FramesOK(u)'
  BY DEF ThreadOK, FramesOK, Same
<1>2. ListedOK(u)'
  BY DEF ThreadOK, ListedOK, Same
<1>3. OpOK(u)'
  BY DEF ThreadOK, OpOK, Same
<1> QED
  BY <1>1, <1>2, <1>3 DEF ThreadOK

(* Places of which nothing has to be known.                                *)
Busy == {"run", "native", "heap", "enable", "test_suspend", "drain", "enabled", "queue",
         "mark", "kill", "await", "stopped", "resumed", "unlock_heap", "wait_exit",
         "test_exit", "park_exit", "await_exit", "exited"}

LEMMA BusyStays ==
    ASSUME NEW u, ThreadOK(u), pc[u] \in Busy, pc'[u] \in Busy, UNCHANGED list,
           pc'[u] \in {"run", "unlock_heap"} => pc[u] = "unlock_heap",
           state'[u] = state[u], frames'[u] = frames[u], op'[u] = op[u], child'[u] = child[u]
    PROVE  ThreadOK(u)'
<1>1. /\ Busy \cap (Outside \cup Joining \cup Creating \cup Asleep) = {}
      /\ Busy \cap {"disable", "leave", "attach"} = {}
  BY DEF Busy, Outside, Joining, Creating, Asleep
<1>2. FramesOK(u)'
  BY <1>1 DEF ThreadOK, FramesOK
<1>3. ListedOK(u)'
  BY <1>1 DEF ThreadOK, ListedOK
<1>4. OpOK(u)'
  BY <1>1 DEF ThreadOK, OpOK
<1> QED
  BY <1>2, <1>3, <1>4 DEF ThreadOK

(* A step of one thread, or of the dumper, that goes from label to label   *)
(* and neither changes the list nor claims a Thread object.                *)
LEMMA Moved ==
    ASSUME IInv, TypeOK', UNCHANGED listing,
           NEW a \in Actors, NEW l \in Labels \ {"spawn"}, Goto(a, l), pc[a] # "none",
           l = "kill" => cur'[a] \in Threads,
           \A b \in Actors \ {a} : cur'[b] = cur[b],
           \A u \in Threads \ {a} : /\ state'[u] = state[u] /\ frames'[u] = frames[u]
                                    /\ op'[u] = op[u] /\ child'[u] = child[u],
           a \in Threads => ThreadOK(a)'
    PROVE  IInv'
<1>1. /\ \A b \in Actors \ {a} : pc'[b] = pc[b]
      /\ pc'[a] = l /\ Threads \subseteq Actors
  BY DEF Goto, IInv, TypeOK, Actors
<1>2. KillOK'
  BY <1>1 DEF IInv, KillOK
<1>3. NonDaemonsAreCounted'
  BY DEF IInv, NonDaemonsAreCounted, listing
<1>4. \A u \in Threads \ {a} : Same(u)
  BY <1>1 DEF Same, listing
<1>5. \A u \in Threads : ThreadOK(u)'
  BY <1>4, SameStays DEF IInv
<1>6. ObjectsOK'
  <2>1. \A c \in Actors : pc[c] = "none" => pc'[c] = "none"
    BY <1>1
  <2>2. \A u \in Threads : pc'[u] = "spawn" => pc[u] = "spawn" /\ child'[u] = child[u]
    BY <1>1
  <2>3. Spawned \subseteq Actors
    BY DEF Actors, Threads
  <2>4. \A u \in Threads : pc[u] = "spawn" => child[u] \in Actors
    BY <2>3 DEF IInv, ThreadOK, OpOK, Creating
  <2> QED
    BY <1>1, <2>1, <2>2, <2>3, <2>4 DEF IInv, ObjectsOK, listing
<1> QED
  BY <1>2, <1>3, <1>5, <1>6 DEF IInv

LEMMA BusyMoved ==
    ASSUME IInv, TypeOK', UNCHANGED <<listing, state, frames, doing>>,
           NEW a \in Actors, pc[a] \in Busy \cup {"dump"}, NEW l \in Busy \cup {"dump"},
           a \in Threads => /\ pc[a] # "dump" /\ l # "dump"
                            /\ l \in {"run", "unlock_heap"} => pc[a] = "unlock_heap",
           Goto(a, l),
           l = "kill" => cur'[a] \in Threads,
           \A b \in Actors \ {a} : cur'[b] = cur[b]
    PROVE  IInv'
<1>1. l \in Labels \ {"spawn"} /\ pc[a] # "none"
  BY DEF Busy, Labels
<1>2. pc'[a] = l
  BY DEF Goto, IInv, TypeOK
<1>3. a \in Threads => ThreadOK(a)'
  BY <1>2, BusyStays DEF IInv, listing, doing
<1> QED
  BY <1>1, <1>3, Moved DEF doing

-----------------------------------------------------------------------------
LEMMA SuspendKeeps ==
    ASSUME IInv, NEW a \in Actors, SuspendResume(a)
    PROVE  IInv'
<1> Dumper \notin Threads
  BY ThreadLifeAssumption DEF Threads
<1> TypeOK'
  BY TypeSuspends
<1> pc \in [Actors -> Labels] /\ cur \in [Actors -> Threads \cup {Nil}]
  BY DEF IInv, TypeOK
<1> USE DEF Busy, Set
<1>1. CASE lockQueue(a)
  BY <1>1, BusyMoved DEF lockQueue, signals
<1>2. CASE setSuspend(a)
  <2>1. ASSUME NEW u \in todo[a], cur' = Set(cur, a, u), Goto(a, "kill") PROVE IInv'
    <3>1. u \in Threads
      BY DEF IInv, TypeOK
    <3>2. cur'[a] = u /\ \A b \in Actors \ {a} : cur'[b] = cur[b]
      BY <2>1
    <3> QED
      BY <1>2, <2>1, <3>1, <3>2, BusyMoved DEF setSuspend, signals
  <2>2. CASE Goto(a, "await") /\ UNCHANGED cur
    BY <1>2, <2>2, BusyMoved DEF setSuspend, signals
  <2> QED
    BY <1>2, <2>1, <2>2 DEF setSuspend
<1>3. CASE pthread_kill(a)
  BY <1>3, BusyMoved DEF pthread_kill
<1>4. CASE awaitThread(a)
  <2>1. PICK l \in {"await", "stopped", "resumed"} : Goto(a, l)
    <3>1. CASE UNCHANGED pc
      BY <1>4, <3>1 DEF awaitThread, Goto
    <3>2. CASE ~UNCHANGED pc
      BY <1>4, <3>2 DEF awaitThread
    <3> QED
      BY <3>1, <3>2
  <2> QED
    BY <1>4, <2>1, BusyMoved DEF awaitThread, signals
<1>5. CASE startResume(a)
  BY <1>5, BusyMoved DEF startResume, signals
<1>6. CASE endResume(a)
  BY <1>6, BusyMoved DEF endResume, signals, loop
<1> QED
  BY <1>1, <1>2, <1>3, <1>4, <1>5, <1>6 DEF SuspendResume

LEMMA MainKeeps ==
    ASSUME IInv, dumpThreads \/ MainStep
    PROVE  IInv'
<1> Dumper \notin Threads /\ Main \in Threads /\ Threads \subseteq Actors /\ Dumper \in Actors
  BY ThreadLifeAssumption DEF Threads, Actors
<1> TypeOK'
  BY TypeOthers
<1> pc \in [Actors -> Labels] /\ state \in [Threads -> States]
  BY DEF IInv, TypeOK
<1>1. CASE dumpThreads
  BY <1>1, BusyMoved DEF dumpThreads, signals, Busy
<1>2. CASE lockExit
  <2>1. /\ pc[Main] = "wait_exit" /\ pc'[Main] = "test_exit" /\ state'[Main] = "WAITING"
        /\ \A u \in Threads \ {Main} : state'[u] = state[u]
        /\ UNCHANGED <<listing, frames, doing, cur>> /\ Goto(Main, "test_exit")
    BY <1>2 DEF lockExit, Goto, Set, signals, loop
  <2>2. ThreadOK(Main)'
    BY <2>1 DEF IInv, ThreadOK, FramesOK, ListedOK, OpOK, listing, doing, Outside, Joining,
       Creating, Asleep
  <2>3. "test_exit" \in Labels \ {"spawn"}
    BY DEF Labels
  <2> QED
    BY <2>1, <2>2, <2>3, Moved DEF doing
<1>3. CASE testExit \/ parkExit
  <2>1. PICK l \in {"park_exit", "enable", "await_exit"} : Goto(Main, l)
    BY <1>3 DEF testExit, parkExit
  <2> QED
    BY <1>3, <2>1, BusyMoved DEF testExit, parkExit, signals, loop, Busy
<1> QED
  BY <1>1, <1>2, <1>3 DEF MainStep

(* Steps of a thread that is on the list, out of suspendLoop.              *)
LEMMA BusySteps ==
    ASSUME IInv, NEW t \in Threads,
           \/ enableSuspend(t) \/ drainStore(t) \/ (testSuspend(t) /\ ~suspend[t])
           \/ lockHeap(t) \/ leaveNative(t) \/ unlockHeap(t)
    PROVE  IInv'
<1> t \in Actors
  BY DEF Actors
<1> TypeOK'
  BY TypeSteps DEF Step
<1>1. CASE unlockHeap(t)
  <2>1. /\ pc[t] = "unlock_heap" /\ Goto(t, "run")
        /\ UNCHANGED <<listing, state, frames, doing, cur>>
    BY <1>1 DEF unlockHeap, signals, loop
  <2> QED
    BY <2>1, BusyMoved DEF Busy
<1>2. CASE ~unlockHeap(t)
  <2>1. PICK l \in {"test_suspend", "drain", "enabled", "queue", "enable"} : Goto(t, l)
    BY <1>2 DEF enableSuspend, drainStore, testSuspend, lockHeap, leaveNative
  <2>2. /\ pc[t] \in Busy \ {"dump"} /\ l \in Busy \ {"dump", "kill", "run", "unlock_heap"}
        /\ UNCHANGED <<listing, state, frames, doing, cur>>
    BY <1>2, <2>1 DEF enableSuspend, drainStore, testSuspend, lockHeap, leaveNative,
       Busy, signals, loop
  <2> QED
    BY <2>1, <2>2, BusyMoved
<1> QED
  BY <1>1, <1>2

(* Into suspendLoop, from where the signal is unblocked next, from Java    *)
(* code, or from sigsuspend; and out of it.                                *)
LEMMA SuspendLoopKeeps ==
    ASSUME IInv, NEW t \in Threads,
           \/ testSuspend(t) /\ suspend[t]
           \/ unblockSignal(t) /\ pending[t]
           \/ suspendHandler(t) \/ sigsuspend(t)
    PROVE  IInv'
<1> t \in Actors
  BY DEF Actors
<1> TypeOK'
  BY TypeSteps DEF Step
<1>1. PICK ret : /\ suspendLoop(t, ret) /\ UNCHANGED <<listing, doing, cur>>
                 /\ \/ ret = "enabled" /\ pc[t] \in {"test_suspend", "enabled", "run"}
                    \/ ret = "suspended" /\ pc[t] = "asleep"
  BY DEF testSuspend, unblockSignal, suspendHandler, sigsuspend, loop
<1>2. /\ pc \in [Actors -> Labels] /\ state \in [Threads -> States]
      /\ frames \in [Threads -> Seq([old : States, ret : {"suspended", "enabled"}])]
  BY DEF IInv, TypeOK
<1>3. PICK s : s = frames[t]
  OBVIOUS
<1>4. PICK f : f = [old |-> state[t], ret |-> ret]
  OBVIOUS
<1>5. PICK r : r = <<f>> \o s
  OBVIOUS
<1>6. /\ s \in Seq([old : States, ret : {"suspended", "enabled"}])
      /\ f \in [old : States, ret : {"suspended", "enabled"}]
      /\ f.old = state[t] /\ f.ret = ret
  BY <1>1, <1>2, <1>3, <1>4
<1>7. /\ r # <<>> /\ Len(r) = Len(s) + 1 /\ Len(s) \in Nat /\ r[1] = f
      /\ \A k \in 2..(Len(s) + 1) : r[k] = s[k - 1]
      /\ s = <<>> <=> Len(s) = 0
  BY <1>5, <1>6
<1>8. /\ frames' = [frames EXCEPT ![t] = r] /\ state' = [state EXCEPT ![t] = "SUSPENDED"]
      /\ Goto(t, "suspended")
  BY <1>1, <1>3, <1>4, <1>5 DEF suspendLoop, Set
<1>9. /\ frames'[t] = r /\ state'[t] = "SUSPENDED" /\ pc'[t] = "suspended"
      /\ \A u \in Threads \ {t} : frames'[u] = frames[u] /\ state'[u] = state[u]
  BY <1>2, <1>8 DEF Goto
<1>10. /\ s # <<>> <=> pc[t] = "asleep"
       /\ s # <<>> <=> state[t] = "SUSPENDED"
       /\ state[t] # "STARTED"
       /\ \A k \in 1..Len(s) : /\ s[k].ret = "enabled" <=> k = Len(s)
                               /\ s[k].old = "SUSPENDED" <=> k < Len(s)
                               /\ s[k].old # "STARTED"
  BY <1>1, <1>3 DEF IInv, ThreadOK, FramesOK, ListedOK, Asleep, Joining
<1>11. \A k \in 1..Len(r) : /\ r[k].ret = "enabled" <=> k = Len(r)
                            /\ r[k].old = "SUSPENDED" <=> k < Len(r)
                            /\ r[k].old # "STARTED"
  <2>1. ASSUME NEW k \in 2..(Len(s) + 1)
        PROVE  /\ r[k].ret = "enabled" <=> k = Len(r)
               /\ r[k].old = "SUSPENDED" <=> k < Len(r)
               /\ r[k].old # "STARTED"
    <3>1. k - 1 \in 1..Len(s) /\ r[k] = s[k - 1]
      BY <1>7
    <3> QED
      BY <1>7, <1>10, <3>1
  <2>2. /\ r[1].ret = "enabled" <=> 1 = Len(r)
        /\ r[1].old = "SUSPENDED" <=> 1 < Len(r)
        /\ r[1].old # "STARTED"
    BY <1>1, <1>6, <1>7, <1>10
  <2> QED
    BY <1>7, <2>1, <2>2
<1>12. FramesOK(t)'
  BY <1>7, <1>9, <1>11 DEF FramesOK, Asleep
<1>13. ListedOK(t)' /\ OpOK(t)'
  BY <1>1, <1>9 DEF IInv, ThreadOK, ListedOK, OpOK, Outside, Joining, Creating, listing, doing
<1>14. "suspended" \in Labels \ {"spawn"} /\ pc[t] # "none"
  BY <1>1 DEF Labels
<1> QED
  BY <1>1, <1>8, <1>9, <1>12, <1>13, <1>14, Moved DEF ThreadOK, doing

LEMMA Tails ==
    ASSUME NEW S, NEW s \in Seq(S), s # <<>>
    PROVE  /\ Head(s) = s[1] /\ Len(Tail(s)) = Len(s) - 1 /\ Len(s) \in Nat \ {0}
           /\ \A k \in 1..(Len(s) - 1) : Tail(s)[k] = s[k + 1]
           /\ Tail(s) = <<>> <=> Len(s) = 1
           /\ s[1] \in S
<1>1. Len(s) \in Nat \ {0} /\ s[1] \in S /\ Head(s) = s[1]
  OBVIOUS
<1>2. Tail(s) \in Seq(S) /\ Len(Tail(s)) = Len(s) - 1
  OBVIOUS
<1>3. \A k \in 1..(Len(s) - 1) : Tail(s)[k] = s[k + 1]
  OBVIOUS
<1>4. ASSUME NEW r \in Seq(S) PROVE r = <<>> <=> Len(r) = 0
  BY <1>4
<1>5. Tail(s) = <<>> <=> Len(Tail(s)) = 0
  BY <1>2, <1>4
<1> QED
  BY <1>1, <1>2, <1>3, <1>5

LEMMA SuspendedKeeps ==
    ASSUME IInv, NEW t \in Threads, suspended(t) \/ (unblockSignal(t) /\ ~pending[t])
    PROVE  IInv'
<1> t \in Actors
  BY DEF Actors
<1> TypeOK'
  BY TypeSteps DEF Step
<1>1. /\ pc \in [Actors -> Labels] /\ state \in [Threads -> States]
      /\ frames \in [Threads -> Seq([old : States, ret : {"suspended", "enabled"}])]
      /\ op \in [Threads -> {"run", "native", "alloc", "gc", "create", "exit", "wait"}]
      /\ child \in [Threads -> Spawned \cup {Nil}]
  BY DEF IInv, TypeOK
<1>2. CASE suspended(t) /\ suspend[t]
  <2>1. /\ Goto(t, "asleep") /\ pc[t] = "suspended" /\ pc'[t] = "asleep"
        /\ UNCHANGED <<listing, state, frames, doing, cur>>
    BY <1>1, <1>2 DEF suspended, Goto, loop
  <2>2. ThreadOK(t)'
    BY <2>1 DEF IInv, ThreadOK, FramesOK, ListedOK, OpOK, Outside, Joining, Creating,
       Asleep, listing, doing
  <2>3. "asleep" \in Labels \ {"spawn"}
    BY DEF Labels
  <2> QED
    BY <2>1, <2>2, <2>3, Moved DEF doing
<1>3. CASE suspended(t) /\ ~suspend[t]
  <2>1. PICK s : s = frames[t]
    OBVIOUS
  <2>2. /\ s # <<>> /\ s \in Seq([old : States, ret : {"suspended", "enabled"}])
        /\ pc[t] = "suspended"
        /\ \A k \in 1..Len(s) : /\ s[k].ret = "enabled" <=> k = Len(s)
                                /\ s[k].old = "SUSPENDED" <=> k < Len(s)
                                /\ s[k].old # "STARTED"
    BY <1>1, <1>3, <2>1 DEF IInv, ThreadOK, FramesOK, Asleep, suspended
  <2>3. PICK r : r = Tail(s)
    OBVIOUS
  <2>4. /\ Head(s) = s[1] /\ Len(r) = Len(s) - 1 /\ Len(s) \in Nat \ {0}
        /\ \A k \in 1..(Len(s) - 1) : r[k] = s[k + 1]
        /\ r = <<>> <=> Len(s) = 1
        /\ s[1] \in [old : States, ret : {"suspended", "enabled"}]
    BY <2>2, <2>3, Tails
  <2>5. s[1].old \in States /\ s[1].ret \in {"suspended", "enabled"}
    BY <2>4
  <2>6. /\ Goto(t, s[1].ret) /\ pc'[t] = s[1].ret
        /\ frames'[t] = r /\ state'[t] = s[1].old
        /\ \A u \in Threads \ {t} : frames'[u] = frames[u] /\ state'[u] = state[u]
        /\ UNCHANGED <<listing, doing, cur>>
    BY <1>1, <1>3, <2>1, <2>3, <2>4 DEF suspended, Goto, Set, loop
  <2>7. \A k \in 1..Len(r) : /\ r[k].ret = "enabled" <=> k = Len(r)
                             /\ r[k].old = "SUSPENDED" <=> k < Len(r)
                             /\ r[k].old # "STARTED"
    <3>1. ASSUME NEW k \in 1..(Len(s) - 1)
          PROVE  /\ r[k].ret = "enabled" <=> k = Len(r)
                 /\ r[k].old = "SUSPENDED" <=> k < Len(r)
                 /\ r[k].old # "STARTED"
      <4>1. k + 1 \in 1..Len(s) /\ r[k] = s[k + 1]
        BY <2>4
      <4> QED
        BY <2>2, <2>4, <4>1
    <3> QED
      BY <2>4, <3>1
  <2>8. /\ r # <<>> <=> s[1].ret = "suspended"
        /\ r # <<>> <=> s[1].old = "SUSPENDED"
        /\ s[1].old # "STARTED"
    BY <2>2, <2>4, <2>5
  <2>9. FramesOK(t)'
    BY <2>5, <2>6, <2>7, <2>8 DEF FramesOK, Asleep
  <2>10. ListedOK(t)' /\ OpOK(t)'
    BY <2>2, <2>5, <2>6, <2>8 DEF IInv, ThreadOK, ListedOK, OpOK, Outside, Joining, Creating,
       listing, doing
  <2>11. s[1].ret \in Labels \ {"spawn", "kill"} /\ pc[t] # "none"
    BY <2>2, <2>5 DEF Labels
  <2> QED
    BY <2>6, <2>9, <2>10, <2>11, Moved DEF ThreadOK, doing
<1>4. CASE unblockSignal(t) /\ ~pending[t]
  <2>1. PICK l : /\ l = CASE op[t] = "exit" -> "freed"
                          [] op[t] = "wait" -> "exited"
                          [] op[t] = "alloc" -> "unlock_heap"
                          [] OTHER -> "run"
                 /\ Goto(t, l) /\ pc[t] = "enabled"
    BY <1>4 DEF unblockSignal
  <2>2. /\ l \in {"freed", "exited", "unlock_heap", "run"}
        /\ l = "freed" <=> op[t] = "exit"
    BY <2>1
  <2>3. /\ op'[t] = "run" /\ pc'[t] = l /\ child'[t] = Nil
        /\ \A u \in Threads \ {t} : op'[u] = op[u] /\ child'[u] = child[u]
        /\ UNCHANGED <<state, frames, listing, cur>>
    BY <1>1, <1>4, <2>1 DEF unblockSignal, Set, Goto, loop
  <2>4. ThreadOK(t)'
    BY <2>1, <2>2, <2>3 DEF IInv, ThreadOK, FramesOK, ListedOK, OpOK, Outside, Joining,
       Creating, Asleep, listing
  <2>5. l \in Labels \ {"spawn", "kill"} /\ pc[t] # "none"
    BY <2>1, <2>2 DEF Labels
  <2> QED
    BY <2>1, <2>3, <2>4, <2>5, Moved
<1> QED
  BY <1>2, <1>3, <1>4

(* Java code begins or ends something.                                     *)
LEMMA BeginKeeps ==
    ASSUME IInv, NEW t \in Threads, Begin(t) \/ End(t) \/ disabled(t)
    PROVE  IInv'
<1> t \in Actors
  BY DEF Actors
<1> TypeOK'
  BY TypeSteps DEF Step
<1>1. /\ pc \in [Actors -> Labels] /\ state \in [Threads -> States]
      /\ op \in [Threads -> {"run", "native", "alloc", "gc", "create", "exit", "wait"}]
      /\ child \in [Threads -> Spawned \cup {Nil}]
  BY DEF IInv, TypeOK
<1>2. CASE Begin(t) \/ End(t)
  <2>1. PICK o \in {"native", "alloc", "gc", "create", "exit", "wait"},
              c \in Spawned \cup {Nil} :
           /\ disableSuspend(t, o, c)
           /\ o = "create" => c \in Spawned \ Internal
           /\ o = "exit" => t # Main
    BY <1>2 DEF Begin, End
  <2>2. /\ pc[t] = "run" /\ pc'[t] = "disable" /\ Goto(t, "disable")
        /\ op'[t] = o /\ child'[t] = c
        /\ \A u \in Threads \ {t} : op'[u] = op[u] /\ child'[u] = child[u]
        /\ UNCHANGED <<listing, frames, cur>>
    BY <1>1, <2>1 DEF disableSuspend, Goto, Set, loop
  <2>3. /\ state'[t] = state[t] \/ state'[t] = "CREATING"
        /\ \A u \in Threads \ {t} : state'[u] = state[u]
    BY <1>1, <1>2 DEF Begin, End, Set
  <2>4. ThreadOK(t)'
    <3>1. ThreadOK(t)
      BY DEF IInv
    <3>2. frames[t] = <<>> /\ state[t] # "SUSPENDED" /\ state[t] # "STARTED" /\ t \in list
      BY <2>2, <3>1 DEF ThreadOK, FramesOK, ListedOK, OpOK, Asleep, Joining, Outside
    <3>3. /\ frames'[t] = <<>> /\ state'[t] # "SUSPENDED" /\ state'[t] # "STARTED"
          /\ t \in list'
      BY <2>2, <2>3, <3>2 DEF listing
    <3>4. FramesOK(t)'
      BY <2>2, <3>3 DEF FramesOK, Asleep
    <3>5. ListedOK(t)'
      BY <2>2, <3>3 DEF ListedOK, Outside, Joining
    <3>6. OpOK(t)'
      BY <2>1, <2>2 DEF OpOK, Creating
    <3> QED
      BY <3>4, <3>5, <3>6 DEF ThreadOK
  <2>5. "disable" \in Labels \ {"spawn"}
    BY DEF Labels
  <2> QED
    BY <2>2, <2>3, <2>4, <2>5, Moved
<1>3. CASE disabled(t)
  <2>1. PICK l : l = First[op[t]] /\ Goto(t, l) /\ pc[t] = "disable"
    BY <1>3 DEF disabled
  <2>2. op[t] # "run"
    BY <2>1 DEF IInv, ThreadOK, OpOK
  <2>3. /\ l \in {"native", "heap", "create", "leave", "wait_exit"}
        /\ l = "create" <=> op[t] = "create"
        /\ l = "leave" <=> op[t] = "exit"
    BY <1>1, <2>1, <2>2 DEF First
  <2>4. pc'[t] = l /\ UNCHANGED <<listing, state, frames, doing, cur>>
    BY <1>1, <1>3, <2>1 DEF disabled, Goto, signals, loop
  <2>5. ThreadOK(t)'
    BY <2>1, <2>3, <2>4 DEF IInv, ThreadOK, FramesOK, ListedOK, OpOK, Outside, Joining,
       Creating, Asleep, listing, doing
  <2>6. l \in Labels \ {"spawn", "kill"}
    BY <2>3 DEF Labels
  <2> QED
    BY <2>1, <2>4, <2>5, <2>6, Moved DEF doing
<1> QED
  BY <1>2, <1>3

-----------------------------------------------------------------------------
(* A thread that the broadcast wakes, or does not concern.                 *)
Woken(u) ==
    /\ \/ pc'[u] = pc[u]
       \/ pc[u] = "await_started" /\ pc'[u] = "handshake"
       \/ pc[u] = "await_running" /\ pc'[u] = "started"
    /\ state'[u] = state[u] /\ frames'[u] = frames[u]
    /\ op'[u] = op[u] /\ child'[u] = child[u] /\ (u \in list' <=> u \in list)

LEMMA Broadcasts ==
    ASSUME NEW t \in Actors, NEW l, Broadcast(t, l), pc[t] \in {"start", "handshake"}
    PROVE  /\ pc'[t] = l
           /\ \A u \in Actors \ {t} : \/ pc'[u] = pc[u]
                                      \/ pc[u] = "await_started" /\ pc'[u] = "handshake"
                                      \/ pc[u] = "await_running" /\ pc'[u] = "started"
<1>1. ASSUME NEW u \in Actors
      PROVE  pc'[u] = CASE u = t -> l
                        [] pc[u] = "await_started" -> "handshake"
                        [] pc[u] = "await_running" -> "started"
                        [] OTHER -> pc[u]
  BY DEF Broadcast
<1>2. ASSUME NEW u \in Actors \ {t}
      PROVE  \/ pc'[u] = pc[u]
             \/ pc[u] = "await_started" /\ pc'[u] = "handshake"
             \/ pc[u] = "await_running" /\ pc'[u] = "started"
  BY <1>1
<1>3. pc'[t] = l
  BY <1>1
<1> QED
  BY <1>2, <1>3

LEMMA WokenStays ==
    ASSUME NEW u, ThreadOK(u), Woken(u)
    PROVE  ThreadOK(u)'
<1>1. CASE pc'[u] = pc[u]
  BY <1>1, SameStays DEF Woken, Same
<1>2. CASE pc'[u] # pc[u]
  <2>1. FramesOK(u)'
    BY <1>2 DEF ThreadOK, FramesOK, Woken, Asleep
  <2>2. ListedOK(u)'
    BY <1>2 DEF ThreadOK, ListedOK, Woken, Outside, Joining
  <2>3. OpOK(u)'
    BY <1>2 DEF ThreadOK, OpOK, Woken, Creating
  <2> QED
    BY <2>1, <2>2, <2>3 DEF ThreadOK
<1> QED
  BY <1>1, <1>2

(* Claims are kept while no Thread object is claimed or given up.          *)
LEMMA ObjectsStay ==
    ASSUME IInv,
           \A u \in Threads : pc'[u] = "spawn" => pc[u] = "spawn" /\ child'[u] = child[u],
           \A c \in Spawned \ Internal : pc[c] = "none" => pc'[c] = "none",
           \A c \in Spawned \ Internal :
              vmData'[c] = vmData[c] \/ (vmData'[c] # "null" /\ pc[c] # "none")
    PROVE  ObjectsOK'
<1>1. \A u \in Threads : pc[u] = "spawn" => child[u] \in Spawned \ Internal
  BY DEF IInv, ThreadOK, OpOK, Creating
<1>2. \A c \in Spawned \ Internal : vmData'[c] = "null" => pc'[c] = "none"
  BY DEF IInv, ObjectsOK
<1>3. ASSUME NEW u \in Threads, pc'[u] = "spawn"
      PROVE  vmData'[child'[u]] = "thread" /\ pc'[child'[u]] = "none"
  <2>1. /\ child'[u] = child[u] /\ child[u] \in Spawned \ Internal
        /\ vmData[child[u]] = "thread" /\ pc[child[u]] = "none"
    BY <1>1, <1>3 DEF IInv, ObjectsOK
  <2> QED
    BY <2>1
<1>4. ASSUME NEW u \in Threads, NEW v \in Threads, pc'[u] = "spawn", pc'[v] = "spawn",
             child'[u] = child'[v]
      PROVE  u = v
  BY <1>4 DEF IInv, ObjectsOK
<1> QED
  BY <1>2, <1>3, <1>4 DEF ObjectsOK

(* createJavaThread: the Thread object is claimed, or was before.          *)
LEMMA ClaimKeeps ==
    ASSUME IInv, NEW t \in Threads, createJavaThread(t)
    PROVE  IInv'
<1> t \in Actors /\ Threads \subseteq Actors /\ Spawned \subseteq Threads
  BY DEF Actors, Threads
<1> TypeOK'
  BY TypeSteps DEF Step
<1>1. pc \in [Actors -> Labels] /\ vmData \in [Spawned -> {"null", "thread", "dead"}]
  BY DEF IInv, TypeOK
<1>2. PICK c : c = child[t]
  OBVIOUS
<1>3. /\ pc[t] = "create" /\ c \in Spawned \ Internal
      /\ UNCHANGED <<list, non_daemon_thrds, state, frames, doing, cur>>
  BY <1>2 DEF createJavaThread, IInv, ThreadOK, OpOK, Creating, signals, loop
<1>4. ASSUME NEW l \in {"spawn", "enable"}, Goto(t, l) PROVE ThreadOK(t)'
  <2>1. pc'[t] = l
    BY <1>1, <1>4 DEF Goto
  <2> QED
    BY <1>3, <2>1 DEF IInv, ThreadOK, FramesOK, ListedOK, OpOK, Outside, Joining, Creating,
       Asleep, doing
<1>5. CASE vmData[c] # "null"
  <2>1. Goto(t, "enable") /\ UNCHANGED listing
    BY <1>2, <1>3, <1>5 DEF createJavaThread, listing
  <2>2. "enable" \in Labels \ {"spawn", "kill"}
    BY DEF Labels
  <2> QED
    BY <1>3, <1>4, <2>1, <2>2, Moved DEF doing
<1>6. CASE vmData[c] = "null"
  <2>1. Goto(t, "spawn") /\ vmData' = [vmData EXCEPT ![c] = "thread"]
    BY <1>2, <1>6 DEF createJavaThread, Set
  <2>2. /\ pc'[t] = "spawn" /\ \A b \in Actors \ {t} : pc'[b] = pc[b]
        /\ vmData'[c] = "thread" /\ \A d \in Spawned \ {c} : vmData'[d] = vmData[d]
    BY <1>1, <1>3, <2>1 DEF Goto
  <2>3. pc[c] = "none" /\ c # t
    BY <1>3, <1>6 DEF IInv, ObjectsOK
  <2>4. \A u \in Threads : ThreadOK(u)'
    <3>1. \A u \in Threads \ {t} : Same(u)
      BY <1>3, <2>2 DEF Same, doing
    <3> QED
      BY <1>4, <2>1, <3>1, SameStays DEF IInv
  <2>5. KillOK' /\ NonDaemonsAreCounted'
    BY <1>3, <2>2 DEF IInv, KillOK, NonDaemonsAreCounted
  <2>6. ObjectsOK'
    <3>1. \A u \in Threads \ {t} :
             pc'[u] = "spawn" => /\ vmData[child[u]] = "thread" /\ pc[child[u]] = "none"
                                 /\ child[u] \in Spawned \ Internal
      BY <2>2 DEF IInv, ObjectsOK, ThreadOK, OpOK, Creating
    <3>2. \A u \in Threads \ {t} : pc'[u] = "spawn" => child[u] # c /\ child[u] # t
      BY <1>3, <1>6, <3>1
    <3>3. child' = child
      BY <1>3 DEF doing
    <3>4. \A d \in Spawned \ Internal : vmData'[d] = "null" => pc'[d] = "none"
      BY <1>3, <2>2 DEF IInv, ObjectsOK
    <3>5. \A u \in Threads : pc'[u] = "spawn" => /\ vmData'[child'[u]] = "thread"
                                                 /\ pc'[child'[u]] = "none"
      <4>1. c \in Actors /\ pc'[c] = "none" /\ child'[t] = c
        BY <1>2, <1>3, <2>2, <2>3, <3>3
      <4>2. ASSUME NEW u \in Threads \ {t}, pc'[u] = "spawn"
            PROVE  vmData'[child'[u]] = "thread" /\ pc'[child'[u]] = "none"
        <5>1. child'[u] = child[u] /\ child[u] \in Spawned \ {c} /\ child[u] \in Actors \ {t}
          BY <3>1, <3>2, <3>3, <4>2
        <5> QED
          BY <2>2, <3>1, <4>2, <5>1
      <4> QED
        BY <2>2, <4>1, <4>2
    <3>6. \A u, v \in Threads :
             pc'[u] = "spawn" /\ pc'[v] = "spawn" /\ child'[u] = child'[v] => u = v
      BY <1>2, <2>2, <3>2, <3>3 DEF IInv, ObjectsOK
    <3> QED
      BY <3>4, <3>5, <3>6 DEF ObjectsOK
  <2> QED
    BY <2>4, <2>5, <2>6 DEF IInv
<1> QED
  BY <1>5, <1>6

(* pthread_create: the new thread starts, or the claim is given up.        *)
LEMMA SpawnKeeps ==
    ASSUME IInv, NEW t \in Threads, pthread_create(t)
    PROVE  IInv'
<1> t \in Actors /\ Threads \subseteq Actors /\ Spawned \subseteq Threads
  BY DEF Actors, Threads
<1> TypeOK'
  BY TypeSteps DEF Step
<1>1. pc \in [Actors -> Labels] /\ vmData \in [Spawned -> {"null", "thread", "dead"}]
  BY DEF IInv, TypeOK
<1>2. PICK c : c = child[t]
  OBVIOUS
<1>3. /\ pc[t] = "spawn" /\ c \in Spawned \ Internal
      /\ UNCHANGED <<list, non_daemon_thrds, state, frames, doing, cur>>
  BY <1>2 DEF pthread_create, IInv, ThreadOK, OpOK, Creating, signals, loop
<1>4. pc[c] = "none" /\ c # t
  BY <1>2, <1>3 DEF IInv, ObjectsOK
<1>5. \A u \in Threads \ {t} :
         pc[u] = "spawn" => /\ vmData[child[u]] = "thread" /\ pc[child[u]] = "none"
                            /\ child[u] \in Spawned \ Internal /\ child[u] # c /\ child[u] # t
  BY <1>2, <1>3 DEF IInv, ObjectsOK, ThreadOK, OpOK, Creating
<1>6. /\ \/ pc'[t] = "handshake" /\ pc'[c] = "start" /\ vmData'[c] = vmData[c]
         \/ pc'[t] = "enable" /\ pc'[c] = "none" /\ vmData'[c] = "null"
      /\ \A b \in Actors \ {t, c} : pc'[b] = pc[b]
      /\ \A d \in Spawned \ {c} : vmData'[d] = vmData[d]
  <2>1. CASE pc' = [pc EXCEPT ![t] = "handshake", ![c] = "start"] /\ UNCHANGED vmData
    <3>1. c \in Actors
      BY <1>3
    <3> QED
      BY <1>1, <1>4, <2>1, <3>1
  <2>2. CASE Goto(t, "enable") /\ vmData' = [vmData EXCEPT ![c] = "null"]
    BY <1>1, <1>3, <1>4, <2>2 DEF Goto
  <2> QED
    BY <1>2, <2>1, <2>2 DEF pthread_create, Set
<1>7. \A u \in Threads : ThreadOK(u)'
  <2>1. \A u \in Threads \ {t, c} : Same(u)
    BY <1>3, <1>6 DEF Same, doing
  <2>2. ThreadOK(t)'
    <3>1. ThreadOK(t) /\ pc'[t] \in {"handshake", "enable"}
      BY <1>6 DEF IInv
    <3> QED
      BY <1>3, <3>1 DEF ThreadOK, FramesOK, ListedOK, OpOK, Outside, Joining, Creating,
         Asleep, doing
  <2>3. ThreadOK(c)'
    <3>1. ThreadOK(c) /\ pc'[c] \in {"start", "none"}
      BY <1>3, <1>6 DEF IInv
    <3> QED
      BY <1>3, <1>4, <3>1 DEF ThreadOK, FramesOK, ListedOK, OpOK, Outside, Joining, Creating,
         Asleep, doing
  <2> QED
    BY <2>1, <2>2, <2>3, SameStays DEF IInv
<1>8. KillOK' /\ NonDaemonsAreCounted'
  <2>1. \A b \in Actors : pc'[b] = "kill" => pc[b] = "kill"
    BY <1>3, <1>6
  <2> QED
    BY <1>3, <2>1 DEF IInv, KillOK, NonDaemonsAreCounted
<1>9. ObjectsOK'
  <2>1. child' = child /\ c \in Actors
    BY <1>3 DEF doing
  <2>2. \A u \in Threads : pc'[u] = "spawn" => u # t /\ u # c /\ pc[u] = "spawn"
    BY <1>6
  <2>3. \A d \in Spawned \ Internal : vmData'[d] = "null" => pc'[d] = "none"
    <3> SUFFICES ASSUME NEW d \in Spawned \ Internal, vmData'[d] = "null"
                 PROVE  pc'[d] = "none"
      OBVIOUS
    <3>1. CASE d = c
      <4>1. vmData[c] = "thread"
        BY <1>2, <1>3 DEF IInv, ObjectsOK
      <4> QED
        BY <1>6, <3>1, <4>1
    <3>2. CASE d # c
      <4>1. pc[d] = "none"
        BY <1>6, <3>2 DEF IInv, ObjectsOK
      <4> QED
        BY <1>3, <1>6, <3>2, <4>1
    <3> QED
      BY <3>1, <3>2
  <2>4. \A u \in Threads : pc'[u] = "spawn" => /\ vmData'[child'[u]] = "thread"
                                               /\ pc'[child'[u]] = "none"
    BY <1>5, <1>6, <2>1, <2>2
  <2>5. \A u, v \in Threads :
           pc'[u] = "spawn" /\ pc'[v] = "spawn" /\ child'[u] = child'[v] => u = v
    BY <2>1, <2>2 DEF IInv, ObjectsOK
  <2> QED
    BY <2>3, <2>4, <2>5 DEF ObjectsOK
<1> QED
  BY <1>7, <1>8, <1>9 DEF IInv


(* The list grows by one thread, or shrinks by one.                        *)
LEMMA CountAdded ==
    ASSUME IInv, NEW c \in Threads \ {Main}, c \notin list, list' = list \cup {c},
           non_daemon_thrds' = non_daemon_thrds + (IF c \in Daemons THEN 0 ELSE 1)
    PROVE  NonDaemonsAreCounted'
<1>1. IsFiniteSet(list \ (Daemons \cup {Main}))
  <2>1. IsFiniteSet(Threads)
    BY ThreadLifeAssumption, FS_AddElement DEF Threads
  <2> QED
    BY <2>1, FS_Subset DEF IInv, TypeOK
<1>2. CASE c \in Daemons
  <2>1. list' \ (Daemons \cup {Main}) = list \ (Daemons \cup {Main})
    BY <1>2
  <2>2. non_daemon_thrds' = non_daemon_thrds
    BY <1>2 DEF IInv, TypeOK
  <2> QED
    BY <2>1, <2>2 DEF IInv, NonDaemonsAreCounted
<1>3. CASE c \notin Daemons
  <2>1. list' \ (Daemons \cup {Main}) = (list \ (Daemons \cup {Main})) \cup {c}
    BY <1>3
  <2>2. Cardinality((list \ (Daemons \cup {Main})) \cup {c})
        = Cardinality(list \ (Daemons \cup {Main})) + 1
    BY <1>1, FS_AddElement
  <2> QED
    BY <1>3, <2>1, <2>2 DEF IInv, NonDaemonsAreCounted
<1> QED
  BY <1>2, <1>3

LEMMA CountRemoved ==
    ASSUME IInv, NEW c \in list \ {Main}, list' = list \ {c},
           non_daemon_thrds' = non_daemon_thrds - (IF c \in Daemons THEN 0 ELSE 1)
    PROVE  NonDaemonsAreCounted'
<1>1. IsFiniteSet(list \ (Daemons \cup {Main}))
  <2>1. IsFiniteSet(Threads)
    BY ThreadLifeAssumption, FS_AddElement DEF Threads
  <2> QED
    BY <2>1, FS_Subset DEF IInv, TypeOK
<1>2. CASE c \in Daemons
  <2>1. list' \ (Daemons \cup {Main}) = list \ (Daemons \cup {Main})
    BY <1>2
  <2>2. non_daemon_thrds' = non_daemon_thrds
    BY <1>2 DEF IInv, TypeOK
  <2> QED
    BY <2>1, <2>2 DEF IInv, NonDaemonsAreCounted
<1>3. CASE c \notin Daemons
  <2>1. list' \ (Daemons \cup {Main}) = (list \ (Daemons \cup {Main})) \ {c}
    BY <1>3
  <2>2. Cardinality((list \ (Daemons \cup {Main})) \ {c})
        = Cardinality(list \ (Daemons \cup {Main})) - 1
    BY <1>1, <1>3, FS_RemoveElement
  <2> QED
    BY <1>3, <2>1, <2>2 DEF IInv, NonDaemonsAreCounted
<1> QED
  BY <1>2, <1>3

(* addToList: the creator waits for its thread to have started, and puts   *)
(* it on the list.                                                         *)
LEMMA AddKeeps ==
    ASSUME IInv, NEW t \in Threads, addToList(t)
    PROVE  IInv'
<1> t \in Actors /\ Threads \subseteq Actors /\ Spawned \subseteq Threads
  BY DEF Actors, Threads
<1> TypeOK'
  BY TypeSteps DEF Step
<1>1. /\ pc \in [Actors -> Labels] /\ state \in [Threads -> States]
      /\ non_daemon_thrds \in Int
  BY DEF IInv, TypeOK
<1>2. PICK c : c = child[t]
  OBVIOUS
<1>3. /\ pc[t] = "handshake" /\ c \in Spawned \ Internal /\ op[t] = "create"
      /\ UNCHANGED <<vmData, frames, doing, cur>>
  BY <1>2 DEF addToList, IInv, ThreadOK, OpOK, Creating, signals, loop
<1>4. CASE state[c] # "STARTED"
  <2>1. Goto(t, "await_started") /\ UNCHANGED <<listing, state>>
    BY <1>2, <1>3, <1>4 DEF addToList, listing
  <2>2. "await_started" \in Labels \ {"spawn", "kill"} /\ pc'[t] = "await_started"
    BY <1>1, <2>1 DEF Labels, Goto
  <2>3. ThreadOK(t)'
    BY <1>3, <2>1, <2>2 DEF IInv, ThreadOK, FramesOK, ListedOK, OpOK, Outside, Joining,
       Creating, Asleep, doing, listing
  <2> QED
    BY <1>3, <2>1, <2>2, <2>3, Moved DEF doing
<1>5. CASE state[c] = "STARTED"
  <2>1. /\ list' = list \cup {c} /\ state' = [state EXCEPT ![c] = "RUNNING"]
        /\ non_daemon_thrds' = non_daemon_thrds + (IF c \in Daemons THEN 0 ELSE 1)
        /\ Broadcast(t, "enable")
    BY <1>2, <1>5 DEF addToList, Set
  <2>2. pc[c] \in Joining /\ c \notin list /\ op[c] = "run" /\ frames[c] = <<>>
    <3>1. ThreadOK(c)
      BY <1>3 DEF IInv
    <3> QED
      BY <1>5, <3>1 DEF ThreadOK, ListedOK, FramesOK, Joining, Asleep
  <2>3. c # t /\ c # Main
    BY <1>3, <2>2, ThreadLifeAssumption DEF Joining
  <2>4. NonDaemonsAreCounted'
    BY <1>3, <2>1, <2>2, <2>3, CountAdded
  <2>5. /\ pc'[t] = "enable"
        /\ \A u \in Actors \ {t} : \/ pc'[u] = pc[u]
                                   \/ pc[u] = "await_started" /\ pc'[u] = "handshake"
                                   \/ pc[u] = "await_running" /\ pc'[u] = "started"
    BY <1>3, <2>1, Broadcasts
  <2>6. state'[c] = "RUNNING" /\ \A u \in Threads \ {c} : state'[u] = state[u]
    BY <1>1, <1>3, <2>1
  <2>7. \A u \in Threads : ThreadOK(u)'
    <3>1. \A u \in Threads \ {t, c} : Woken(u)
      BY <1>3, <2>1, <2>5, <2>6 DEF Woken, doing
    <3>2. ThreadOK(t)'
      <4>1. ThreadOK(t)
        BY DEF IInv
      <4> QED
        BY <1>3, <2>1, <2>3, <2>5, <2>6, <4>1 DEF ThreadOK, FramesOK, ListedOK, OpOK, Outside,
           Joining, Creating, Asleep, doing
    <3>3. ThreadOK(c)'
      <4>1. ThreadOK(c) /\ pc'[c] \in Joining
        BY <1>3, <2>2, <2>3, <2>5 DEF IInv, Joining
      <4>2. FramesOK(c)'
        BY <1>3, <2>2, <2>6, <4>1 DEF FramesOK, Asleep, Joining
      <4>3. ListedOK(c)' /\ OpOK(c)'
        BY <1>3, <2>1, <2>2, <2>6, <4>1 DEF ListedOK, OpOK, Outside, Joining, Creating, doing
      <4> QED
        BY <4>2, <4>3 DEF ThreadOK
    <3> QED
      BY <3>1, <3>2, <3>3, WokenStays DEF IInv
  <2>8. KillOK'
    BY <1>3, <2>5 DEF IInv, KillOK
  <2>9. ObjectsOK'
    <3>1. \A u \in Threads : pc'[u] = "spawn" => pc[u] = "spawn" /\ child'[u] = child[u]
      BY <1>3, <2>5 DEF doing
    <3>2. \A d \in Spawned \ Internal : pc[d] = "none" => pc'[d] = "none"
      BY <1>3, <2>5
    <3>3. vmData' = vmData
      BY <1>3
    <3> QED
      BY <3>1, <3>2, <3>3, ObjectsStay
  <2> QED
    BY <2>4, <2>7, <2>8, <2>9 DEF IInv
<1> QED
  BY <1>4, <1>5

(* threadStart: the new thread says that it has started, and waits until   *)
(* its creator has listed it.                                              *)
LEMMA StartKeeps ==
    ASSUME IInv, NEW t \in Threads, threadStart(t)
    PROVE  IInv'
<1> t \in Actors /\ Threads \subseteq Actors /\ Spawned \subseteq Threads
  BY DEF Actors, Threads
<1> TypeOK'
  BY TypeSteps DEF Step
<1>1. /\ pc \in [Actors -> Labels] /\ state \in [Threads -> States]
  BY DEF IInv, TypeOK
<1>2. /\ pc[t] = "start" /\ UNCHANGED <<listing, frames, doing, cur>>
      /\ state' = [state EXCEPT ![t] = "STARTED"] /\ Broadcast(t, "await_running")
  BY DEF threadStart, Set, loop
<1>3. /\ pc'[t] = "await_running"
      /\ \A u \in Actors \ {t} : \/ pc'[u] = pc[u]
                                 \/ pc[u] = "await_started" /\ pc'[u] = "handshake"
                                 \/ pc[u] = "await_running" /\ pc'[u] = "started"
  BY <1>2, Broadcasts
<1>4. state'[t] = "STARTED" /\ \A u \in Threads \ {t} : state'[u] = state[u]
  BY <1>1, <1>2
<1>5. \A u \in Threads : ThreadOK(u)'
  <2>1. \A u \in Threads \ {t} : Woken(u)
    BY <1>2, <1>3, <1>4 DEF Woken, doing, listing
  <2>2. ThreadOK(t)'
    <3>1. ThreadOK(t) /\ op[t] = "run" /\ t \notin list /\ frames[t] = <<>>
      BY <1>2 DEF IInv, ThreadOK, FramesOK, ListedOK, Outside, Asleep
    <3>2. FramesOK(t)'
      BY <1>2, <1>3, <1>4, <3>1 DEF FramesOK, Asleep
    <3>3. ListedOK(t)' /\ OpOK(t)'
      BY <1>2, <1>3, <1>4, <3>1 DEF ListedOK, OpOK, Outside, Joining, Creating, doing, listing
    <3> QED
      BY <3>2, <3>3 DEF ThreadOK
  <2> QED
    BY <2>1, <2>2, WokenStays DEF IInv
<1>6. KillOK' /\ NonDaemonsAreCounted'
  BY <1>2, <1>3 DEF IInv, KillOK, NonDaemonsAreCounted, listing
<1>7. ObjectsOK'
  <2>1. \A u \in Threads : pc'[u] = "spawn" => pc[u] = "spawn" /\ child'[u] = child[u]
    BY <1>2, <1>3 DEF doing
  <2>2. \A d \in Spawned \ Internal : pc[d] = "none" => pc'[d] = "none"
    BY <1>2, <1>3
  <2>3. vmData' = vmData
    BY <1>2 DEF listing
  <2> QED
    BY <2>1, <2>2, <2>3, ObjectsStay
<1> QED
  BY <1>5, <1>6, <1>7 DEF IInv


(* threadStarted, and steps that let a thread of the VM in.                *)
LEMMA StartedKeeps ==
    ASSUME IInv, NEW t \in Threads, threadStarted(t)
    PROVE  IInv'
<1> t \in Actors
  BY DEF Actors
<1> TypeOK'
  BY TypeSteps DEF Step
<1>1. PICK l \in {"enable", "await_running"} :
         Goto(t, l) /\ l = IF state[t] = "RUNNING" THEN "enable" ELSE "await_running"
  BY DEF threadStarted
<1>2. /\ pc[t] = "started" /\ UNCHANGED <<listing, state, frames, doing, cur>>
      /\ pc'[t] = l
  BY <1>1 DEF threadStarted, Goto, signals, loop, IInv, TypeOK
<1>3. ThreadOK(t)'
  <2>1. ThreadOK(t)
    BY DEF IInv
  <2> QED
    BY <1>1, <1>2, <2>1 DEF ThreadOK, FramesOK, ListedOK, OpOK, Outside, Joining, Creating,
       Asleep, doing, listing
<1>4. l \in Labels \ {"spawn", "kill"} /\ pc[t] # "none"
  BY <1>2 DEF Labels
<1> QED
  BY <1>1, <1>2, <1>3, <1>4, Moved DEF doing

LEMMA CreateVMKeeps ==
    ASSUME IInv, NEW c \in Internal, createVMThread(c)
    PROVE  IInv'
<1> c \in Threads /\ Threads \subseteq Actors /\ Spawned \subseteq Threads
  BY ThreadLifeAssumption DEF Actors, Threads
<1> TypeOK'
  BY TypeOthers
<1>1. /\ pc \in [Actors -> Labels] /\ state \in [Threads -> States]
  BY DEF IInv, TypeOK
<1>2. /\ pc[c] = "none" /\ pc'[c] = "attach" /\ state'[c] = "RUNNING"
      /\ \A u \in Actors \ {c} : pc'[u] = pc[u]
      /\ \A u \in Threads \ {c} : state'[u] = state[u]
      /\ UNCHANGED <<listing, frames, doing, cur>>
  BY <1>1 DEF createVMThread, Goto, Set, signals, loop
<1>3. \A u \in Threads : ThreadOK(u)'
  <2>1. \A u \in Threads \ {c} : Same(u)
    BY <1>2 DEF Same, doing, listing
  <2>2. ThreadOK(c)'
    <3>1. ThreadOK(c)
      BY DEF IInv
    <3> QED
      BY <1>2, <3>1 DEF ThreadOK, FramesOK, ListedOK, OpOK, Outside, Joining, Creating,
         Asleep, doing, listing
  <2> QED
    BY <2>1, <2>2, SameStays DEF IInv
<1>4. KillOK' /\ NonDaemonsAreCounted'
  BY <1>2 DEF IInv, KillOK, NonDaemonsAreCounted, listing
<1>5. ObjectsOK'
  <2>1. \A u \in Threads : pc'[u] = "spawn" => pc[u] = "spawn" /\ child'[u] = child[u]
    BY <1>2 DEF doing
  <2>2. \A d \in Spawned \ Internal : pc[d] = "none" => pc'[d] = "none"
    BY <1>2
  <2>3. vmData' = vmData
    BY <1>2 DEF listing
  <2> QED
    BY <2>1, <2>2, <2>3, ObjectsStay
<1> QED
  BY <1>3, <1>4, <1>5 DEF IInv

LEMMA AttachKeeps ==
    ASSUME IInv, NEW c \in Threads, attachThread(c)
    PROVE  IInv'
<1> c \in Actors /\ Threads \subseteq Actors /\ Spawned \subseteq Threads
  BY DEF Actors, Threads
<1> TypeOK'
  BY TypeSteps DEF Step
<1>1. pc \in [Actors -> Labels] /\ vmData \in [Spawned -> {"null", "thread", "dead"}]
  BY DEF IInv, TypeOK
<1>2. /\ pc[c] = "attach" /\ list' = list \cup {c} /\ pc'[c] = "run"
      /\ \A u \in Actors \ {c} : pc'[u] = pc[u]
      /\ \A d \in Spawned \ {c} : vmData'[d] = vmData[d]
      /\ UNCHANGED <<non_daemon_thrds, state, frames, doing, cur>>
  BY <1>1 DEF attachThread, Goto, Set, signals, loop
<1>3. c \in Internal /\ c \in Daemons /\ op[c] = "run" /\ frames[c] = <<>> /\ state[c] # "STARTED"
  <2>1. ThreadOK(c)
    BY DEF IInv
  <2> QED
    BY <1>2, <2>1, ThreadLifeAssumption DEF ThreadOK, FramesOK, ListedOK, OpOK, Outside,
       Joining, Asleep
<1>4. \A u \in Threads : ThreadOK(u)'
  <2>1. \A u \in Threads \ {c} : Same(u)
    BY <1>2 DEF Same, doing
  <2>2. ThreadOK(c)'
    <3>1. ThreadOK(c)
      BY DEF IInv
    <3> QED
      BY <1>2, <1>3, <3>1 DEF ThreadOK, FramesOK, ListedOK, OpOK, Outside, Joining, Creating,
         Asleep, doing
  <2> QED
    BY <2>1, <2>2, SameStays DEF IInv
<1>5. KillOK'
  BY <1>2 DEF IInv, KillOK
<1>6. NonDaemonsAreCounted'
  <2>1. list' \ (Daemons \cup {Main}) = list \ (Daemons \cup {Main})
    BY <1>2, <1>3
  <2> QED
    BY <1>2, <2>1 DEF IInv, NonDaemonsAreCounted
<1>7. ObjectsOK'
  <2>1. \A u \in Threads : pc'[u] = "spawn" => pc[u] = "spawn" /\ child'[u] = child[u]
    BY <1>2 DEF doing
  <2>2. \A d \in Spawned \ Internal : pc[d] = "none" => pc'[d] = "none"
    BY <1>2
  <2>3. \A d \in Spawned \ Internal : vmData'[d] = vmData[d]
    BY <1>2, <1>3
  <2> QED
    BY <2>1, <2>2, <2>3, ObjectsStay
<1> QED
  BY <1>4, <1>5, <1>6, <1>7 DEF IInv

(* The end of threadStart.                                                 *)
LEMMA RemoveKeeps ==
    ASSUME IInv, NEW t \in Threads, removeFromList(t)
    PROVE  IInv'
<1> t \in Actors /\ Threads \subseteq Actors /\ Spawned \subseteq Threads
  BY DEF Actors, Threads
<1> TypeOK'
  BY TypeSteps DEF Step
<1>1. pc \in [Actors -> Labels]
  BY DEF IInv, TypeOK
<1>2. /\ pc[t] = "leave" /\ list' = list \ {t} /\ pc'[t] = "enable"
      /\ \A u \in Actors \ {t} : pc'[u] = pc[u]
      /\ UNCHANGED <<vmData, state, frames, doing, cur>>
  BY <1>1 DEF removeFromList, Goto, signals, loop
<1>3. op[t] = "exit" /\ t \in list /\ t # Main /\ ThreadOK(t)
  <2>1. ThreadOK(t)
    BY DEF IInv
  <2> QED
    BY <1>2, <2>1 DEF ThreadOK, ListedOK, OpOK, Outside, Joining
<1>4. \A u \in Threads : ThreadOK(u)'
  <2>1. \A u \in Threads \ {t} : Same(u)
    BY <1>2 DEF Same, doing
  <2>2. ThreadOK(t)'
    BY <1>2, <1>3 DEF ThreadOK, FramesOK, ListedOK, OpOK, Outside, Joining, Creating,
       Asleep, doing
  <2> QED
    BY <2>1, <2>2, SameStays DEF IInv
<1>5. KillOK'
  BY <1>2 DEF IInv, KillOK
<1>6. NonDaemonsAreCounted'
  <2>1. non_daemon_thrds' = non_daemon_thrds - (IF t \in Daemons THEN 0 ELSE 1)
    BY DEF removeFromList
  <2> QED
    BY <1>2, <1>3, <2>1, CountRemoved
<1>7. ObjectsOK'
  <2>1. \A u \in Threads : pc'[u] = "spawn" => pc[u] = "spawn" /\ child'[u] = child[u]
    BY <1>2 DEF doing
  <2>2. \A d \in Spawned \ Internal : pc[d] = "none" => pc'[d] = "none"
    BY <1>2
  <2>3. vmData' = vmData
    BY <1>2
  <2> QED
    BY <2>1, <2>2, <2>3, ObjectsStay
<1> QED
  BY <1>4, <1>5, <1>6, <1>7 DEF IInv

LEMMA FreedKeeps ==
    ASSUME IInv, NEW t \in Threads, threadFreed(t)
    PROVE  IInv'
<1> t \in Actors /\ Threads \subseteq Actors /\ Spawned \subseteq Threads
  BY DEF Actors, Threads
<1> TypeOK'
  BY TypeSteps DEF Step
<1>1. pc \in [Actors -> Labels] /\ vmData \in [Spawned -> {"null", "thread", "dead"}]
  BY DEF IInv, TypeOK
<1>2. /\ pc[t] = "freed" /\ pc'[t] \in {"signal_exit", "dead"}
      /\ \A u \in Actors \ {t} : pc'[u] = pc[u]
      /\ \A d \in Spawned : vmData'[d] = vmData[d] \/ (d = t /\ vmData'[d] = "dead")
      /\ UNCHANGED <<list, non_daemon_thrds, state, frames, doing, cur>>
  BY <1>1 DEF threadFreed, Goto, Set, signals, loop
<1>3. \A u \in Threads : ThreadOK(u)'
  <2>1. \A u \in Threads \ {t} : Same(u)
    BY <1>2 DEF Same, doing
  <2>2. ThreadOK(t)'
    <3>1. ThreadOK(t)
      BY DEF IInv
    <3> QED
      BY <1>2, <3>1 DEF ThreadOK, FramesOK, ListedOK, OpOK, Outside, Joining, Creating,
         Asleep, doing
  <2> QED
    BY <2>1, <2>2, SameStays DEF IInv
<1>4. KillOK' /\ NonDaemonsAreCounted'
  BY <1>2 DEF IInv, KillOK, NonDaemonsAreCounted
<1>5. ObjectsOK'
  <2>1. \A u \in Threads : pc'[u] = "spawn" => pc[u] = "spawn" /\ child'[u] = child[u]
    BY <1>2 DEF doing
  <2>2. \A d \in Spawned \ Internal : pc[d] = "none" => pc'[d] = "none"
    BY <1>2
  <2>3. \A d \in Spawned \ Internal :
           vmData'[d] = vmData[d] \/ (vmData'[d] # "null" /\ pc[d] # "none")
    BY <1>2
  <2> QED
    BY <2>1, <2>2, <2>3, ObjectsStay
<1> QED
  BY <1>3, <1>4, <1>5 DEF IInv

LEMMA SignalExitKeeps ==
    ASSUME IInv, NEW t \in Threads, signalExit(t)
    PROVE  IInv'
<1> t \in Actors /\ Threads \subseteq Actors /\ Spawned \subseteq Threads
  BY DEF Actors, Threads
<1> TypeOK'
  BY TypeSteps DEF Step
<1>1. pc \in [Actors -> Labels]
  BY DEF IInv, TypeOK
<1>2. /\ pc[t] = "signal_exit" /\ pc'[t] = "dead"
      /\ \A u \in Actors \ {t} : \/ pc'[u] = pc[u]
                                 \/ pc[u] = "await_exit" /\ pc'[u] = "wait_exit"
      /\ UNCHANGED <<listing, state, frames, doing, cur>>
  BY <1>1 DEF signalExit, signals, loop
<1>3. \A u \in Threads : ThreadOK(u)'
  <2>1. ASSUME NEW u \in Threads \ {t} PROVE ThreadOK(u)'
    <3>1. CASE pc'[u] = pc[u]
      BY <1>2, <3>1, SameStays DEF Same, doing, listing, IInv
    <3>2. CASE pc[u] = "await_exit" /\ pc'[u] = "wait_exit"
      BY <1>2, <3>2, BusyStays DEF Busy, doing, listing, IInv
    <3> QED
      BY <1>2, <3>1, <3>2
  <2>2. ThreadOK(t)'
    <3>1. ThreadOK(t)
      BY DEF IInv
    <3> QED
      BY <1>2, <3>1 DEF ThreadOK, FramesOK, ListedOK, OpOK, Outside, Joining, Creating,
         Asleep, doing, listing
  <2> QED
    BY <2>1, <2>2
<1>4. KillOK' /\ NonDaemonsAreCounted'
  BY <1>2 DEF IInv, KillOK, NonDaemonsAreCounted, listing
<1>5. ObjectsOK'
  <2>1. \A u \in Threads : pc'[u] = "spawn" => pc[u] = "spawn" /\ child'[u] = child[u]
    BY <1>2 DEF doing
  <2>2. \A d \in Spawned \ Internal : pc[d] = "none" => pc'[d] = "none"
    BY <1>2
  <2>3. vmData' = vmData
    BY <1>2 DEF listing
  <2> QED
    BY <2>1, <2>2, <2>3, ObjectsStay
<1> QED
  BY <1>3, <1>4, <1>5 DEF IInv


-----------------------------------------------------------------------------
LEMMA InitInvariant == Init => IInv
<1> SUFFICES ASSUME Init PROVE IInv
  OBVIOUS
<1> Main \in Threads /\ Spawned \subseteq Threads /\ Dumper \notin Threads /\ Threads \subseteq Actors
  BY ThreadLifeAssumption DEF Threads, Actors
<1>1. list = Started \cup {Main} /\ list \subseteq Threads
  BY ThreadLifeAssumption DEF Init
<1>2. IsFiniteSet(Started \ Daemons)
  BY ThreadLifeAssumption, FS_Subset
<1>3. list \ (Daemons \cup {Main}) = Started \ Daemons
  BY <1>1, ThreadLifeAssumption
<1>4. NonDaemonsAreCounted
  BY <1>3 DEF Init, NonDaemonsAreCounted
<1>5. TypeOK
  <2>1. non_daemon_thrds \in Int
    BY <1>2, FS_CardinalityType DEF Init
  <2>2. vmData \in [Spawned -> {"null", "thread", "dead"}]
    BY DEF Init
  <2>3. state \in [Threads -> States] /\ pc \in [Actors -> Labels]
    BY DEF Init, States, Labels
  <2>4. frames \in [Threads -> Seq([old : States, ret : {"suspended", "enabled"}])]
    BY DEF Init
  <2>5. /\ suspend \in [Threads -> BOOLEAN] /\ blocking \in [Threads -> BOOLEAN]
        /\ masked \in [Threads -> BOOLEAN] /\ pending \in [Threads -> BOOLEAN]
    BY DEF Init
  <2>6. /\ op \in [Threads -> {"run", "native", "alloc", "gc", "create", "exit", "wait"}]
        /\ child \in [Threads -> Spawned \cup {Nil}]
        /\ phase \in [Actors -> {"suspend", "resume"}]
        /\ todo \in [Actors -> SUBSET Threads] /\ cur \in [Actors -> Threads \cup {Nil}]
    BY DEF Init
  <2>7. lock = Nil /\ heap_lock = Nil /\ exit_lock = Nil
    BY DEF Init
  <2> QED
    BY <1>1, <2>1, <2>2, <2>3, <2>4, <2>5, <2>6, <2>7 DEF TypeOK
<1>6. /\ \A t \in Threads : /\ pc[t] = IF t \in list THEN "run" ELSE "none"
                            /\ state[t] = IF t \in list THEN "RUNNING" ELSE "CREATING"
                            /\ frames[t] = <<>> /\ op[t] = "run"
      /\ \A a \in Actors : pc[a] \in {"run", "none", "dump"}
  BY DEF Init
<1>7. KillOK
  BY <1>6 DEF KillOK
<1>8. ObjectsOK
  <2>1. \A c \in Spawned : vmData[c] = "null" => c \notin list
    BY <1>1, ThreadLifeAssumption DEF Init
  <2> QED
    BY <1>6, <2>1 DEF ObjectsOK
<1>9. ASSUME NEW t \in Threads PROVE ThreadOK(t)
  <2>1. FramesOK(t)
    BY <1>6 DEF FramesOK, Asleep
  <2>2. ListedOK(t)
    BY <1>6 DEF ListedOK, Outside, Joining
  <2>3. OpOK(t)
    BY <1>6 DEF OpOK, Creating
  <2> QED
    BY <2>1, <2>2, <2>3 DEF ThreadOK
<1> QED
  BY <1>4, <1>5, <1>7, <1>8, <1>9 DEF IInv

LEMMA NextInvariant == IInv /\ [Next]_vars => IInv'
<1> SUFFICES ASSUME IInv, [Next]_vars PROVE IInv'
  OBVIOUS
<1>1. ASSUME NEW t \in Threads, Begin(t) \/ End(t) PROVE IInv'
  BY <1>1, BeginKeeps
<1>2. ASSUME NEW t \in Threads, Step(t) PROVE IInv'
  <2>1. CASE disabled(t)
    BY <2>1, BeginKeeps
  <2>2. CASE enableSuspend(t) \/ drainStore(t) \/ lockHeap(t) \/ leaveNative(t) \/ unlockHeap(t)
    BY <2>2, BusySteps
  <2>3. CASE testSuspend(t)
    BY <2>3, BusySteps, SuspendLoopKeeps
  <2>4. CASE unblockSignal(t)
    BY <2>4, SuspendLoopKeeps, SuspendedKeeps
  <2>5. CASE suspendHandler(t) \/ sigsuspend(t)
    BY <2>5, SuspendLoopKeeps
  <2>6. CASE suspended(t)
    BY <2>6, SuspendedKeeps
  <2>7. CASE createJavaThread(t) \/ pthread_create(t) \/ addToList(t)
    BY <2>7, ClaimKeeps, SpawnKeeps, AddKeeps
  <2>8. CASE threadStart(t) \/ threadStarted(t) \/ attachThread(t)
    BY <2>8, StartKeeps, StartedKeeps, AttachKeeps
  <2>9. CASE removeFromList(t) \/ threadFreed(t) \/ signalExit(t)
    BY <2>9, RemoveKeeps, FreedKeeps, SignalExitKeeps
  <2> QED
    BY <1>2, <2>1, <2>2, <2>3, <2>4, <2>5, <2>6, <2>7, <2>8, <2>9 DEF Step
<1>3. ASSUME NEW a \in Actors, SuspendResume(a) PROVE IInv'
  BY <1>3, SuspendKeeps
<1>4. ASSUME NEW c \in Internal, createVMThread(c) PROVE IInv'
  BY <1>4, CreateVMKeeps
<1>5. CASE dumpThreads \/ MainStep
  BY <1>5, MainKeeps
<1>6. CASE UNCHANGED vars
  <2>1. TypeOK'
    BY <1>6, TypeOthers
  <2>2. UNCHANGED <<listing, state, frames, doing, pc, cur>>
    BY <1>6 DEF vars, signals, loop
  <2>3. \A t \in Threads : ThreadOK(t)'
    BY <2>2, SameStays DEF Same, listing, doing, IInv
  <2>4. KillOK' /\ NonDaemonsAreCounted' /\ ObjectsOK'
    BY <2>2 DEF IInv, KillOK, NonDaemonsAreCounted, ObjectsOK, listing, doing
  <2> QED
    BY <2>1, <2>3, <2>4 DEF IInv
<1> QED
  BY <1>1, <1>2, <1>3, <1>4, <1>5, <1>6 DEF Next

LEMMA Invariance == Spec => []IInv
BY InitInvariant, NextInvariant, PTL DEF Spec

-----------------------------------------------------------------------------
(* Every variable keeps its type, the calls of suspendLoop above all: each *)
(* one returns into another one, or to where SIGUSR1 is unblocked.         *)
THEOREM TypeCorrect == Spec => []TypeOK
<1>1. IInv => TypeOK
  BY DEF IInv
<1> QED
  BY <1>1, Invariance, PTL

(* However deep the calls of suspendLoop nest, a thread is marked          *)
(* SUSPENDED exactly as long as it is in one of them.                      *)
THEOREM StateComesBack == Spec => []StateIsRestored
<1>1. IInv => StateIsRestored
  BY DEF IInv, ThreadOK, FramesOK, StateIsRestored
<1> QED
  BY <1>1, Invariance, PTL

(* The collector suspends every thread that runs Java code, for it is on   *)
(* the list: whatever creator put it there, in whatever order they met.    *)
THEOREM RunnersListed == Spec => []RunnersAreListed
<1>1. IInv => RunnersAreListed
  <2> SUFFICES ASSUME IInv, NEW t \in Threads, pc[t] = "run" PROVE t \in list
    BY DEF RunnersAreListed
  <2>1. ThreadOK(t)
    BY DEF IInv
  <2> QED
    BY <2>1 DEF ThreadOK, ListedOK, OpOK, Outside, Joining
<1> QED
  BY <1>1, Invariance, PTL

(* What creators add to non_daemon_thrds ending threads take off: the      *)
(* count is right, and is never negative.                                  *)
THEOREM CountIsRight == Spec => []NonDaemonsAreCounted
<1>1. IInv => NonDaemonsAreCounted
  BY DEF IInv
<1> QED
  BY <1>1, Invariance, PTL


(* Only testExit takes the main thread away from its test.                 *)
LEMMA OnlyTheTestLeaves ==
    ASSUME IInv, Next, pc[Main] = "test_exit", pc'[Main] = "enable"
    PROVE  testExit /\ non_daemon_thrds = 0
<1> Main \in Threads /\ Threads \subseteq Actors /\ Main \notin Spawned
  BY ThreadLifeAssumption DEF Threads, Actors
<1> pc \in [Actors -> Labels]
  BY DEF IInv, TypeOK
<1>1. ASSUME NEW a \in Actors, NEW l, Goto(a, l), pc[a] # "test_exit" PROVE FALSE
  <2>1. a # Main
    BY <1>1
  <2> QED
    BY <1>1, <2>1 DEF Goto
<1>2. ASSUME NEW t \in Threads, Begin(t) \/ End(t) PROVE FALSE
  BY <1>1, <1>2 DEF Begin, End, disableSuspend
<1>3. ASSUME NEW t \in Threads, Step(t) PROVE FALSE
  <2>1. CASE addToList(t)
    <3>1. pc[t] = "handshake" /\ (Goto(t, "await_started") \/ Broadcast(t, "enable"))
      BY <2>1 DEF addToList
    <3> QED
      BY <1>1, <3>1, Broadcasts
  <2>2. CASE threadStart(t)
    <3>1. pc[t] = "start" /\ Broadcast(t, "await_running")
      BY <2>2 DEF threadStart
    <3> QED
      BY <3>1, Broadcasts
  <2>3. CASE pthread_create(t)
    <3>1. pc[t] = "spawn" /\ child[t] # Main
      BY <2>3 DEF pthread_create, IInv, ThreadOK, OpOK, Creating
    <3> QED
      BY <1>1, <2>3, <3>1 DEF pthread_create
  <2>4. CASE signalExit(t)
    BY <2>4 DEF signalExit
  <2>5. CASE suspended(t)
    BY <1>1, <2>5 DEF suspended
  <2>6. CASE testSuspend(t) \/ unblockSignal(t) \/ suspendHandler(t) \/ sigsuspend(t)
    BY <1>1, <2>6 DEF testSuspend, unblockSignal, suspendHandler, sigsuspend, suspendLoop
  <2>7. CASE disabled(t) \/ enableSuspend(t) \/ drainStore(t) \/ lockHeap(t) \/ leaveNative(t)
             \/ unlockHeap(t) \/ attachThread(t)
    BY <1>1, <2>7 DEF disabled, enableSuspend, drainStore, lockHeap, leaveNative, unlockHeap,
       attachThread
  <2>8. CASE createJavaThread(t) \/ threadStarted(t) \/ removeFromList(t) \/ threadFreed(t)
    BY <1>1, <2>8 DEF createJavaThread, threadStarted, removeFromList, threadFreed
  <2> QED
    BY <1>3, <2>1, <2>2, <2>3, <2>4, <2>5, <2>6, <2>7, <2>8 DEF Step
<1>4. ASSUME NEW a \in Actors, SuspendResume(a) PROVE FALSE
  BY <1>1, <1>4 DEF SuspendResume, lockQueue, setSuspend, pthread_kill, awaitThread,
     startResume, endResume
<1>5. ASSUME NEW c \in Internal, createVMThread(c) PROVE FALSE
  <2>1. c \in Actors
    BY ThreadLifeAssumption DEF Actors, Threads
  <2> QED
    BY <1>1, <1>5, <2>1 DEF createVMThread
<1>6. ~dumpThreads
  <2>1. Dumper \in Actors
    BY DEF Actors
  <2> QED
    BY <1>1, <2>1 DEF dumpThreads
<1>7. ~lockExit /\ ~parkExit
  BY DEF lockExit, parkExit
<1>8. testExit
  BY <1>2, <1>3, <1>4, <1>5, <1>6, <1>7 DEF Next, MainStep
<1>9. non_daemon_thrds = 0
  BY <1>8 DEF testExit, Goto
<1> QED
  BY <1>8, <1>9

(* The main thread goes on to exit() when it has found that it is the only *)
(* listed thread that is no daemon: mainThreadWaitToExitVM reads the count *)
(* without the thread queue lock that guards it.                           *)
THEOREM LeavesLast == Spec => MainLeavesLast
<1>1. IInv /\ [Next]_vars =>
         [pc[Main] = "test_exit" /\ pc'[Main] = "enable" => list \subseteq Daemons \cup {Main}]_vars
  <2> SUFFICES ASSUME IInv, Next, pc[Main] = "test_exit", pc'[Main] = "enable"
               PROVE  list \subseteq Daemons \cup {Main}
    OBVIOUS
  <2>1. Cardinality(list \ (Daemons \cup {Main})) = 0
    BY OnlyTheTestLeaves DEF IInv, NonDaemonsAreCounted
  <2>2. IsFiniteSet(list \ (Daemons \cup {Main}))
    <3>1. IsFiniteSet(Threads)
      BY ThreadLifeAssumption, FS_AddElement DEF Threads
    <3> QED
      BY <3>1, FS_Subset DEF IInv, TypeOK
  <2>3. list \ (Daemons \cup {Main}) = {}
    BY <2>1, <2>2, FS_EmptySet
  <2> QED
    BY <2>3
<1> QED
  BY <1>1, Invariance, PTL DEF Spec, MainLeavesLast

-----------------------------------------------------------------------------
(* The collector is stop-the-world.  With several processors a store to    *)
(* blocking may pass the load of suspend, a thread dump resumes what a     *)
(* collection has suspended, and a VM thread allocates before it is listed *)
(* (thread.c:521, 552, 374); and a thread that is put on the list while    *)
(* the others are stopped runs (thread.c:350).  That is all: with none of  *)
(* these, any number of threads may collect, allocate, call native code,   *)
(* start others and end.                                                   *)
Plain == ~SMP /\ Ops \cap {"dump", "attach"} = {}

NobodyJoins ==
    [][(\E a \in Threads : pc[a] = "stopped") => list' \subseteq list]_vars

Collecting == {"queue", "mark", "kill", "await", "stopped", "resumed"}
Stopping == {"mark", "kill", "await", "stopped"}

(* Who collects has the heap lock, and so has who allocates, until         *)
(* suspension is enabled again.                                            *)
HeapOK(t) ==
    \/ pc[t] \in Collecting \cup {"unlock_heap"}
    \/ op[t] = "alloc" /\ pc[t] \notin {"disable", "heap"}
    => heap_lock = t

LockOK(t) == pc[t] \in {"mark", "kill", "await"} => lock = t

(* A thread that is blocking will test suspend before it runs.             *)
BlockOK(t) ==
    /\ blocking[t] => pc[t] \notin {"run", "test_suspend", "enabled", "suspended",
                                    "asleep", "unlock_heap"}
    /\ pc[t] \notin {"drain", "attach"}

(* A thread that cannot run again before suspend is reset.                 *)
Caught(u) == suspend[u] /\ pc[u] \notin {"run", "enabled", "unlock_heap"}

(* How far the collector has come with the others.                         *)
StopOK(a) ==
    \A u \in list \ {a} :
        /\ pc[a] = "mark" /\ phase[a] = "suspend" /\ u \notin todo[a] => suspend[u]
        /\ pc[a] = "kill" /\ phase[a] = "suspend" /\ (u \notin todo[a] \/ u = cur[a]) =>
              suspend[u]
        /\ pc[a] = "await" /\ phase[a] = "suspend" =>
              suspend[u] /\ (u \notin todo[a] => Caught(u))
        /\ pc[a] = "stopped" => Caught(u)

SInv ==
    /\ pc[Dumper] = "dump"
    /\ \A t \in Threads : HeapOK(t) /\ LockOK(t) /\ BlockOK(t) /\ StopOK(t)

(* Where a thread may be moved by another one: started, woken by a         *)
(* broadcast, or told that the last thread has ended.                      *)
Passive == {"none", "start", "await_started", "handshake", "await_running", "started",
            "await_exit", "wait_exit"}

(* A step of thread t that is not one of suspendAllThreads' or             *)
(* resumeAllThreads'.                                                      *)
LEMMA OrdinaryStep ==
    ASSUME IInv, TypeOK', SInv, NEW t \in Threads,
           \A u \in Actors \ {t} : pc'[u] = pc[u] \/ {pc[u], pc'[u]} \subseteq Passive,
           \A u \in Threads \ {t} : /\ op'[u] = op[u] /\ blocking'[u] = blocking[u]
                                    /\ phase'[u] = phase[u],
           UNCHANGED <<lock, suspend, todo, cur>>,
           \/ heap_lock' = heap_lock
           \/ heap_lock = Nil /\ heap_lock' = t
           \/ heap_lock = t /\ heap_lock' = Nil,
           {pc[t], pc'[t]} \cap Stopping = {},
           (\E a \in Threads : pc[a] \in Stopping) => list' \subseteq list,
           Caught(t) => Caught(t)',
           HeapOK(t)', BlockOK(t)'
    PROVE  SInv'
<1> Threads \subseteq Actors /\ Nil \notin Threads /\ Dumper \in Actors \ Threads
  BY ThreadLifeAssumption DEF Threads, Actors
<1>1. pc'[Dumper] = "dump"
  BY DEF SInv, Passive
<1>2. LockOK(t)'
  BY DEF LockOK, Stopping
<1>3. ASSUME NEW u \in Threads \ {t} PROVE HeapOK(u)' /\ LockOK(u)' /\ BlockOK(u)'
  <2>1. HeapOK(u) /\ LockOK(u) /\ BlockOK(u)
    BY DEF SInv
  <2>2. HeapOK(u)'
    BY <2>1 DEF HeapOK, Collecting, Passive
  <2>3. LockOK(u)'
    BY <2>1 DEF LockOK, Passive
  <2>4. BlockOK(u)'
    BY <2>1 DEF BlockOK, Passive
  <2> QED
    BY <2>2, <2>3, <2>4
<1>4. ASSUME NEW a \in Threads PROVE StopOK(a)'
  <2>1. CASE pc'[a] \notin Stopping
    BY <2>1 DEF StopOK, Stopping
  <2>2. CASE pc'[a] \in Stopping
    <3>1. a # t /\ pc'[a] = pc[a] /\ phase'[a] = phase[a] /\ list' \subseteq list
      BY <2>2 DEF Stopping, Passive
    <3>2. \A u \in Threads : Caught(u) => Caught(u)'
      BY DEF Caught, Passive
    <3>3. StopOK(a) /\ list \subseteq Threads
      BY DEF SInv, IInv, TypeOK
    <3> QED
      BY <3>1, <3>2, <3>3 DEF StopOK
  <2> QED
    BY <2>1, <2>2
<1> QED
  BY <1>1, <1>2, <1>3, <1>4 DEF SInv

(* Steps of a thread that moves no other one and leaves the list alone.    *)
LEMMA OwnStep ==
    ASSUME IInv, TypeOK', SInv, NEW t \in Threads,
           \E l \in Labels : Goto(t, l),
           \A u \in Threads \ {t} : /\ op'[u] = op[u] /\ blocking'[u] = blocking[u]
                                    /\ phase'[u] = phase[u],
           UNCHANGED <<lock, suspend, todo, cur>>, list' \subseteq list,
           \/ heap_lock' = heap_lock
           \/ heap_lock = Nil /\ heap_lock' = t
           \/ heap_lock = t /\ heap_lock' = Nil,
           {pc[t], pc'[t]} \cap Stopping = {},
           Caught(t) => Caught(t)',
           HeapOK(t)', BlockOK(t)'
    PROVE  SInv'
<1>1. \A u \in Actors \ {t} : pc'[u] = pc[u]
  BY DEF Goto, IInv, TypeOK, Actors
<1> QED
  BY <1>1, OrdinaryStep

(* Threads disable and enable suspension, are suspended and go on.         *)
LEMMA SuspensionSafe ==
    ASSUME IInv, TypeOK', SInv, Plain, NEW t \in Threads,
           \/ Begin(t) \/ End(t) \/ disabled(t) \/ enableSuspend(t) \/ drainStore(t)
           \/ testSuspend(t) \/ unblockSignal(t) \/ suspendHandler(t) \/ suspended(t)
           \/ sigsuspend(t)
    PROVE  SInv'
<1> USE DEF Goto, Set, locks, listing, flags, signals, loop, doing, Labels, Caught,
        Stopping, Collecting
<1>1. /\ t \in Actors /\ pc \in [Actors -> Labels]
      /\ op \in [Threads -> {"run", "native", "alloc", "gc", "create", "exit", "wait"}]
      /\ blocking \in [Threads -> BOOLEAN] /\ suspend \in [Threads -> BOOLEAN]
  BY DEF IInv, TypeOK, Actors
<1>2. HeapOK(t) /\ BlockOK(t) /\ ThreadOK(t)
  BY DEF SInv, IInv
<1>3. CASE Begin(t) \/ End(t)
  <2>1. PICK o, c : disableSuspend(t, o, c)
    BY <1>3 DEF Begin, End
  <2>2. HeapOK(t)' /\ BlockOK(t)'
    BY <1>1, <1>2, <2>1 DEF disableSuspend, HeapOK, BlockOK
  <2> QED
    BY <1>1, <2>1, <2>2, OwnStep DEF disableSuspend
<1>4. CASE disabled(t)
  <2>1. PICK l : l = First[op[t]]
    OBVIOUS
  <2>2. /\ pc' = [pc EXCEPT ![t] = l] /\ op[t] # "run"
        /\ l \in {"native", "heap", "create", "leave", "wait_exit"}
    BY <1>1, <1>2, <1>4, <2>1 DEF disabled, First, ThreadOK, OpOK
  <2>3. op[t] = "alloc" => l = "heap"
    BY <2>1 DEF First
  <2>4. HeapOK(t)' /\ BlockOK(t)'
    BY <1>1, <1>2, <1>4, <2>2, <2>3 DEF disabled, HeapOK, BlockOK
  <2> QED
    BY <1>1, <1>4, <2>2, <2>4, OwnStep DEF disabled
<1>5. CASE enableSuspend(t)
  <2>1. HeapOK(t)' /\ BlockOK(t)' /\ Goto(t, "test_suspend")
    BY <1>1, <1>2, <1>5 DEF enableSuspend, HeapOK, BlockOK, Plain
  <2> QED
    BY <1>1, <1>5, <2>1, OwnStep DEF enableSuspend
<1>6. CASE drainStore(t)
  BY <1>2, <1>6 DEF drainStore, BlockOK
<1>7. ASSUME NEW ret, suspendLoop(t, ret), pc[t] \in {"run", "test_suspend", "enabled", "asleep"},
             UNCHANGED <<locks, listing, flags, doing, loop>>
      PROVE  SInv'
  <2>1. HeapOK(t)' /\ BlockOK(t)'
    BY <1>1, <1>2, <1>7 DEF suspendLoop, HeapOK, BlockOK, ThreadOK, OpOK
  <2> QED
    BY <1>1, <1>7, <2>1, OwnStep DEF suspendLoop
<1>8. CASE testSuspend(t)
  <2>1. CASE suspend[t]
    BY <1>7, <1>8, <2>1 DEF testSuspend
  <2>2. CASE ~suspend[t]
    <3>1. HeapOK(t)' /\ BlockOK(t)'
      BY <1>1, <1>2, <1>8, <2>2 DEF testSuspend, HeapOK, BlockOK
    <3> QED
      BY <1>1, <1>8, <2>2, <3>1, OwnStep DEF testSuspend
  <2> QED
    BY <2>1, <2>2
<1>9. CASE unblockSignal(t)
  <2>1. CASE pending[t]
    BY <1>7, <1>9, <2>1 DEF unblockSignal
  <2>2. CASE ~pending[t]
    <3>1. PICK l \in {"freed", "exited", "unlock_heap", "run"} :
             pc' = [pc EXCEPT ![t] = l] /\ (l = "unlock_heap" => op[t] = "alloc")
      BY <1>1, <1>9, <2>2 DEF unblockSignal
    <3>2. HeapOK(t)' /\ BlockOK(t)'
      BY <1>1, <1>2, <1>9, <2>2, <3>1 DEF unblockSignal, HeapOK, BlockOK
    <3> QED
      BY <1>1, <1>9, <2>2, <3>1, <3>2, OwnStep DEF unblockSignal
  <2> QED
    BY <2>1, <2>2
<1>10. CASE suspendHandler(t)
  BY <1>7, <1>10 DEF suspendHandler
<1>11. CASE sigsuspend(t)
  BY <1>7, <1>11 DEF sigsuspend
<1>12. CASE suspended(t)
  <2>1. PICK l \in Labels : /\ pc' = [pc EXCEPT ![t] = l]
                            /\ l \in {"asleep", "suspended", "enabled"}
                            /\ suspend[t] => l = "asleep"
    <3>1. CASE suspend[t]
      BY <1>12, <3>1 DEF suspended
    <3>2. CASE ~suspend[t]
      <4>1. frames[t] # <<>> /\ frames[t] \in Seq([old : States, ret : {"suspended", "enabled"}])
        BY <1>2, <1>12 DEF suspended, ThreadOK, FramesOK, Asleep, IInv, TypeOK
      <4>2. \A S : \A q \in Seq(S) : q # <<>> => Head(q) \in S
        OBVIOUS
      <4>3. Head(frames[t]) \in [old : States, ret : {"suspended", "enabled"}]
        BY <4>1, <4>2
      <4>4. \A R : \A q \in [old : States, ret : R] : q.ret \in R
        OBVIOUS
      <4>5. Head(frames[t]).ret \in {"suspended", "enabled"}
        BY <4>3, <4>4
      <4> QED
        BY <1>12, <3>2, <4>5 DEF suspended
    <3> QED
      BY <3>1, <3>2
  <2>2. HeapOK(t)' /\ BlockOK(t)'
    BY <1>1, <1>2, <1>12, <2>1 DEF suspended, HeapOK, BlockOK
  <2> QED
    BY <1>1, <1>12, <2>1, <2>2, OwnStep DEF suspended
<1> QED
  BY <1>3, <1>4, <1>5, <1>6, <1>8, <1>9, <1>10, <1>11, <1>12

(* A thread takes and leaves the heap lock, the native code and the thread *)
(* list; the main thread waits for the others.                             *)
LEMMA OwnStepsSafe ==
    ASSUME IInv, TypeOK', SInv, NEW t \in Threads,
           \/ lockHeap(t) \/ unlockHeap(t) \/ leaveNative(t) \/ createJavaThread(t)
           \/ threadStarted(t) \/ removeFromList(t) \/ threadFreed(t)
           \/ t = Main /\ MainStep
    PROVE  SInv'
<1> USE DEF Goto, Set, locks, listing, flags, signals, loop, doing, Labels, Caught,
        Stopping, Collecting
<1>1. /\ t \in Actors /\ pc \in [Actors -> Labels] /\ phase \in [Actors -> {"suspend", "resume"}]
  BY DEF IInv, TypeOK, Actors
<1>2. HeapOK(t) /\ BlockOK(t) /\ ThreadOK(t)
  BY DEF SInv, IInv
<1>3. CASE lockHeap(t)
  <2>1. HeapOK(t)' /\ BlockOK(t)'
    BY <1>1, <1>2, <1>3 DEF lockHeap, HeapOK, BlockOK
  <2>2. \A u \in Threads \ {t} : phase'[u] = phase[u]
    BY <1>1, <1>3 DEF lockHeap, Threads, Actors
  <2>3. /\ heap_lock = Nil /\ heap_lock' = t /\ {pc[t], pc'[t]} \cap Stopping = {}
        /\ UNCHANGED <<lock, list, flags, doing, todo, cur>>
        /\ \E l \in Labels : Goto(t, l)
    BY <1>1, <1>3 DEF lockHeap
  <2>4. Caught(t) => Caught(t)'
    BY <1>1, <1>3, <2>3 DEF lockHeap
  <2> QED
    BY <2>1, <2>2, <2>3, <2>4, OwnStep
<1>4. CASE unlockHeap(t)
  <2>1. HeapOK(t)' /\ BlockOK(t)' /\ heap_lock = t
    BY <1>1, <1>2, <1>4 DEF unlockHeap, HeapOK, BlockOK, ThreadOK, OpOK
  <2> QED
    BY <1>1, <1>4, <2>1, OwnStep DEF unlockHeap
<1>5. CASE leaveNative(t) \/ createJavaThread(t) \/ threadStarted(t)
  <2>1. HeapOK(t)' /\ BlockOK(t)'
    BY <1>1, <1>2, <1>5 DEF leaveNative, createJavaThread, threadStarted, HeapOK, BlockOK
  <2>2. {pc[t], pc'[t]} \cap Stopping = {} /\ \E l \in Labels : Goto(t, l)
    BY <1>1, <1>5 DEF leaveNative, createJavaThread, threadStarted
  <2>3. UNCHANGED <<locks, list, flags, doing, loop>>
    BY <1>5 DEF leaveNative, createJavaThread, threadStarted
  <2>4. Caught(t) => Caught(t)'
    BY <1>1, <2>3, <1>5 DEF leaveNative, createJavaThread, threadStarted
  <2> QED
    BY <2>1, <2>2, <2>3, <2>4, OwnStep
<1>6. CASE removeFromList(t) \/ threadFreed(t)
  <2>1. HeapOK(t)' /\ BlockOK(t)'
    BY <1>1, <1>2, <1>6 DEF removeFromList, threadFreed, HeapOK, BlockOK
  <2>2. /\ {pc[t], pc'[t]} \cap Stopping = {} /\ \E l \in Labels : Goto(t, l)
        /\ UNCHANGED <<locks, flags, doing, loop>> /\ list' \subseteq list
    BY <1>1, <1>6 DEF removeFromList, threadFreed
  <2>3. Caught(t) => Caught(t)'
    BY <1>1, <2>2, <1>6 DEF removeFromList, threadFreed
  <2> QED
    BY <2>1, <2>2, <2>3, OwnStep
<1>7. CASE t = Main /\ MainStep
  <2>1. /\ UNCHANGED <<lock, heap_lock, listing, flags, doing, loop>>
        /\ pc[t] \in {"wait_exit", "test_exit", "park_exit"}
        /\ \E l \in {"test_exit", "park_exit", "enable", "await_exit"} : Goto(t, l)
    BY <1>7 DEF MainStep, lockExit, testExit, parkExit
  <2>2. HeapOK(t)' /\ BlockOK(t)'
    BY <1>1, <1>2, <2>1 DEF HeapOK, BlockOK
  <2>3. Caught(t) => Caught(t)'
    BY <1>1, <2>1
  <2>4. {pc[t], pc'[t]} \cap Stopping = {} /\ \E l \in Labels : Goto(t, l)
    BY <1>1, <2>1
  <2> QED
    BY <2>1, <2>2, <2>3, <2>4, OwnStep
<1> QED
  BY <1>3, <1>4, <1>5, <1>6, <1>7

(* Threads are started, wait for each other and end.                       *)
LEMMA StartsSafe ==
    ASSUME IInv, TypeOK', SInv, Plain, NEW t \in Threads,
           \/ pthread_create(t) \/ addToList(t) \/ threadStart(t) \/ signalExit(t)
           \/ attachThread(t),
           (\E a \in Threads : pc[a] = "stopped") => list' \subseteq list
    PROVE  SInv'
<1> USE DEF Goto, Set, locks, listing, flags, signals, loop, doing, Labels, Caught,
        Stopping, Collecting, Passive
<1>1. /\ t \in Actors /\ pc \in [Actors -> Labels] /\ Main \in Actors
      /\ blocking \in [Threads -> BOOLEAN] /\ Nil \notin Threads
  BY ThreadLifeAssumption DEF IInv, TypeOK, Actors, Threads
<1>2. HeapOK(t) /\ BlockOK(t) /\ ThreadOK(t)
  BY DEF SInv, IInv
<1>3. CASE pthread_create(t)
  <2>1. /\ child[t] \in Actors \ {t} /\ pc[child[t]] = "none" /\ pc[t] = "spawn"
    BY <1>1, <1>2, <1>3 DEF pthread_create, ThreadOK, OpOK, Creating, Threads, Actors, IInv,
       ObjectsOK
  <2>2. /\ UNCHANGED <<locks, list, flags, doing, loop>>
        /\ \/ pc' = [pc EXCEPT ![t] = "handshake", ![child[t]] = "start"]
           \/ pc' = [pc EXCEPT ![t] = "enable"]
    BY <1>3 DEF pthread_create
  <2>3. /\ pc'[t] \in {"handshake", "enable"}
        /\ \A u \in Actors \ {t} : pc'[u] = pc[u] \/ {pc[u], pc'[u]} \subseteq Passive
    BY <1>1, <2>1, <2>2
  <2>4. HeapOK(t)' /\ BlockOK(t)' /\ (Caught(t) => Caught(t)')
    BY <1>2, <2>1, <2>2, <2>3 DEF HeapOK, BlockOK
  <2> QED
    BY <2>1, <2>2, <2>3, <2>4, OrdinaryStep
<1>4. ASSUME NEW l, Broadcast(t, l), pc[t] \in {"start", "handshake"}
      PROVE  /\ pc'[t] = l
             /\ \A u \in Actors \ {t} : pc'[u] = pc[u] \/ {pc[u], pc'[u]} \subseteq Passive
  BY <1>1, <1>4, Broadcasts
<1>5. CASE addToList(t)
  <2>1. /\ UNCHANGED <<locks, vmData, flags, doing, loop>> /\ lock = Nil /\ pc[t] = "handshake"
        /\ \/ Broadcast(t, "enable")
           \/ pc' = [pc EXCEPT ![t] = "await_started"]
    BY <1>5 DEF addToList
  <2>2. /\ pc'[t] \in {"enable", "await_started"}
        /\ \A u \in Actors \ {t} : pc'[u] = pc[u] \/ {pc[u], pc'[u]} \subseteq Passive
    BY <1>1, <1>4, <2>1
  <2>3. HeapOK(t)' /\ BlockOK(t)' /\ (Caught(t) => Caught(t)')
    BY <1>2, <2>1, <2>2 DEF HeapOK, BlockOK
  <2>4. (\E a \in Threads : pc[a] \in Stopping) => list' \subseteq list
    BY <1>1, <2>1 DEF SInv, LockOK
  <2> QED
    BY <2>1, <2>2, <2>3, <2>4, OrdinaryStep
<1>6. CASE threadStart(t)
  <2>1. /\ pc[t] = "start" /\ pc'[t] = "await_running"
        /\ \A u \in Actors \ {t} : pc'[u] = pc[u] \/ {pc[u], pc'[u]} \subseteq Passive
        /\ blocking' = [blocking EXCEPT ![t] = TRUE]
        /\ UNCHANGED <<locks, listing, suspend, doing, loop>>
    BY <1>4, <1>6 DEF threadStart
  <2>2. HeapOK(t)' /\ BlockOK(t)' /\ (Caught(t) => Caught(t)')
    BY <1>2, <2>1 DEF HeapOK, BlockOK
  <2> QED
    BY <1>1, <2>1, <2>2, OrdinaryStep
<1>7. CASE signalExit(t)
  <2>1. /\ pc[t] = "signal_exit" /\ pc'[t] = "dead"
        /\ \A u \in Actors \ {t} : pc'[u] = pc[u] \/ {pc[u], pc'[u]} \subseteq Passive
        /\ UNCHANGED <<locks, listing, flags, doing, loop>>
    BY <1>1, <1>7 DEF signalExit
  <2>2. HeapOK(t)' /\ BlockOK(t)' /\ (Caught(t) => Caught(t)')
    BY <1>2, <2>1 DEF HeapOK, BlockOK
  <2> QED
    BY <1>1, <2>1, <2>2, OrdinaryStep
<1>8. CASE attachThread(t)
  BY <1>2, <1>8 DEF attachThread, BlockOK
<1> QED
  BY <1>3, <1>5, <1>6, <1>7, <1>8

(* The collector stops the others and lets them go on.                     *)
LEMMA CollectorSafe ==
    ASSUME IInv, SInv, NEW a \in Actors, SuspendResume(a)
    PROVE  SInv'
<1> USE DEF Goto, Set, locks, listing, flags, signals, loop, doing, Labels, Caught,
        Stopping, Collecting
<1> Threads \subseteq Actors /\ Nil \notin Threads /\ Dumper \in Actors \ Threads
  BY ThreadLifeAssumption DEF Threads, Actors
<1>1. /\ pc \in [Actors -> Labels] /\ suspend \in [Threads -> BOOLEAN]
      /\ phase \in [Actors -> {"suspend", "resume"}] /\ todo \in [Actors -> SUBSET Threads]
      /\ cur \in [Actors -> Threads \cup {Nil}] /\ list \subseteq Threads
  BY DEF IInv, TypeOK
<1>2. a \in Threads /\ pc[a] \in Collecting
  BY DEF SInv, SuspendResume, lockQueue, setSuspend, pthread_kill, awaitThread, startResume,
     endResume, Actors, Threads
<1>3. HeapOK(a) /\ LockOK(a) /\ BlockOK(a) /\ StopOK(a) /\ heap_lock = a
  BY <1>2 DEF SInv, HeapOK
<1>4. /\ \E l \in Labels \ {"run", "test_suspend", "enabled", "suspended", "asleep",
                            "unlock_heap", "drain", "attach"} : pc' = [pc EXCEPT ![a] = l]
      /\ UNCHANGED <<op, blocking, list>>
      /\ heap_lock' = heap_lock \/ heap_lock' = Nil
      /\ lock' \in {lock, a, Nil}
  <2>1. CASE pthread_kill(a) \/ lockQueue(a) \/ startResume(a) \/ endResume(a)
    BY <1>2, <2>1 DEF lockQueue, pthread_kill, startResume, endResume
  <2>2. CASE setSuspend(a)
    BY <2>2 DEF setSuspend
  <2>3. CASE awaitThread(a)
    <3>1. pc' = pc \/ pc' = [pc EXCEPT ![a] = "stopped"] \/ pc' = [pc EXCEPT ![a] = "resumed"]
      BY <2>3 DEF awaitThread
    <3>2. pc' = pc => pc' = [pc EXCEPT ![a] = pc[a]]
      BY <1>1
    <3> QED
      BY <1>2, <2>3, <3>1, <3>2 DEF awaitThread
  <2> QED
    BY <2>1, <2>2, <2>3 DEF SuspendResume
<1>5. pc'[Dumper] = "dump"
  BY <1>1, <1>2, <1>4 DEF SInv
<1>6. ASSUME NEW u \in Threads \ {a}
      PROVE  HeapOK(u)' /\ LockOK(u)' /\ BlockOK(u)' /\ StopOK(u)'
  <2>1. pc'[u] = pc[u] /\ HeapOK(u) /\ BlockOK(u)
    BY <1>1, <1>4 DEF SInv
  <2>2. pc[u] \notin Collecting \cup {"unlock_heap"}
    BY <1>3, <2>1 DEF HeapOK
  <2>3. HeapOK(u)'
    BY <1>3, <1>4, <2>1 DEF HeapOK
  <2>4. BlockOK(u)'
    BY <1>4, <2>1 DEF BlockOK
  <2>5. LockOK(u)' /\ StopOK(u)'
    BY <2>1, <2>2 DEF LockOK, StopOK
  <2> QED
    BY <2>3, <2>4, <2>5
<1>7. BlockOK(a)'
  BY <1>1, <1>2, <1>3, <1>4 DEF BlockOK
<1>8. HeapOK(a)' /\ LockOK(a)' /\ StopOK(a)'
  <2>1. CASE lockQueue(a)
    BY <1>1, <1>2, <1>3, <2>1 DEF lockQueue, HeapOK, LockOK, StopOK
  <2>2. CASE setSuspend(a)
    <3>1. lock' = lock /\ heap_lock' = heap_lock /\ pc'[a] \in {"kill", "await"} /\ list' = list
          /\ phase' = phase /\ pc[a] = "mark"
      BY <1>1, <1>2, <2>2 DEF setSuspend
    <3>2. HeapOK(a)' /\ LockOK(a)'
      BY <1>3, <3>1 DEF HeapOK, LockOK
    <3>3. CASE pc'[a] = "kill"
      <4>1. PICK u \in todo[a] : /\ suspend' = [suspend EXCEPT ![u] = phase[a] = "suspend"]
                                 /\ cur' = [cur EXCEPT ![a] = u] /\ UNCHANGED todo
        BY <1>1, <1>2, <2>2, <3>3 DEF setSuspend
      <4>2. u \in Threads
        BY <1>1, <1>2, <4>1
      <4>3. phase[a] = "suspend" => \A v \in list : suspend'[v] = (suspend[v] \/ v = u)
        BY <1>1, <4>1, <4>2
      <4>4. StopOK(a)'
        BY <1>1, <1>2, <1>3, <3>1, <3>3, <4>1, <4>3 DEF StopOK
      <4> QED
        BY <3>2, <4>4
    <3>4. CASE pc'[a] = "await"
      <4>1. /\ todo[a] = {} /\ suspend' = suspend
            /\ phase[a] = "suspend" => todo'[a] = list \ {a}
        BY <1>1, <1>2, <2>2, <3>4 DEF setSuspend
      <4>2. StopOK(a)'
        BY <1>3, <3>1, <3>4, <4>1 DEF StopOK
      <4> QED
        BY <3>2, <4>2
    <3> QED
      BY <3>1, <3>3, <3>4
  <2>3. CASE pthread_kill(a)
    <3>1. /\ pc[a] = "kill" /\ pc'[a] = "mark" /\ todo'[a] = todo[a] \ {cur[a]}
          /\ UNCHANGED <<locks, suspend, list, phase>>
      BY <1>1, <1>2, <2>3 DEF pthread_kill
    <3> QED
      BY <1>3, <3>1 DEF HeapOK, LockOK, StopOK
  <2>4. CASE awaitThread(a)
    <3>1. pc[a] = "await" /\ UNCHANGED <<heap_lock, list, suspend, phase>>
      BY <2>4 DEF awaitThread
    <3>2. ASSUME NEW u \in todo[a], blocking[u] \/ state[u] = "SUSPENDED", suspend[u]
          PROVE  Caught(u)
      <4>1. u \in Threads
        BY <1>1, <1>2
      <4>2. BlockOK(u) /\ ThreadOK(u)
        BY <4>1 DEF SInv, IInv
      <4> QED
        BY <3>2, <4>2 DEF BlockOK, ThreadOK, FramesOK, Asleep
    <3>3. CASE todo[a] # {} /\ UNCHANGED <<lock, pc>>
      <4>1. PICK u \in todo[a] :
               /\ phase[a] = "suspend" => blocking[u] \/ state[u] = "SUSPENDED"
               /\ todo' = [todo EXCEPT ![a] = todo[a] \ {u}]
        BY <2>4, <3>3 DEF awaitThread
      <4>2. todo'[a] = todo[a] \ {u}
        BY <1>1, <1>2, <4>1
      <4>3. \A v \in list \ {a} : phase[a] = "suspend" =>
                                     suspend[v] /\ (v \notin todo'[a] => Caught(v))
        BY <1>3, <3>1, <3>2, <4>1, <4>2 DEF StopOK
      <4>4. StopOK(a)'
        BY <3>1, <3>3, <4>3 DEF StopOK
      <4>5. HeapOK(a)' /\ LockOK(a)'
        BY <1>3, <3>1, <3>3 DEF HeapOK, LockOK
      <4> QED
        BY <4>4, <4>5
    <3>4. CASE todo[a] = {} /\ pc'[a] \in {"stopped", "resumed"}
      <4>1. pc'[a] = "stopped" => phase[a] = "suspend"
        BY <1>1, <1>2, <2>4, <3>1, <3>4 DEF awaitThread
      <4>2. \A v \in list \ {a} : phase[a] = "suspend" => Caught(v)
        BY <1>3, <3>1, <3>4 DEF StopOK
      <4>3. \A v \in list \ {a} : pc'[v] = pc[v]
        BY <1>1, <1>4
      <4>4. StopOK(a)'
        BY <3>1, <3>4, <4>1, <4>2, <4>3 DEF StopOK
      <4>5. HeapOK(a)' /\ LockOK(a)'
        BY <1>3, <3>1, <3>4 DEF HeapOK, LockOK
      <4> QED
        BY <4>4, <4>5
    <3> QED
      BY <1>1, <1>2, <2>4, <3>3, <3>4 DEF awaitThread
  <2>5. CASE startResume(a) \/ endResume(a)
    <3>1. /\ pc'[a] \in {"queue", "enable"}
          /\ pc'[a] = "queue" => heap_lock' = heap_lock
          /\ pc'[a] = "enable" => op[a] = "gc" \/ heap_lock' = heap_lock
      BY <1>1, <1>2, <2>5 DEF startResume, endResume
    <3> QED
      BY <1>3, <1>4, <3>1 DEF HeapOK, LockOK, StopOK
  <2> QED
    BY <2>1, <2>2, <2>3, <2>4, <2>5 DEF SuspendResume
<1> QED
  BY <1>3, <1>5, <1>6, <1>7, <1>8 DEF SInv

LEMMA InitSafe == Init => SInv
<1> SUFFICES ASSUME Init PROVE SInv
  OBVIOUS
<1>1. /\ \A t \in Threads : pc[t] \in {"run", "none"} /\ op[t] = "run" /\ ~blocking[t]
      /\ pc[Dumper] = "dump"
  BY ThreadLifeAssumption DEF Init, Actors, Threads
<1> QED
  BY <1>1 DEF SInv, HeapOK, LockOK, BlockOK, StopOK, Collecting

(* Every step, when the ones that are known to break it are left out.      *)
LEMMA NextSafe ==
    ASSUME Plain, IInv, TypeOK', SInv, [Next]_vars,
           (\E a \in Threads : pc[a] = "stopped") => list' \subseteq list
    PROVE  SInv'
<1>1. ASSUME NEW t \in Threads, Begin(t) \/ End(t) \/ Step(t) PROVE SInv'
  BY <1>1, SuspensionSafe, OwnStepsSafe, StartsSafe DEF Step
<1>2. ASSUME NEW a \in Actors, SuspendResume(a) PROVE SInv'
  BY <1>2, CollectorSafe
<1>3. CASE MainStep
  <2>1. Main \in Threads
    BY DEF Threads
  <2> QED
    BY <1>3, <2>1, OwnStepsSafe
<1>4. ~dumpThreads /\ \A c \in Internal : ~createVMThread(c)
  BY DEF Plain, dumpThreads, createVMThread
<1>5. CASE UNCHANGED vars
  BY <1>5 DEF vars, locks, flags, listing, signals, loop, doing, SInv, HeapOK, LockOK, BlockOK,
     StopOK, Caught
<1> QED
  BY <1>1, <1>2, <1>3, <1>4, <1>5 DEF Next

LEMMA SafeStops == IInv /\ SInv => StopTheWorld
<1> SUFFICES ASSUME IInv, SInv, NEW t \in Threads, pc[t] = "stopped", NEW u \in Threads \ {t}
             PROVE  pc[u] \notin {"run", "attach"}
  BY DEF StopTheWorld
<1>1. ThreadOK(u) /\ BlockOK(u) /\ StopOK(t)
  BY DEF IInv, SInv
<1>2. pc[u] = "run" => u \in list
  BY <1>1 DEF ThreadOK, ListedOK, OpOK, Outside, Joining
<1> QED
  BY <1>1, <1>2 DEF StopOK, BlockOK, Caught

(* The collector is stop-the-world: with the steps above left out, and     *)
(* when no thread is put on the list while the others are stopped, the one *)
(* that marks and sweeps is the only one that runs Java code.              *)
THEOREM Stops == ASSUME Plain PROVE Spec /\ NobodyJoins => []StopTheWorld
<1>1. Init => SInv
  BY InitSafe
<1>2. /\ IInv /\ IInv' /\ SInv /\ [Next]_vars
      /\ [(\E a \in Threads : pc[a] = "stopped") => list' \subseteq list]_vars
      => SInv'
  <2>1. IInv' => TypeOK'
    BY DEF IInv
  <2>2. ASSUME UNCHANGED vars PROVE list' = list
    BY <2>2 DEF vars, listing
  <2> QED
    BY <2>1, <2>2, NextSafe
<1>3. IInv /\ SInv => StopTheWorld
  BY SafeStops
<1> QED
  BY <1>1, <1>2, <1>3, Invariance, PTL DEF Spec, NobodyJoins

-----------------------------------------------------------------------------
(* When no thread is created, whatever threads there are at first, nobody  *)
(* can join.                                                               *)
NoneCreates == \A t \in Threads : op[t] # "create"

LEMMA NobodyCanJoin ==
    ASSUME "create" \notin Ops, IInv, SInv, NoneCreates, [Next]_vars
    PROVE  NoneCreates' /\ list' \subseteq list
<1> USE DEF Set, locks, listing, flags, signals, loop, doing
<1>1. op \in [Threads -> {"run", "native", "alloc", "gc", "create", "exit", "wait"}]
  BY DEF IInv, TypeOK
<1>2. ASSUME NEW t \in Threads, Begin(t) \/ End(t) PROVE NoneCreates' /\ list' \subseteq list
  <2>1. PICK o, c : o \in {"native", "alloc", "gc", "exit", "wait"} /\ disableSuspend(t, o, c)
    BY <1>2 DEF Begin, End
  <2> QED
    BY <1>1, <2>1 DEF disableSuspend, NoneCreates
<1>3. ASSUME NEW t \in Threads, Step(t) PROVE NoneCreates' /\ list' \subseteq list
  <2>1. ThreadOK(t) /\ BlockOK(t)
    BY DEF IInv, SInv
  <2>2. ~attachThread(t) /\ ~addToList(t)
    BY <2>1 DEF attachThread, addToList, ThreadOK, OpOK, BlockOK, Creating, NoneCreates
  <2>3. CASE unblockSignal(t)
    BY <1>1, <2>3 DEF unblockSignal, NoneCreates
  <2>4. CASE ~unblockSignal(t)
    <3>1. op' = op /\ list' \subseteq list
      BY <1>3, <2>2, <2>4 DEF Step, disabled, enableSuspend, drainStore, testSuspend,
         suspendHandler, suspended, sigsuspend, lockHeap, createJavaThread, pthread_create,
         threadStart, threadStarted, removeFromList, threadFreed, signalExit, leaveNative,
         unlockHeap
    <3> QED
      BY <3>1 DEF NoneCreates
  <2> QED
    BY <2>3, <2>4
<1>4. CASE \E a \in Actors : SuspendResume(a)
  BY <1>4 DEF SuspendResume, lockQueue, setSuspend, pthread_kill, awaitThread, startResume,
     endResume, NoneCreates
<1>5. CASE \/ \E c \in Internal : createVMThread(c)
           \/ dumpThreads \/ MainStep \/ UNCHANGED vars
  BY <1>5 DEF createVMThread, dumpThreads, MainStep, lockExit, testExit, parkExit, vars,
     NoneCreates
<1> QED
  BY <1>2, <1>3, <1>4, <1>5 DEF Next

(* The collector is stop-the-world for a fixed set of threads, which       *)
(* collect, allocate, call native code and end: nothing else is assumed.   *)
THEOREM FixedThreadsStop ==
    ASSUME Plain, "create" \notin Ops
    PROVE  Spec => []StopTheWorld
<1>1. Init => SInv /\ NoneCreates
  BY InitSafe DEF Init, NoneCreates
<1>2. IInv /\ IInv' /\ SInv /\ NoneCreates /\ [Next]_vars => SInv' /\ NoneCreates'
  <2>1. IInv' => TypeOK'
    BY DEF IInv
  <2> QED
    BY <2>1, NextSafe, NobodyCanJoin
<1>3. IInv /\ SInv => StopTheWorld
  BY SafeStops
<1> QED
  BY <1>1, <1>2, <1>3, Invariance, PTL DEF Spec

===============================================================================
