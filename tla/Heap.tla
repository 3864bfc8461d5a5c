---------------------------------- MODULE Heap ----------------------------------
(***************************************************************************)
(* The heap of alloc.c: the blocks between heapbase and heaplimit, the     *)
(* list of free chunks with the cursor of the allocator, the collection    *)
(* that rebuilds it, the growth of the heap, and gcMalloc, whose failure   *)
(* state all threads share.  Addresses and sizes count object grains.      *)
(*                                                                         *)
(* What the program reaches is a set; what doMark finds besides, since it  *)
(* takes any word of a C stack for a reference, is any other set.  While   *)
(* heap_lock is held, nobody else is here, and a collection, in a stopped  *)
(* world, is one step.  A finalizer that allocates is another thread: the  *)
(* one that runs it is outside of the lock.                                *)
(***************************************************************************)
EXTENDS Integers, Sequences, FiniteSets, SequencesExt, FiniteSetsExt

CONSTANTS
    Threads,
    MinHeap, heapmax,   \* the initial and the largest size of the heap
    Requests,       \* the sizes threads ask for
    OOMSize,        \* that of an OutOfMemoryError
    Nil

ASSUME HeapAssumption ==
    /\ MinHeap \in Nat \ {0} /\ heapmax \in Nat /\ MinHeap <= heapmax
    /\ Requests \subseteq Nat \ {0} /\ OOMSize \in Requests
    /\ Nil \notin Threads

VARIABLES
    heaplimit,
    header,     \* by address: the size of a block, and its ALLOC_BIT
    freelist,   \* the addresses of the free chunks, in the order of the list
    chunkpp,    \* the place in freelist where the next search goes on
    heapfree,
    state,      \* the allocation failure action
    heap_lock,  \* its holder, or Nil
    reach,      \* the objects the program can reach
    pc,         \* where each thread is
    n,          \* the size it asks for
    throwing    \* the threads that are in signalException

heapVars == <<heaplimit, header, freelist, chunkpp, heapfree>>
vars     == <<heapVars, state, heap_lock, reach, pc, n, throwing>>

Chunk(size) == [size |-> size, alloced |-> FALSE]

(* The headers h with that of a block at a.                                *)
With(h, a, block) == [b \in DOMAIN h \cup {a} |-> IF b = a THEN block ELSE h[b]]

Init ==
    /\ heaplimit = MinHeap
    /\ header = [a \in {0} |-> Chunk(MinHeap)]
    /\ freelist = <<0>> /\ chunkpp = 1
    /\ heapfree = MinHeap
    /\ state = 0
    /\ heap_lock = Nil
    /\ reach = {}
    /\ pc = [t \in Threads |-> "java"]
    /\ n = [t \in Threads |-> 0]
    /\ throwing = {}

Goto(t, l) == pc' = [pc EXCEPT ![t] = l]

Objects == {a \in DOMAIN header : header[a].alloced}

-----------------------------------------------------------------------------
(* doSweep.  One block after the other, in the order of their addresses:   *)
(* a free or unmarked block becomes a chunk, or is merged onto the last    *)
(* one when that is still open; a marked one closes it.                    *)
Sweep(h, list, open, largest, free) ==
    [header |-> h, list |-> list, open |-> open, largest |-> largest, free |-> free]

Swept0 == Sweep(<<>>, <<>>, FALSE, 0, 0)

Close(s) ==
    LET size == s.header[Last(s.list)].size
    IN  IF s.open THEN Sweep(s.header, s.list, FALSE, Max({s.largest, size}), s.free + size)
        ELSE s

Kept(s, a) == Sweep(With(s.header, a, header[a]), s.list, FALSE, s.largest, s.free)

Merged(s, a, size) ==
    Sweep(With(s.header, a, Chunk(s.header[a].size + size)), s.list, TRUE, s.largest, s.free)

Opened(s, a) ==
    Sweep(With(s.header, a, Chunk(header[a].size)), Append(s.list, a), TRUE, s.largest, s.free)

SweepBlock_greedy(marked, s, a) ==  \* fault: merging does not test the mark
    IF s.open THEN Merged(s, Last(s.list), header[a].size)
    ELSE IF a \in marked THEN Kept(s, a)
    ELSE Opened(s, a)

SweepBlock(marked, s, a) ==
    IF a \in marked THEN Kept(Close(s), a)
    ELSE IF s.open THEN Merged(s, Last(s.list), header[a].size)
    ELSE Opened(s, a)

(* What is swept of the heap up to its end, but for the last chunk.        *)
SweptBlocks(marked) ==
    LET swept[i \in 0 .. heaplimit] ==
            IF i = 0 THEN Swept0
            ELSE IF i - 1 \in DOMAIN header THEN SweepBlock(marked, swept[i - 1], i - 1)
            ELSE swept[i - 1]
    IN  swept[heaplimit]

Swept_noLast(marked) == SweptBlocks(marked)  \* fault: the last chunk is not accounted for

Swept(marked) == Close(SweptBlocks(marked))

doSweep(s) ==
    /\ header' = s.header
    /\ freelist' = s.list
    /\ chunkpp' = 1
    /\ heapfree' = s.free
    /\ UNCHANGED heaplimit

(* What may be marked: all that is reachable, and more.                    *)
Marks == {reach \cup extra : extra \in SUBSET (Objects \ reach)}

-----------------------------------------------------------------------------
(* The search of gcMalloc for the first chunk that is large enough, from   *)
(* where the last search ended.                                            *)
Fits(size) ==
    {i \in chunkpp .. Len(freelist) : header[freelist[i]].size >= size}

gotIt_whole(t, i) ==  \* fault: the remainder has the size of the chunk
    LET a   == freelist[i]
        len == header[a].size
        new == With(header, a, [size |-> n[t], alloced |-> TRUE])
    IN  /\ \/ /\ len = n[t]
              /\ header' = new
              /\ freelist' = RemoveAt(freelist, i)
           \/ /\ len > n[t]
              /\ header' = With(new, a + n[t], Chunk(len))
              /\ freelist' = [freelist EXCEPT ![i] = a + n[t]]
        /\ chunkpp' = i
        /\ heapfree' = heapfree - n[t]
        /\ reach' = reach \cup {a}
        /\ UNCHANGED heaplimit

gotIt(t, i) ==
    LET a   == freelist[i]
        len == header[a].size
        new == With(header, a, [size |-> n[t], alloced |-> TRUE])
    IN  /\ \/ /\ len = n[t]
              /\ header' = new
              /\ freelist' = RemoveAt(freelist, i)
           \/ /\ len > n[t]
              /\ header' = With(new, a + n[t], Chunk(len - n[t]))
              /\ freelist' = [freelist EXCEPT ![i] = a + n[t]]
        /\ chunkpp' = i
        /\ heapfree' = heapfree - n[t]
        /\ reach' = reach \cup {a}
        /\ UNCHANGED heaplimit

gcMalloc(t, size) ==
    /\ pc[t] = "java"
    /\ n' = [n EXCEPT ![t] = size]
    /\ Goto(t, "lock")
    /\ UNCHANGED <<heapVars, state, heap_lock, reach, throwing>>

lockHeap(t) ==
    /\ pc[t] = "lock" /\ heap_lock = Nil
    /\ heap_lock' = t
    /\ Goto(t, "search")
    /\ UNCHANGED <<heapVars, state, reach, n, throwing>>

search(t) ==
    /\ pc[t] = "search"
    /\ \/ /\ Fits(n[t]) # {}
          /\ gotIt(t, Min(Fits(n[t])))
          /\ Goto(t, "unlock")
       \/ /\ Fits(n[t]) = {}
          /\ chunkpp' = Len(freelist) + 1
          /\ Goto(t, "failed")
          /\ UNCHANGED <<heaplimit, header, freelist, heapfree, reach>>
    /\ UNCHANGED <<state, heap_lock, n, throwing>>

-----------------------------------------------------------------------------
(* When no chunk is large enough: switch(state).                           *)

(* case 0: collect; the list is searched again, or else it is case 1.      *)
case0(t) ==
    /\ pc[t] = "failed" /\ state = 0
    /\ \E marked \in Marks :
          LET s == Swept(marked) IN
          /\ doSweep(s)
          /\ IF n[t] <= s.largest
             THEN state' = 0 /\ Goto(t, "search")
             ELSE state' = 1 /\ UNCHANGED pc
    /\ UNCHANGED <<heap_lock, reach, n, throwing>>

(* case 1: run finalizers, without the lock, and collect if some were run; *)
(* somebody else may have changed the state meanwhile.                     *)
case1(t) ==
    /\ pc[t] = "failed" /\ state = 1
    /\ heap_lock' = Nil
    /\ Goto(t, "finalizers")
    /\ UNCHANGED <<heapVars, state, reach, n, throwing>>

runFinalizers(t, res) ==
    /\ pc[t] = "finalizers" /\ heap_lock = Nil
    /\ heap_lock' = t
    /\ Goto(t, "search")
    /\ \/ state # 1 /\ UNCHANGED <<heapVars, state>>
       \/ state = 1 /\ ~res /\ state' = 2 /\ UNCHANGED heapVars
       \/ /\ state = 1 /\ res
          /\ \E marked \in Marks :
                LET s == Swept(marked) IN
                /\ doSweep(s)
                /\ state' = IF n[t] <= s.largest THEN 0 ELSE 2
    /\ UNCHANGED <<reach, n, throwing>>

(* case 2: the heap grows by half, by more if that is not enough, and not  *)
(* beyond its maximum.  The list is in address order: the new area goes to *)
(* its end.                                                                *)
Delta_unbounded(min) == Max({heaplimit \div 2, min})  \* fault: no maximum

Delta(min) == Min({Max({heaplimit \div 2, min}), heapmax - heaplimit})

expandHeap_front(min) ==  \* fault: the new area goes to the front
    /\ header' = With(header, heaplimit, Chunk(Delta(min)))
    /\ freelist' = <<heaplimit>> \o freelist
    /\ heaplimit' = heaplimit + Delta(min)
    /\ heapfree' = heapfree + Delta(min)
    /\ UNCHANGED chunkpp

expandHeap(min) ==
    /\ header' = With(header, heaplimit, Chunk(Delta(min)))
    /\ freelist' = Append(freelist, heaplimit)
    /\ heaplimit' = heaplimit + Delta(min)
    /\ heapfree' = heapfree + Delta(min)
    /\ UNCHANGED chunkpp

case2(t) ==
    /\ pc[t] = "failed" /\ state = 2
    /\ heaplimit < heapmax /\ freelist # <<>>
    /\ expandHeap(n[t])
    /\ state' = 0
    /\ Goto(t, "search")
    /\ UNCHANGED <<heap_lock, reach, n, throwing>>

(* Without a last free chunk, expandHeap follows a null pointer.           *)
crash(t) ==
    /\ pc[t] = "failed" /\ state = 2
    /\ heaplimit < heapmax /\ freelist = <<>>
    /\ Goto(t, "crashed")
    /\ UNCHANGED <<heapVars, state, heap_lock, reach, n, throwing>>

(* The heap cannot grow: signalException, which allocates the exception.   *)
case2AtMaximum(t) ==
    /\ pc[t] = "failed" /\ state = 2
    /\ heaplimit >= heapmax
    /\ state' = 3
    /\ chunkpp' = 1
    /\ heap_lock' = Nil
    /\ throwing' = throwing \cup {t}
    /\ n' = [n EXCEPT ![t] = OOMSize]
    /\ Goto(t, "lock")
    /\ UNCHANGED <<heaplimit, header, freelist, heapfree, reach>>

(* case 3: the exception prepared at start-up is thrown.                   *)
case3(t) ==
    /\ pc[t] = "failed" /\ state = 3
    /\ state' = 0
    /\ heap_lock' = Nil
    /\ throwing' = throwing \ {t}
    /\ Goto(t, "java")
    /\ UNCHANGED <<heapVars, reach, n>>

unlockHeap(t) ==
    /\ pc[t] = "unlock"
    /\ heap_lock' = Nil
    /\ throwing' = throwing \ {t}
    /\ Goto(t, "java")
    /\ UNCHANGED <<heapVars, state, reach, n>>

(* System.gc() and the asynchronous collector.                             *)
gc1(t) ==
    /\ pc[t] = "java" /\ heap_lock = Nil
    /\ \E marked \in Marks : doSweep(Swept(marked))
    /\ UNCHANGED <<state, heap_lock, reach, pc, n, throwing>>

(* The program loses its last reference to an object.                      *)
drop(a) ==
    /\ a \in reach
    /\ reach' = reach \ {a}
    /\ UNCHANGED <<heapVars, state, heap_lock, pc, n, throwing>>

-----------------------------------------------------------------------------
Call(t) ==
    \/ lockHeap(t) \/ search(t) \/ case0(t) \/ case1(t)
    \/ \E res \in BOOLEAN : runFinalizers(t, res)
    \/ case2(t) \/ crash(t) \/ case2AtMaximum(t) \/ case3(t) \/ unlockHeap(t)

Alive == \A t \in Threads : pc[t] # "crashed"

Next ==
    /\ Alive
    /\ \/ \E t \in Threads :
             \/ \E size \in Requests : gcMalloc(t, size)
             \/ gc1(t)
             \/ Call(t)
       \/ \E a \in reach : drop(a)

Spec == Init /\ [][Next]_vars

-----------------------------------------------------------------------------
(* Properties.                                                             *)
TypeOK ==
    /\ heaplimit \in MinHeap .. heapmax
    /\ DOMAIN header \subseteq 0 .. heaplimit - 1
    /\ \A a \in DOMAIN header : header[a] \in [size : 1 .. heaplimit, alloced : BOOLEAN]
    /\ freelist \in Seq(DOMAIN header)
    /\ chunkpp \in 1 .. Len(freelist) + 1
    /\ heapfree \in 0 .. heaplimit
    /\ state \in 0 .. 3
    /\ heap_lock \in Threads \cup {Nil}
    /\ reach \subseteq DOMAIN header
    /\ pc \in [Threads -> {"java", "lock", "search", "failed", "finalizers",
                           "unlock", "crashed"}]
    /\ n \in [Threads -> {0} \cup Requests]
    /\ throwing \subseteq Threads

(* Walking the heap from header to header ends exactly at heaplimit, which *)
(* every mark and every sweep relies on, and which stays below heapmax.    *)
HeapIsTiled ==
    /\ TypeOK
    /\ \A i \in 0 .. heaplimit - 1 :
          Cardinality({a \in DOMAIN header : i \in a .. a + header[a].size - 1}) = 1

(* "The freelist is in address order"; it has every free chunk and no      *)
(* object, and heapfree is the number of grains in it.                     *)
FreeListIsAccurate ==
    /\ \A i \in 1 .. Len(freelist) - 1 : freelist[i] < freelist[i + 1]
    /\ Range(freelist) = DOMAIN header \ Objects
    /\ heapfree = Cardinality(UNION {a .. a + header[a].size - 1 : a \in Range(freelist)})

(* What the program can reach is never free, and no part of it is given    *)
(* out again.                                                              *)
ReachableAreKept ==
    [][\A a \in reach \cap reach' :
          a \in Objects /\ a \in DOMAIN header' /\ header'[a] = header[a]]_vars

(* doSweep: "Return the size of the largest free chunk in heap".  What it  *)
(* returns decides whether gcMalloc searches again: after a collection     *)
(* that was enough the search finds a chunk, from where it starts, and     *)
(* after one that was not there is none.                                   *)
LargestIsRight ==
    [][\A t \in Threads :
          pc[t] = "failed" /\ state = 0 /\ <<pc[t], state>>' # <<pc[t], state>> =>
             (state' = 0 <=> Fits(n[t])' # {})]_vars

(* "Already throwing an OutOfMemoryError in some thread": that is what     *)
(* state 3 means.  It does not: see the README.                            *)
AlreadyThrowing == state = 3 => throwing # {}

(* expandHeap: "find the last free chunk".  There may be none: see the     *)
(* README.                                                                 *)
LastChunkExists == Alive

===============================================================================
