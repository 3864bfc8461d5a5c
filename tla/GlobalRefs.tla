----------------------------- MODULE GlobalRefs -----------------------------
(***************************************************************************)
(* The table of the global references of JNI (jni.c).                      *)
(*                                                                         *)
(* The collector keeps the objects in the table.  GetStringChars and the   *)
(* functions for arrays add a reference too, so that an object is in the   *)
(* table as often as it was added and not deleted.  Whoever uses the table *)
(* holds its lock and cannot be suspended, so the operations are atomic.   *)
(***************************************************************************)
EXTENDS Naturals, FiniteSets

CONSTANTS
    Referents,     \* objects
    GREF_INCR,     \* LIST_INCR, of this table
    MaxRefs,       \* bound: how many references there are at a time
    DeletesNull,   \* whether programs delete a reference that is null
    NoRef

ASSUME RefsAssumption ==
    /\ NoRef \notin Referents /\ GREF_INCR \in Nat \ {0} /\ MaxRefs \in Nat
    /\ DeletesNull \in BOOLEAN

VARIABLES
    global_ref_table,   \* [0..global_ref_size - 1 -> Referents \cup {NoRef}]
    global_ref_size,
    global_ref_next,
    global_ref_deleted,
    held                \* how often each object was added and not deleted

grefVars == <<global_ref_table, global_ref_size, global_ref_next, global_ref_deleted, held>>

GrefsInit ==
    /\ global_ref_table = [i \in {} |-> NoRef]
    /\ global_ref_size = 0 /\ global_ref_next = 0 /\ global_ref_deleted = 0
    /\ held = [o \in Referents |-> 0]

Holding(i) == global_ref_table[i] # NoRef

(* The table with the holes closed, and how much of it is in use: the      *)
(* entry at i goes where as many entries are before it as there were.      *)
Before(i) == Cardinality({k \in 0..(i - 1) : Holding(k)})

(* Fault: the last entry of the table is left behind.                      *)
Compacted_short(size) ==
    [j \in 0..(size - 1) |->
        IF \E i \in 0..(global_ref_size - 2) : Holding(i) /\ Before(i) = j
        THEN global_ref_table[CHOOSE i \in 0..(global_ref_size - 2) : Holding(i) /\ Before(i) = j]
        ELSE NoRef]

Compacted(size) ==
    [j \in 0..(size - 1) |->
        IF \E i \in 0..(global_ref_size - 1) : Holding(i) /\ Before(i) = j
        THEN global_ref_table[CHOOSE i \in 0..(global_ref_size - 1) : Holding(i) /\ Before(i) = j]
        ELSE NoRef]

(* Fault: room is made in place if there is any hole.                      *)
NewSize_few == IF global_ref_deleted > 0 THEN global_ref_size - global_ref_deleted
               ELSE global_ref_size + GREF_INCR

(* Room is made in place if there are holes enough.                        *)
NewSize ==
    IF global_ref_deleted >= GREF_INCR THEN global_ref_size
    ELSE global_ref_size + GREF_INCR - global_ref_deleted

addJNIGref(ref) ==
    /\ held[ref] < MaxRefs
    /\ IF global_ref_next = global_ref_size
       THEN LET next == Before(global_ref_size) IN
            /\ global_ref_table' = [Compacted(NewSize) EXCEPT ![next] = ref]
            /\ global_ref_size' = NewSize
            /\ global_ref_next' = next + 1
            /\ global_ref_deleted' = 0
       ELSE /\ global_ref_table' = [global_ref_table EXCEPT ![global_ref_next] = ref]
            /\ global_ref_next' = global_ref_next + 1
            /\ UNCHANGED <<global_ref_size, global_ref_deleted>>
    /\ held' = [held EXCEPT ![ref] = @ + 1]

(* The first entry that is ref is deleted.                                 *)
delJNIGref(ref) ==
    /\ \E i \in 0..(global_ref_next - 1) :
          /\ global_ref_table[i] = ref
          /\ \A k \in 0..(i - 1) : global_ref_table[k] # ref
          /\ global_ref_table' = [global_ref_table EXCEPT ![i] = NoRef]
          /\ global_ref_deleted' = global_ref_deleted + 1
    /\ held' = IF ref = NoRef THEN held ELSE [held EXCEPT ![ref] = @ - 1]
    /\ UNCHANGED <<global_ref_size, global_ref_next>>

GrefsNext ==
    \/ \E ref \in Referents : addJNIGref(ref) \/ delJNIGref(ref)
    \/ DeletesNull /\ delJNIGref(NoRef)

GrefsSpec == GrefsInit /\ [][GrefsNext]_grefVars

-----------------------------------------------------------------------------
(* What markJNIGlobalRefs marks.                                           *)
markJNIGlobalRefs == {global_ref_table[i] : i \in {k \in 0..(global_ref_next - 1) : Holding(k)}}

(* Nothing is written behind the end of the table: the holes that are      *)
(* counted are there, so that closing them makes room.                     *)
TableIsLargeEnough ==
    /\ DOMAIN global_ref_table = 0..(global_ref_size - 1)
    /\ global_ref_next <= global_ref_size
    /\ global_ref_deleted = Cardinality({i \in 0..(global_ref_next - 1) : ~Holding(i)})

(* The collector keeps what has been added and not deleted, and nothing    *)
(* else: each object is in the part of the table that is in use as often   *)
(* as it is held, however deletions, which leave holes, and additions,     *)
(* which close them, follow one another, and within the memory there is    *)
(* for the table (addJNIGref, delJNIGref, markJNIGlobalRefs).              *)
HeldAreMarked ==
    /\ TableIsLargeEnough
    /\ markJNIGlobalRefs = {o \in Referents : held[o] > 0}
    /\ \A o \in Referents :
          Cardinality({i \in 0..(global_ref_next - 1) : global_ref_table[i] = o}) = held[o]

=============================================================================
