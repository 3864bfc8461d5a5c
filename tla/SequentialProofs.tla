--------------------------- MODULE SequentialProofs ---------------------------
(***************************************************************************)
(* Proofs about the tables of the VM and about casts: the global           *)
(* references of JNI (GlobalRefs), for any increment, objects and sequence *)
(* of additions and deletions; the hash tables (HashTable), for any keys,  *)
(* hashes and size, scavenged or not; and isInstanceOf (Casts), for any    *)
(* hierarchy.                                                              *)
(***************************************************************************)
EXTENDS GlobalRefs, HashTable, Casts, Integers, FiniteSetTheorems, FunctionTheorems, TLAPS

-----------------------------------------------------------------------------
(* The inductive invariant: the table has its size and is in use up to     *)
(* next, the holes in that part are counted, and every object is there as  *)
(* often as it is held.                                                    *)
GrefsTypeOK ==
    /\ global_ref_size \in Nat /\ global_ref_next \in 0..global_ref_size
    /\ global_ref_deleted \in Nat
    /\ global_ref_table \in [0..(global_ref_size - 1) -> Referents \cup {NoRef}]
    /\ held \in [Referents -> Nat]

Holes == {i \in 0..(global_ref_next - 1) : ~Holding(i)}
Places(o) == {i \in 0..(global_ref_next - 1) : global_ref_table[i] = o}

GrefsInv ==
    /\ GrefsTypeOK
    /\ global_ref_deleted = Cardinality(Holes)
    /\ \A o \in Referents : Cardinality(Places(o)) = held[o]

(* The entries of the whole table that hold a reference.                   *)
Kept == {i \in 0..(global_ref_size - 1) : Holding(i)}
HeldBelow(i) == {k \in 0..(i - 1) : Holding(k)}

LEMMA IntervalsAreFinite ==
    ASSUME NEW n \in Nat, NEW S \in SUBSET (0..(n - 1))
    PROVE  IsFiniteSet(S) /\ Cardinality(S) \in Nat /\ Cardinality(S) <= n
<1>1. IsFiniteSet(0..(n - 1)) /\ Cardinality(0..(n - 1)) = n
  <2>1. 0 \in Int /\ n - 1 \in Int
    OBVIOUS
  <2>2. /\ IsFiniteSet(0..(n - 1))
        /\ Cardinality(0..(n - 1)) = IF 0 > n - 1 THEN 0 ELSE (n - 1) - 0 + 1
    BY <2>1, FS_Interval
  <2> QED
    BY <2>2
<1>2. IsFiniteSet(S) /\ Cardinality(S) <= Cardinality(0..(n - 1))
  BY <1>1, FS_Subset
<1> QED
  BY <1>1, <1>2, FS_CardinalityType

(* The number of entries held before one that is held grows with it, and   *)
(* stays below the number of all of them.                                  *)
LEMMA BeforeGrows ==
    ASSUME NEW size \in Nat, size = global_ref_size,
           NEW i \in 0..(size - 1), NEW k \in 0..size, i < k, Holding(i)
    PROVE  Before(i) \in Nat /\ Before(k) \in Nat /\ Before(i) < Before(k)
<1>1. i \in Nat /\ k \in Nat /\ HeldBelow(i) \in SUBSET (0..(i - 1)) /\ HeldBelow(k) \in SUBSET (0..(k - 1))
  BY DEF HeldBelow
<1>2. /\ IsFiniteSet(HeldBelow(i)) /\ Cardinality(HeldBelow(i)) \in Nat
      /\ IsFiniteSet(HeldBelow(k)) /\ Cardinality(HeldBelow(k)) \in Nat
  BY <1>1, IntervalsAreFinite
<1>3. i \notin HeldBelow(i) /\ HeldBelow(i) \cup {i} \in SUBSET HeldBelow(k)
  BY <1>1 DEF HeldBelow
<1>4. Cardinality(HeldBelow(i) \cup {i}) = Cardinality(HeldBelow(i)) + 1
  BY <1>2, <1>3, FS_AddElement
<1>5. Cardinality(HeldBelow(i) \cup {i}) <= Cardinality(HeldBelow(k))
  BY <1>2, <1>3, FS_Subset
<1>6. Before(i) = Cardinality(HeldBelow(i)) /\ Before(k) = Cardinality(HeldBelow(k))
  BY DEF Before, HeldBelow
<1> QED
  BY <1>2, <1>4, <1>5, <1>6

(* The entries that are held are numbered 0 to n - 1 by how many are held  *)
(* before them.                                                            *)
LEMMA KeptAreNumbered ==
    ASSUME GrefsTypeOK, NEW n, n = Before(global_ref_size)
    PROVE  /\ n \in Nat
           /\ \A i \in Kept : Before(i) \in 0..(n - 1)
           /\ \A i, k \in Kept : Before(i) = Before(k) => i = k
           /\ \A j \in 0..(n - 1) : \E i \in Kept : Before(i) = j
<1> DEFINE number == [i \in Kept |-> Before(i)]
<1>1. PICK size \in Nat : size = global_ref_size
  BY DEF GrefsTypeOK
<1>2. Kept \in SUBSET (0..(size - 1)) /\ n = Cardinality(Kept)
  BY <1>1 DEF Kept, Before
<1>3. IsFiniteSet(Kept) /\ n \in Nat
  BY <1>2, IntervalsAreFinite
<1>4. ASSUME NEW i \in Kept PROVE Before(i) \in Nat /\ Before(i) < n
  <2>1. i \in 0..(size - 1) /\ size \in 0..size /\ i < size /\ Holding(i)
    BY <1>1 DEF Kept
  <2> QED
    BY <1>1, <2>1, BeforeGrows
<1>5. \A i \in Kept : Before(i) \in 0..(n - 1)
  BY <1>3, <1>4
<1>6. \A i, k \in Kept : Before(i) = Before(k) => i = k
  <2>1. SUFFICES ASSUME NEW i \in Kept, NEW k \in Kept, i < k
                 PROVE  Before(i) # Before(k)
    BY <1>2
  <2>2. Before(i) \in Nat /\ Before(k) \in Nat /\ Before(i) < Before(k)
    BY <1>1, <1>2, <2>1, BeforeGrows DEF Kept
  <2> QED
    BY <2>2
<1>7. number \in [Kept -> 0..(n - 1)] /\ \A i, k \in Kept : number[i] = number[k] => i = k
  BY <1>5, <1>6
<1> HIDE DEF number
<1>8. number \in Injection(Kept, 0..(n - 1))
  BY <1>7, Fun_IsInj
<1>9. IsFiniteSet(0..(n - 1)) /\ Cardinality(0..(n - 1)) = n
  <2>1. 0 \in Int /\ n - 1 \in Int
    BY <1>3
  <2>2. /\ IsFiniteSet(0..(n - 1))
        /\ Cardinality(0..(n - 1)) = IF 0 > n - 1 THEN 0 ELSE (n - 1) - 0 + 1
    BY <2>1, FS_Interval
  <2> QED
    BY <1>3, <2>2
<1>10. number \in Surjection(Kept, 0..(n - 1))
  BY <1>2, <1>8, <1>9, FS_Injection
<1>11. \A j \in 0..(n - 1) : \E i \in Kept : number[i] = j
  BY <1>10, Fun_SurjectionProperties
<1> QED
  BY <1>3, <1>5, <1>6, <1>11 DEF number

LEMMA GrefsCounts ==
    ASSUME GrefsTypeOK
    PROVE  /\ IsFiniteSet(Holes) /\ Cardinality(Holes) \in Nat
           /\ \A o : IsFiniteSet(Places(o)) /\ Cardinality(Places(o)) \in Nat
<1>1. PICK n \in Nat : n = global_ref_next
  BY DEF GrefsTypeOK
<1>2. Holes \in SUBSET (0..(n - 1)) /\ \A o : Places(o) \in SUBSET (0..(n - 1))
  BY <1>1 DEF Holes, Places
<1> QED
  BY <1>2, IntervalsAreFinite

(* There are as many entries as are held and holes.                        *)
LEMMA HeldAndHoles ==
    ASSUME GrefsTypeOK, global_ref_next = global_ref_size
    PROVE  Before(global_ref_size) + Cardinality(Holes) = global_ref_size
<1>1. PICK size \in Nat : size = global_ref_size
  BY DEF GrefsTypeOK
<1>2. Kept \in SUBSET (0..(size - 1)) /\ Holes \in SUBSET (0..(size - 1))
  BY <1>1 DEF Kept, Holes
<1>3. /\ IsFiniteSet(Kept) /\ Cardinality(Kept) \in Nat
      /\ IsFiniteSet(Holes) /\ Cardinality(Holes) \in Nat
  BY <1>2, IntervalsAreFinite
<1>4. Kept \cap Holes = {} /\ Kept \cup Holes = 0..(size - 1)
  BY <1>1 DEF Kept, Holes
<1>5. Cardinality(Kept \cup Holes)
        = Cardinality(Kept) + Cardinality(Holes) - Cardinality(Kept \cap Holes)
  BY <1>3, FS_Union
<1>6. Cardinality(Kept \cap Holes) = 0
  BY <1>4, FS_EmptySet
<1>7. Cardinality(0..(size - 1)) = size
  <2>1. 0 \in Int /\ size - 1 \in Int
    OBVIOUS
  <2>2. Cardinality(0..(size - 1)) = IF 0 > size - 1 THEN 0 ELSE (size - 1) - 0 + 1
    BY <2>1, FS_Interval
  <2> QED
    BY <2>2
<1>8. Before(global_ref_size) = Cardinality(Kept)
  BY <1>1 DEF Before, Kept
<1>9. Cardinality(Kept \cup Holes) = Cardinality(Kept) + Cardinality(Holes)
  <2>1. \A a, b \in Nat : a + b - 0 = a + b
    OBVIOUS
  <2> QED
    BY <1>3, <1>5, <1>6, <2>1
<1> QED
  BY <1>1, <1>4, <1>7, <1>8, <1>9

(* What the table is when the holes are closed: the entries up to the      *)
(* number of those that are held are references, each object is there as   *)
(* often as it was, and there is room for one more.                        *)
LEMMA HolesAreClosed ==
    ASSUME GrefsInv, global_ref_next = global_ref_size,
           NEW n, n = Before(global_ref_size), NEW size, size = NewSize,
           NEW new, new = Compacted(NewSize)
    PROVE  /\ n \in Nat /\ size \in Nat /\ n < size
           /\ new \in [0..(size - 1) -> Referents \cup {NoRef}]
           /\ \A j \in 0..(n - 1) : new[j] # NoRef
           /\ \A o \in Referents :
                 /\ IsFiniteSet({j \in 0..(n - 1) : new[j] = o})
                 /\ Cardinality({j \in 0..(n - 1) : new[j] = o}) = held[o]
<1>1. /\ n \in Nat
      /\ \A i \in Kept : Before(i) \in 0..(n - 1)
      /\ \A i, k \in Kept : Before(i) = Before(k) => i = k
      /\ \A j \in 0..(n - 1) : \E i \in Kept : Before(i) = j
  BY KeptAreNumbered DEF GrefsInv
<1>2. n + global_ref_deleted = global_ref_size /\ global_ref_deleted \in Nat
      /\ global_ref_size \in Nat
  BY HeldAndHoles DEF GrefsInv, GrefsTypeOK
<1>3. size \in Nat /\ n < size
  BY <1>1, <1>2, RefsAssumption DEF NewSize
<1>4. ASSUME NEW i \in Kept PROVE new[Before(i)] = global_ref_table[i]
  <2>1. Before(i) \in 0..(size - 1)
    BY <1>1, <1>3
  <2>2. Holding(i) /\ i \in 0..(global_ref_size - 1)
    BY DEF Kept
  <2>3. \E k \in 0..(global_ref_size - 1) : Holding(k) /\ Before(k) = Before(i)
    BY <2>2
  <2>4. \A k \in 0..(global_ref_size - 1) : Holding(k) /\ Before(k) = Before(i) => k = i
    BY <1>1, <2>2 DEF Kept
  <2>5. (CHOOSE k \in 0..(global_ref_size - 1) : Holding(k) /\ Before(k) = Before(i)) = i
    BY <2>3, <2>4
  <2>6. new[Before(i)] =
           IF \E k \in 0..(global_ref_size - 1) : Holding(k) /\ Before(k) = Before(i)
           THEN global_ref_table[CHOOSE k \in 0..(global_ref_size - 1) :
                                    Holding(k) /\ Before(k) = Before(i)]
           ELSE NoRef
    BY <2>1 DEF Compacted
  <2> QED
    BY <2>3, <2>5, <2>6
<1>5. \A j \in 0..(n - 1) : \E i \in Kept : Before(i) = j /\ new[j] = global_ref_table[i]
  BY <1>1, <1>4
<1>6. \A i \in Kept : global_ref_table[i] \in Referents /\ global_ref_table[i] # NoRef
  BY DEF Kept, Holding, GrefsInv, GrefsTypeOK
<1>7. \A j \in 0..(n - 1) : new[j] \in Referents /\ new[j] # NoRef
  BY <1>5, <1>6
<1>8. \A j \in 0..(size - 1) : j \notin 0..(n - 1) => new[j] = NoRef
  <2>1. SUFFICES ASSUME NEW j \in 0..(size - 1), j \notin 0..(n - 1)
                 PROVE  new[j] = NoRef
    OBVIOUS
  <2>2. ~\E k \in 0..(global_ref_size - 1) : Holding(k) /\ Before(k) = j
    BY <1>1, <2>1 DEF Kept
  <2> QED
    BY <2>1, <2>2 DEF Compacted
<1>9. new \in [0..(size - 1) -> Referents \cup {NoRef}]
  BY <1>7, <1>8 DEF Compacted
<1>10. ASSUME NEW o \in Referents
       PROVE  /\ IsFiniteSet({j \in 0..(n - 1) : new[j] = o})
              /\ Cardinality({j \in 0..(n - 1) : new[j] = o}) = held[o]
  <2> DEFINE after == {j \in 0..(n - 1) : new[j] = o}
             number == [i \in Places(o) |-> Before(i)]
  <2>1. Places(o) = {i \in Kept : global_ref_table[i] = o}
    BY RefsAssumption DEF Places, Kept, Holding
  <2>2. number \in [Places(o) -> after]
    BY <1>1, <1>4, <2>1
  <2>3. \A i, k \in Places(o) : number[i] = number[k] => i = k
    BY <1>1, <2>1
  <2>4. \A j \in after : \E i \in Places(o) : number[i] = j
    BY <1>5, <2>1
  <2> HIDE DEF after, number
  <2>5. number \in Bijection(Places(o), after)
    BY <2>2, <2>3, <2>4, Fun_IsBij
  <2>6. ExistsBijection(Places(o), after)
    BY <2>5 DEF ExistsBijection
  <2>7. IsFiniteSet(Places(o)) /\ Cardinality(Places(o)) = held[o]
    BY GrefsCounts DEF GrefsInv
  <2>8. IsFiniteSet(after) /\ Cardinality(after) = Cardinality(Places(o))
    BY <2>6, <2>7, FS_Bijection
  <2> QED
    BY <2>7, <2>8 DEF after
<1> QED
  BY <1>1, <1>3, <1>7, <1>9, <1>10

-----------------------------------------------------------------------------
LEMMA GrefsStart == GrefsInit => GrefsInv
<1> SUFFICES ASSUME GrefsInit PROVE GrefsInv
  OBVIOUS
<1>1. GrefsTypeOK
  BY DEF GrefsInit, GrefsTypeOK
<1>2. Holes = {} /\ \A o : Places(o) = {}
  BY DEF GrefsInit, Holes, Places
<1> QED
  BY <1>1, <1>2, FS_EmptySet DEF GrefsInv, GrefsInit

LEMMA AddKeeps ==
    ASSUME GrefsInv, NEW ref \in Referents, addJNIGref(ref)
    PROVE  GrefsInv'
<1>1. PICK next \in Nat : next = global_ref_next
  BY DEF GrefsInv, GrefsTypeOK
<1>2. ref # NoRef
  BY RefsAssumption
<1>3. /\ held' = [held EXCEPT ![ref] = @ + 1] /\ held' \in [Referents -> Nat]
      /\ held'[ref] = held[ref] + 1 /\ \A o \in Referents \ {ref} : held'[o] = held[o]
  BY DEF addJNIGref, GrefsInv, GrefsTypeOK
<1> DEFINE Room(n, size, old) ==
             /\ n < size /\ global_ref_size' = size /\ global_ref_next' = n + 1
             /\ old \in [0..(size - 1) -> Referents \cup {NoRef}]
             /\ global_ref_table' = [old EXCEPT ![n] = ref]
             /\ global_ref_deleted' = Cardinality({j \in 0..(n - 1) : old[j] = NoRef})
             /\ global_ref_deleted' \in Nat
             /\ \A o \in Referents :
                   /\ IsFiniteSet({j \in 0..(n - 1) : old[j] = o})
                   /\ Cardinality({j \in 0..(n - 1) : old[j] = o}) = held[o]
(* It is enough that ref is stored behind a part of the table that has as  *)
(* many holes as are counted, and all that is held.                        *)
<1>4. ASSUME NEW n \in Nat, NEW size \in Nat, NEW old, Room(n, size, old)
      PROVE  GrefsInv'
  <2>1. GrefsTypeOK'
    BY <1>3, <1>4 DEF GrefsTypeOK
  <2>2. Holes' = {j \in 0..(n - 1) : old[j] = NoRef}
    BY <1>2, <1>4 DEF Holes, Holding
  <2>3. ASSUME NEW o \in Referents PROVE (Cardinality(Places(o)) = held[o])'
    <3> DEFINE before == {j \in 0..(n - 1) : old[j] = o}
    <3>1. IsFiniteSet(before) /\ Cardinality(before) = held[o]
      BY <1>4
    <3>2. CASE o = ref
      <4>1. Places(o)' = before \cup {n} /\ n \notin before
        BY <1>4, <3>2 DEF Places
      <4> HIDE DEF before
      <4>2. Cardinality(before \cup {n}) = Cardinality(before) + 1
        BY <3>1, <4>1, FS_AddElement
      <4> QED
        BY <1>3, <3>1, <3>2, <4>1, <4>2
    <3>3. CASE o # ref
      <4>1. Places(o)' = before
        BY <1>4, <3>3 DEF Places
      <4> QED
        BY <1>3, <3>1, <3>3, <4>1
    <3> QED
      BY <3>2, <3>3
  <2> QED
    BY <1>4, <2>1, <2>2, <2>3 DEF GrefsInv
<1> HIDE DEF Room
<1>5. CASE global_ref_next = global_ref_size
  <2>1. PICK n, size, new : n = Before(global_ref_size) /\ size = NewSize /\ new = Compacted(NewSize)
    OBVIOUS
  <2>2. /\ n \in Nat /\ size \in Nat /\ n < size
        /\ new \in [0..(size - 1) -> Referents \cup {NoRef}]
        /\ \A j \in 0..(n - 1) : new[j] # NoRef
        /\ \A o \in Referents :
              /\ IsFiniteSet({j \in 0..(n - 1) : new[j] = o})
              /\ Cardinality({j \in 0..(n - 1) : new[j] = o}) = held[o]
    BY <1>5, <2>1, HolesAreClosed
  <2>3. /\ global_ref_table' = [new EXCEPT ![n] = ref] /\ global_ref_size' = size
        /\ global_ref_next' = n + 1 /\ global_ref_deleted' = 0
    BY <1>5, <2>1 DEF addJNIGref
  <2>4. {j \in 0..(n - 1) : new[j] = NoRef} = {} /\ Cardinality({}) = 0
    BY <2>2, FS_EmptySet
  <2>5. Room(n, size, new)
    BY <2>2, <2>3, <2>4 DEF Room
  <2> QED
    BY <1>4, <2>2, <2>5
<1>6. CASE global_ref_next # global_ref_size
  <2>1. /\ global_ref_table' = [global_ref_table EXCEPT ![next] = ref]
        /\ global_ref_next' = next + 1
        /\ global_ref_size' = global_ref_size /\ global_ref_deleted' = global_ref_deleted
    BY <1>1, <1>6 DEF addJNIGref
  <2>2. next < global_ref_size /\ global_ref_size \in Nat
    BY <1>1, <1>6 DEF GrefsInv, GrefsTypeOK
  <2>3. Holes = {j \in 0..(next - 1) : global_ref_table[j] = NoRef}
    BY <1>1 DEF Holes, Holding
  <2>4. \A o : Places(o) = {j \in 0..(next - 1) : global_ref_table[j] = o}
    BY <1>1 DEF Places
  <2>5. \A o \in Referents :
           /\ IsFiniteSet({j \in 0..(next - 1) : global_ref_table[j] = o})
           /\ Cardinality({j \in 0..(next - 1) : global_ref_table[j] = o}) = held[o]
    BY <2>4, GrefsCounts DEF GrefsInv
  <2>6. /\ global_ref_table \in [0..(global_ref_size - 1) -> Referents \cup {NoRef}]
        /\ global_ref_deleted' = Cardinality(Holes) /\ Cardinality(Holes) \in Nat
    BY <2>1, GrefsCounts DEF GrefsInv, GrefsTypeOK
  <2>7. PICK size, old : size = global_ref_size /\ old = global_ref_table
    OBVIOUS
  <2>8. Room(next, size, old)
    BY <2>1, <2>2, <2>3, <2>5, <2>6, <2>7 DEF Room
  <2> QED
    BY <1>1, <1>4, <2>2, <2>7, <2>8
<1> QED
  BY <1>5, <1>6

LEMMA DeleteKeeps ==
    ASSUME GrefsInv, NEW ref \in Referents, delJNIGref(ref)
    PROVE  GrefsInv'
<1>1. PICK i \in 0..(global_ref_next - 1) :
         /\ global_ref_table[i] = ref
         /\ global_ref_table' = [global_ref_table EXCEPT ![i] = NoRef]
         /\ global_ref_deleted' = global_ref_deleted + 1
  BY DEF delJNIGref
<1>2. ref # NoRef
  BY RefsAssumption
<1>3. held' = [held EXCEPT ![ref] = @ - 1] /\ UNCHANGED <<global_ref_size, global_ref_next>>
  BY <1>2 DEF delJNIGref
<1>4. /\ i \in 0..(global_ref_size - 1)
      /\ global_ref_table \in [0..(global_ref_size - 1) -> Referents \cup {NoRef}]
  BY DEF GrefsInv, GrefsTypeOK
<1>5. Places(ref)' = Places(ref) \ {i} /\ i \in Places(ref)
  BY <1>1, <1>2, <1>3, <1>4 DEF Places
<1>6. \A o \in Referents \ {ref} : Places(o)' = Places(o)
  BY <1>1, <1>3, <1>4, RefsAssumption DEF Places
<1>7. Holes' = Holes \cup {i} /\ i \notin Holes
  BY <1>1, <1>2, <1>3, <1>4 DEF Holes, Holding
<1>8. Cardinality(Holes') = Cardinality(Holes) + 1
  BY <1>7, GrefsCounts, FS_AddElement DEF GrefsInv
<1>9. /\ Cardinality(Places(ref)') = Cardinality(Places(ref)) - 1
      /\ Cardinality(Places(ref)') \in Nat
  <2>1. IsFiniteSet(Places(ref))
    BY GrefsCounts DEF GrefsInv
  <2> QED
    BY <1>5, <2>1, FS_RemoveElement, FS_CardinalityType
<1>10. /\ held' \in [Referents -> Nat] /\ held'[ref] = Cardinality(Places(ref)')
       /\ \A o \in Referents \ {ref} : held'[o] = held[o]
  BY <1>3, <1>9 DEF GrefsInv, GrefsTypeOK
<1>11. GrefsTypeOK'
  BY <1>1, <1>3, <1>4, <1>10 DEF GrefsInv, GrefsTypeOK
<1> QED
  BY <1>1, <1>6, <1>8, <1>10, <1>11 DEF GrefsInv

LEMMA GrefsInvIsEnough == GrefsInv => HeldAreMarked
<1> SUFFICES ASSUME GrefsInv PROVE HeldAreMarked
  OBVIOUS
<1>1. TableIsLargeEnough
  BY DEF TableIsLargeEnough, GrefsInv, GrefsTypeOK, Holes
<1>2. \A o \in Referents : (held[o] > 0 <=> Places(o) # {})
  BY GrefsCounts, FS_EmptySet DEF GrefsInv, GrefsTypeOK
<1>3. markJNIGlobalRefs = {o \in Referents : Places(o) # {}}
  BY RefsAssumption DEF markJNIGlobalRefs, Places, Holding, GrefsInv, GrefsTypeOK
<1>4. \A o \in Referents :
         Cardinality({i \in 0..(global_ref_next - 1) : global_ref_table[i] = o}) = held[o]
  BY DEF GrefsInv, Places
<1> QED
  BY <1>1, <1>2, <1>3, <1>4 DEF HeldAreMarked

(* As long as nobody deletes a reference that is null, what was added and  *)
(* not deleted is what the collector marks, each object is in the table as *)
(* often as it is held, and closing the holes makes room for one more, for *)
(* every sequence of additions and deletions and every increment of the    *)
(* table (addJNIGref, delJNIGref, markJNIGlobalRefs).                      *)
THEOREM ReferencesAreKept == (~DeletesNull /\ GrefsSpec) => []HeldAreMarked
<1>1. ASSUME ~DeletesNull, GrefsInv, [GrefsNext]_grefVars PROVE GrefsInv'
  <2>1. CASE UNCHANGED grefVars
    BY <1>1, <2>1 DEF grefVars, GrefsInv, GrefsTypeOK, Holes, Places, Holding
  <2>2. CASE GrefsNext
    BY <1>1, <2>2, AddKeeps, DeleteKeeps DEF GrefsNext
  <2> QED
    BY <1>1, <2>1, <2>2
<1>2. (~DeletesNull /\ GrefsSpec) => []GrefsInv
  <2> SUFFICES ASSUME ~DeletesNull PROVE GrefsSpec => []GrefsInv
    OBVIOUS
  <2> QED
    BY <1>1, GrefsStart, PTL DEF GrefsSpec
<1> QED
  BY <1>2, GrefsInvIsEnough, PTL

-----------------------------------------------------------------------------
(* A set of numbers has a least one.  The library's theorems on induction  *)
(* take an operator, which no prover here can instantiate; that finite     *)
(* sets are well-founded under inclusion does not.                         *)
LEMMA LeastNumber ==
    ASSUME NEW T \in SUBSET Nat, T # {}
    PROVE  \E m \in T : \A n \in T : m <= n
<1> DEFINE inclusion == StrictSubsetOrdering(Nat)
           finite == FiniteSubsetsOf(Nat)
           intervals == {0..n : n \in T}
<1>1. IsWellFoundedOn(inclusion, finite)
  BY FS_StrictSubsetOrderingWellFounded
<1>2. \A n \in T : 0..n \in finite
  <2>1. ASSUME NEW n \in T PROVE IsFiniteSet(0..n)
    BY FS_Interval
  <2> QED
   BY <2>1 DEF FiniteSubsetsOf
<1>3. intervals \subseteq finite /\ intervals # {}
  BY <1>2
<1>4. \E x \in intervals : \A y \in intervals : ~(<<y, x>> \in inclusion)
  <2> HIDE DEF inclusion, finite, intervals
  <2> QED
    BY <1>1, <1>3, WFMin
<1>5. PICK m \in T : \A n \in T : ~(<<0..n, 0..m>> \in inclusion)
  BY <1>4
<1>6. ASSUME NEW n \in T PROVE m <= n
  <2>1. SUFFICES ASSUME n < m PROVE FALSE
    BY n \in Nat, m \in Nat
  <2>2. m \in 0..m /\ m \notin 0..n
    BY <2>1
  <2>3. (0..n) \subseteq (0..m) /\ 0..n # 0..m /\ 0..n \in SUBSET Nat /\ 0..m \in SUBSET Nat
    BY <2>1, <2>2
  <2> QED
    BY <1>5, <2>3 DEF StrictSubsetOrdering
<1> QED
  BY <1>6

(* What is true of 0 and of the successor of what it is true of, up to n,  *)
(* is true of n; the set is that of the numbers it is true of.             *)
LEMMA UpTo ==
    ASSUME NEW n \in Nat, NEW S, 0 \in S, \A i \in 1..n : i - 1 \in S => i \in S
    PROVE  \A i \in 0..n : i \in S
<1> DEFINE T == {i \in 0..n : i \notin S}
<1>1. SUFFICES ASSUME T # {} PROVE FALSE
  OBVIOUS
<1>2. PICK m \in T : \A i \in T : m <= i
  <2>1. T \in SUBSET Nat
    OBVIOUS
  <2> HIDE DEF T
  <2> QED
    BY <1>1, <2>1, LeastNumber
<1>3. m \in 1..n /\ m - 1 \in 0..n /\ ~(m <= m - 1)
  BY <1>2
<1>4. m - 1 \in S
  BY <1>2, <1>3
<1> QED
  BY <1>2, <1>3, <1>4

LEMMA Remainder ==
    ASSUME NEW n \in Nat \ {0}, NEW q \in Int, NEW i \in 0..(n - 1)
    PROVE  (n * q + i) % n = i
OBVIOUS

LEMMA Division ==
    ASSUME NEW n \in Nat \ {0}, NEW h \in Nat
    PROVE  \E q \in Nat : \E r \in 0..(n - 1) : h = n * q + r
<1> DEFINE T == {x \in Nat : ~\E q \in Nat : \E r \in 0..(n - 1) : x = n * q + r}
<1>1. SUFFICES ASSUME T # {} PROVE FALSE
  OBVIOUS
<1>2. PICK m \in T : \A x \in T : m <= x
  <2>1. T \in SUBSET Nat
    OBVIOUS
  <2> HIDE DEF T
  <2> QED
    BY <1>1, <2>1, LeastNumber
<1>3. m >= n
  <2>1. SUFFICES ASSUME m < n PROVE FALSE
    OBVIOUS
  <2>2. m = n * 0 + m /\ m \in 0..(n - 1) /\ 0 \in Nat
    BY <2>1
  <2> QED
    BY <2>2
<1>4. m - n \in Nat /\ m - n \notin T
  BY <1>2, <1>3
<1>5. PICK q \in Nat, r \in 0..(n - 1) : m - n = n * q + r
  BY <1>4
<1>6. n * (q + 1) = n * q + n /\ n * q \in Nat
  OBVIOUS
<1>7. m = n * (q + 1) + r /\ q + 1 \in Nat
  BY <1>5, <1>6
<1>8. \E x \in Nat : m = n * x + r
  BY <1>7
<1> QED
  BY <1>8

(* Every slot is reached from that of the hash.                            *)
LEMMA AllSlotsAreReached ==
    ASSUME NEW n \in Nat \ {0}, NEW h \in Nat, NEW i \in Slots(n)
    PROVE  \E d \in Slots(n) : (h + d) % n = i
<1>1. PICK q \in Nat, r \in 0..(n - 1) : h = n * q + r
  BY Division
<1>2. n * q \in Nat /\ i \in 0..(n - 1)
  BY DEF Slots
<1>3. CASE r <= i
  <2>1. h + (i - r) = n * q + i /\ i - r \in 0..(n - 1)
    BY <1>1, <1>2, <1>3
  <2>2. (n * q + i) % n = i
    BY <1>2, Remainder
  <2>3. (h + (i - r)) % n = i
    BY <2>1, <2>2
  <2> QED
    BY <2>1, <2>3 DEF Slots
<1>4. CASE r > i
  <2>1. n * (q + 1) = n * q + n /\ q + 1 \in Int
    OBVIOUS
  <2>2. h + (n + i - r) = n * (q + 1) + i /\ n + i - r \in 0..(n - 1)
    BY <1>1, <1>2, <1>4, <2>1
  <2>3. (n * (q + 1) + i) % n = i
    BY <1>2, <2>1, Remainder
  <2>4. (h + (n + i - r)) % n = i
    BY <2>2, <2>3
  <2> QED
    BY <2>2, <2>4 DEF Slots
<1> QED
  BY <1>2, <1>3, <1>4

LEMMA SlotsAreReached ==
    ASSUME NEW n \in Nat \ {0}, NEW k \in Keys, NEW d \in Nat
    PROVE  (Hash[k] + d) % n \in Slots(n)
<1>1. Hash[k] + d \in Nat
  BY HashAssumption
<1> QED
  BY <1>1 DEF Slots

-----------------------------------------------------------------------------
(* The table X of n slots has the entries S, each in one slot.             *)
Has(X, n, S) ==
    /\ X \in [Slots(n) -> Keys \cup {NoEntry}]
    /\ \A i \in Slots(n) : X[i] # NoEntry => X[i] \in S
    /\ \A k \in S : \E i \in Slots(n) : X[i] = k
    /\ \A i, j \in Slots(n) : X[i] = X[j] /\ X[i] # NoEntry => i = j

(* And each is found from the slot of its hash on without a hole.          *)
Reaches(X, n, k, d) ==
    /\ X[(Hash[k] + d) % n] = k
    /\ \A e \in 0..(d - 1) : X[(Hash[k] + e) % n] # NoEntry
Chained(X, n, S) == Has(X, n, S) /\ \A k \in S : \E d \in Slots(n) : Reaches(X, n, k, d)

LEMMA ProbeStops ==
    ASSUME NEW n \in Nat \ {0}, NEW X, NEW k \in Keys, NEW stops,
           \E i \in Slots(n) : X[i] \in stops
    PROVE  \E d \in Slots(n) :
              /\ Probe(X, n, k, stops) = (Hash[k] + d) % n
              /\ X[(Hash[k] + d) % n] \in stops
              /\ \A e \in 0..(d - 1) : X[(Hash[k] + e) % n] \notin stops
<1> DEFINE at(d) == (Hash[k] + d) % n
           T == {d \in Slots(n) : X[at(d)] \in stops}
           is_first(d) == X[at(d)] \in stops /\ \A e \in 0..(d - 1) : X[at(e)] \notin stops
<1>1. PICK i \in Slots(n) : X[i] \in stops
  OBVIOUS
<1>2. PICK d \in Slots(n) : at(d) = i
  BY AllSlotsAreReached, HashAssumption
<1>3. T \in SUBSET Nat /\ d \in T
  BY <1>1, <1>2 DEF Slots
<1>4. PICK m \in T : \A x \in T : m <= x
  <2> HIDE DEF T
  <2> QED
    BY <1>3, LeastNumber
<1>5. m \in Slots(n) /\ m \in 0..(n - 1) /\ X[at(m)] \in stops
  BY <1>4 DEF Slots
<1>6. ASSUME NEW e \in 0..(m - 1) PROVE X[at(e)] \notin stops
  <2>1. e \in Slots(n) /\ ~(m <= e)
    BY <1>5 DEF Slots
  <2> QED
    BY <1>4, <2>1
<1>7. is_first(m)
  BY <1>5, <1>6
<1>8. PICK x : x = CHOOSE y \in Slots(n) : is_first(y)
  OBVIOUS
<1>9. x \in Slots(n) /\ is_first(x)
  BY <1>5, <1>7, <1>8
<1>10. Probe(X, n, k, stops) = at(x)
  BY <1>8 DEF Probe
<1> QED
  BY <1>9, <1>10

(* What is entered into the first slot that is empty is found, and so is   *)
(* what was found before.                                                  *)
LEMMA Entered ==
    ASSUME NEW n \in Nat \ {0}, NEW X, NEW S \in SUBSET Keys, Chained(X, n, S),
           NEW k \in Keys \ S, NEW stops, NoEntry \in stops, stops \subseteq {k, NoEntry},
           \E i \in Slots(n) : X[i] = NoEntry,
           NEW at, at = Probe(X, n, k, stops)
    PROVE  /\ at \in Slots(n) /\ X[at] = NoEntry
           /\ Chained([X EXCEPT ![at] = k], n, S \cup {k})
<1> DEFINE Y == [X EXCEPT ![at] = k]
<1>1. NoEntry \notin Keys /\ X \in [Slots(n) -> Keys \cup {NoEntry}]
  BY HashAssumption DEF Chained, Has
<1>2. PICK d \in Slots(n) :
         /\ at = (Hash[k] + d) % n
         /\ X[(Hash[k] + d) % n] \in stops
         /\ \A e \in 0..(d - 1) : X[(Hash[k] + e) % n] \notin stops
  BY ProbeStops
<1>3. at \in Slots(n)
  BY <1>2, SlotsAreReached DEF Slots
<1>4. X[at] = NoEntry
  <2>1. X[at] # k
    BY <1>1, <1>3 DEF Chained, Has
  <2> QED
    BY <1>2, <2>1
<1>5. Has(Y, n, S \cup {k})
  BY <1>1, <1>3, <1>4 DEF Chained, Has
<1>6. Reaches(Y, n, k, d)
  <2>1. ASSUME NEW e \in 0..(d - 1) PROVE Y[(Hash[k] + e) % n] # NoEntry
    <3>1. (Hash[k] + e) % n \in Slots(n)
      BY SlotsAreReached
    <3>2. X[(Hash[k] + e) % n] # NoEntry
      BY <1>2
    <3> QED
      BY <1>1, <3>1, <3>2
  <2> QED
    BY <1>1, <1>2, <1>3, <2>1 DEF Reaches
<1>7. ASSUME NEW x \in S PROVE \E c \in Slots(n) : Reaches(Y, n, x, c)
  <2>1. PICK c \in Slots(n) : Reaches(X, n, x, c)
    BY DEF Chained
  <2>2. \A e \in 0..c : (Hash[x] + e) % n \in Slots(n)
    BY SlotsAreReached
  <2>3. \A e \in Nat : (Hash[x] + e) % n \in Slots(n) /\ X[(Hash[x] + e) % n] # NoEntry
              => Y[(Hash[x] + e) % n] = X[(Hash[x] + e) % n]
    BY <1>1, <1>4
  <2>4. c \in Nat /\ X[(Hash[x] + c) % n] # NoEntry
    BY <1>1, <2>1 DEF Reaches, Slots
  <2> QED
    BY <2>1, <2>2, <2>3, <2>4 DEF Reaches
<1> QED
  BY <1>3, <1>4, <1>5, <1>6, <1>7 DEF Chained

(* A table has as many slots in use as it has entries, so that one is      *)
(* empty if there are fewer entries than slots.                            *)
LEMMA InUse ==
    ASSUME NEW n \in Nat, NEW X, NEW S \in SUBSET Keys, Has(X, n, S)
    PROVE  /\ IsFiniteSet(S) /\ Cardinality(S) \in Nat
           /\ Cardinality({i \in Slots(n) : X[i] # NoEntry}) = Cardinality(S)
           /\ Cardinality(S) < n => \E i \in Slots(n) : X[i] = NoEntry
<1> DEFINE used == {i \in Slots(n) : X[i] # NoEntry}
           entry == [i \in used |-> X[i]]
<1>1. IsFiniteSet(Slots(n)) /\ Cardinality(Slots(n)) = n
  <2>1. 0 \in Int /\ n - 1 \in Int
    OBVIOUS
  <2>2. IsFiniteSet(0..(n - 1)) /\ Cardinality(0..(n - 1)) = IF 0 > n - 1 THEN 0 ELSE (n - 1) - 0 + 1
    BY <2>1, FS_Interval
  <2> QED
    BY <2>2 DEF Slots
<1>2. IsFiniteSet(used)
  BY <1>1, FS_Subset
<1>3. /\ entry \in [used -> S]
      /\ \A i, j \in used : entry[i] = entry[j] => i = j
      /\ \A k \in S : \E i \in used : entry[i] = k
  BY HashAssumption DEF Has
<1>4. ASSUME \A i \in Slots(n) : X[i] # NoEntry PROVE used = Slots(n)
  BY <1>4
<1> HIDE DEF used, entry
<1>5. entry \in Bijection(used, S)
  BY <1>3, Fun_IsBij
<1>6. ExistsBijection(used, S)
  BY <1>5 DEF ExistsBijection
<1>7. IsFiniteSet(S) /\ Cardinality(S) = Cardinality(used)
  BY <1>2, <1>6, FS_Bijection
<1>8. Cardinality(S) \in Nat
  BY <1>7, FS_CardinalityType
<1>9. ASSUME Cardinality(S) < n PROVE \E i \in Slots(n) : X[i] = NoEntry
  BY <1>1, <1>4, <1>7, <1>8, <1>9
<1> QED
  BY <1>7, <1>8, <1>9 DEF used

LEMMA EmptyHasNone ==
    ASSUME NEW n \in Nat
    PROVE  Chained(Empty(n), n, {})
BY DEF Chained, Has, Empty, Slots

(* The table that resizeHash builds, entry by entry.                       *)
Entering(new_size, new, k) ==
    IF k = NoEntry THEN new
    ELSE [new EXCEPT ![Probe(new, new_size, k, {NoEntry})] = k]
Builds(f, table, size, new_size, n) ==
    f = [i \in 0..n |-> IF i = 0 THEN Empty(new_size)
                        ELSE Entering(new_size, f[i - 1], table[size - i])]

LEMMA BuildsIsDefined ==
    ASSUME NEW table, NEW size \in Nat, NEW new_size
    PROVE  \E f : Builds(f, table, size, new_size, size)
<1> DEFINE Step(f, i) == IF i = 0 THEN Empty(new_size)
                         ELSE Entering(new_size, f[i - 1], table[size - i])
           defined == {n \in Nat : \E f : f = [i \in 0..n |-> Step(f, i)]}
<1>1. 0 \in defined
  <2>1. PICK f : f = [i \in 0..0 |-> Empty(new_size)]
    OBVIOUS
  <2>2. f = [i \in 0..0 |-> Step(f, i)]
    BY <2>1
  <2> QED
    BY <2>2
<1>2. ASSUME NEW n \in 1..size, n - 1 \in defined PROVE n \in defined
  <2>1. PICK f : f = [i \in 0..(n - 1) |-> Step(f, i)]
    BY <1>2
  <2>2. PICK g : g = [i \in 0..n |-> IF i = n THEN Step(f, n) ELSE f[i]]
    OBVIOUS
  <2>3. \A i \in 0..(n - 1) : g[i] = f[i] /\ f[i] = Step(f, i)
    BY <2>1, <2>2, n \notin 0..(n - 1)
  <2>4. ASSUME NEW i \in 0..n PROVE g[i] = Step(g, i)
    <3>1. i = 0 \/ g[i - 1] = f[i - 1]
      <4>1. i = 0 \/ i - 1 \in 0..(n - 1)
        OBVIOUS
      <4> QED
        BY <2>3, <4>1
    <3>2. Step(g, i) = Step(f, i)
      BY <3>1
    <3>3. g[i] = Step(f, i)
      <4>1. CASE i = n
        BY <2>2, <4>1
      <4>2. CASE i \in 0..(n - 1)
        BY <2>3, <4>2
      <4> QED
        BY <4>1, <4>2
    <3> QED
      BY <3>2, <3>3
  <2> HIDE DEF Step
  <2>5. g = [i \in 0..n |-> Step(g, i)]
    BY <2>2, <2>4
  <2>6. n \in Nat
    OBVIOUS
  <2> QED
    BY <2>5, <2>6
<1>3. size \in defined
  <2> HIDE DEF defined
  <2>1. \A i \in 0..size : i \in defined
    BY <1>1, <1>2, UpTo
  <2> QED
    BY <2>1
<1>4. PICK f : f = [i \in 0..size |-> Step(f, i)]
  BY <1>3
<1>5. Builds(f, table, size, new_size, size)
  BY <1>4 DEF Builds
<1> QED
  BY <1>5

LEMMA ResizeBuilds ==
    ASSUME NEW table, NEW size \in Nat, NEW new_size
    PROVE  \E f : /\ Builds(f, table, size, new_size, size)
                  /\ resizeHash(table, size, new_size) = f[size]
<1>1. PICK f : f = CHOOSE g : Builds(g, table, size, new_size, size)
  OBVIOUS
<1>2. Builds(f, table, size, new_size, size)
  BY <1>1, BuildsIsDefined
<1>3. resizeHash(table, size, new_size) = f[size]
  BY <1>1 DEF resizeHash, Builds, Entering
<1> QED
  BY <1>2, <1>3

(* A table that is built anew has the entries of the old one, whatever     *)
(* holes there were in its chains, and has none itself.                    *)
LEMMA Resized ==
    ASSUME NEW size \in Nat, NEW new_size \in Nat \ {0}, NEW X, NEW S \in SUBSET Keys,
           Has(X, size, S), Cardinality(S) < new_size
    PROVE  Chained(resizeHash(X, size, new_size), new_size, S)
<1> DEFINE taken(i) == {X[j] : j \in (size - i)..(size - 1)} \ {NoEntry}
<1>1. PICK f : /\ Builds(f, X, size, new_size, size)
               /\ resizeHash(X, size, new_size) = f[size]
  BY ResizeBuilds
<1>2. NoEntry \notin Keys /\ X \in [Slots(size) -> Keys \cup {NoEntry}]
  BY HashAssumption DEF Has
<1>3. f[0] = Empty(new_size)
  BY <1>1 DEF Builds
<1>4. \A i \in 1..size : f[i] = Entering(new_size, f[i - 1], X[size - i])
  BY <1>1 DEF Builds
<1>5. taken(0) = {} /\ taken(size) = S
  BY <1>2 DEF Has, Slots
<1> DEFINE good == {i \in 0..size : Chained(f[i], new_size, taken(i))}
<1>6. 0 \in good
  BY <1>3, <1>5, EmptyHasNone
<1>7. ASSUME NEW i \in 1..size, i - 1 \in good PROVE i \in good
  <2> DEFINE k == X[size - i]
             before == taken(i - 1)
  <2>1. size - i \in Slots(size) /\ k \in Keys \cup {NoEntry}
    BY <1>2 DEF Slots
  <2>2. taken(i) = (before \cup {k}) \ {NoEntry}
    <3>1. (size - i)..(size - 1) = ((size - (i - 1))..(size - 1)) \cup {size - i}
      OBVIOUS
    <3> QED
      BY <3>1
  <2>3. before \in SUBSET S /\ before \in SUBSET Keys
    <3>1. ((size - (i - 1))..(size - 1)) \subseteq Slots(size)
      BY DEF Slots
    <3> QED
      BY <3>1 DEF Has
  <2>4. Chained(f[i - 1], new_size, before)
    BY <1>7
  <2>5. f[i] = Entering(new_size, f[i - 1], k)
    BY <1>4
  <2>6. k # NoEntry => k \in S \ before
    <3>1. \A j \in (size - (i - 1))..(size - 1) : j \in Slots(size) /\ j # size - i
      BY DEF Slots
    <3> QED
      BY <2>1, <3>1 DEF Has
  <2>7. IsFiniteSet(S) /\ Cardinality(before) <= Cardinality(S) /\ Cardinality(S) \in Nat
        /\ Cardinality(before) \in Nat
    <3>1. IsFiniteSet(S) /\ Cardinality(S) \in Nat
      BY InUse
    <3> HIDE DEF before
    <3>2. IsFiniteSet(before) /\ Cardinality(before) <= Cardinality(S)
      BY <2>3, <3>1, FS_Subset
    <3> QED
      BY <3>1, <3>2, FS_CardinalityType
  <2>8. \E j \in Slots(new_size) : f[i - 1][j] = NoEntry
    <3>1. Has(f[i - 1], new_size, before) /\ Cardinality(before) < new_size
      BY <2>4, <2>7 DEF Chained
    <3> HIDE DEF before
    <3> QED
      BY <2>3, <3>1, InUse
  <2> HIDE DEF k, before, taken
  <2>9. Chained(f[i], new_size, taken(i))
    <3>1. CASE k = NoEntry
      <4>1. taken(i) = before
        BY <2>2, <2>3, <3>1, <1>2
      <4> QED
        BY <2>4, <2>5, <3>1, <4>1 DEF Entering
    <3>2. CASE k # NoEntry
      <4>1. taken(i) = before \cup {k} /\ k \in Keys \ before
        BY <1>2, <2>1, <2>2, <2>3, <2>6, <3>2
      <4>2. PICK at : at = Probe(f[i - 1], new_size, k, {NoEntry})
        OBVIOUS
      <4>3. Chained([f[i - 1] EXCEPT ![at] = k], new_size, before \cup {k})
        BY <2>3, <2>4, <2>8, <4>1, <4>2, Entered
      <4> QED
        BY <2>5, <3>2, <4>1, <4>2, <4>3 DEF Entering
    <3> QED
      BY <3>1, <3>2
  <2> QED
    BY <2>9
<1>8. size \in good
  <2> HIDE DEF good
  <2>1. \A i \in 0..size : i \in good
    BY <1>6, <1>7, UpTo
  <2> QED
    BY <2>1
<1> QED
  BY <1>1, <1>5, <1>8

-----------------------------------------------------------------------------
(* The inductive invariant: what was entered is in a chain, and a quarter  *)
(* of the slots is empty.                                                  *)
HashInv ==
    /\ hash_size \in Nat /\ hash_size >= 2
    /\ entries \in SUBSET Keys
    /\ Chained(hash_table, hash_size, entries)
    /\ hash_count = Cardinality(entries)
    /\ hash_count * 4 <= hash_size * 3

LEMMA HashStart == HashInit => HashInv
<1> SUFFICES ASSUME HashInit PROVE HashInv
  OBVIOUS
<1>1. Chained(hash_table, hash_size, entries)
  BY EmptyHasNone, HashAssumption DEF HashInit
<1> QED
  BY <1>1, FS_EmptySet, HashAssumption DEF HashInit, HashInv

LEMMA HashInvIsEnough == HashInv => EntriesAreFound
<1> SUFFICES ASSUME HashInv PROVE EntriesAreFound
  OBVIOUS
<1>1. PICK n \in Nat \ {0} : n = hash_size
  BY DEF HashInv
<1>2. Has(hash_table, n, entries) /\ NoEntry \notin Keys
  BY <1>1, HashAssumption DEF HashInv, Chained
<1>3. /\ Cardinality(entries) \in Nat
      /\ Cardinality({i \in Slots(n) : hash_table[i] # NoEntry}) = Cardinality(entries)
      /\ Cardinality(entries) < n => \E i \in Slots(n) : hash_table[i] = NoEntry
  BY <1>2, InUse DEF HashInv
<1>4. LoadIsBounded
  BY <1>1, <1>3 DEF LoadIsBounded, HashInv
<1>5. \E i \in Slots(n) : hash_table[i] = NoEntry
  BY <1>1, <1>3 DEF HashInv
<1>6. ASSUME NEW k \in Keys
      PROVE  hash_table[SlotOf(k)] = IF k \in entries THEN k ELSE NoEntry
  <2>1. \E i \in Slots(n) : hash_table[i] \in {k, NoEntry}
    BY <1>5
  <2>2. PICK d \in Slots(n) :
           /\ SlotOf(k) = (Hash[k] + d) % n
           /\ hash_table[(Hash[k] + d) % n] \in {k, NoEntry}
           /\ \A e \in 0..(d - 1) : hash_table[(Hash[k] + e) % n] \notin {k, NoEntry}
    <3>1. PICK table, stops : table = hash_table /\ stops = {k, NoEntry}
      OBVIOUS
    <3>2. \E i \in Slots(n) : table[i] \in stops
      BY <2>1, <3>1
    <3>3. \E d \in Slots(n) :
             /\ Probe(table, n, k, stops) = (Hash[k] + d) % n
             /\ table[(Hash[k] + d) % n] \in stops
             /\ \A e \in 0..(d - 1) : table[(Hash[k] + e) % n] \notin stops
      BY <3>2, ProbeStops
    <3> QED
      BY <1>1, <3>1, <3>3 DEF SlotOf
  <2>3. (Hash[k] + d) % n \in Slots(n)
    BY SlotsAreReached DEF Slots
  <2>4. CASE k \notin entries
    BY <1>2, <2>2, <2>3, <2>4 DEF Has
  <2>5. CASE k \in entries
    <3>1. PICK c \in Slots(n) : Reaches(hash_table, n, k, c)
      BY <1>1, <2>5 DEF HashInv, Chained
    <3>2. c \in Nat /\ d \in Nat
      BY DEF Slots
    <3>3. ~(c < d)
      <4>1. SUFFICES ASSUME c \in 0..(d - 1) PROVE FALSE
        BY <3>2
      <4> QED
        BY <2>2, <3>1, <4>1 DEF Reaches
    <3>4. d = c \/ d \in 0..(c - 1)
      BY <3>2, <3>3
    <3>5. d \in 0..(c - 1) => hash_table[(Hash[k] + d) % n] # NoEntry
      BY <3>1 DEF Reaches
    <3>6. d = c => hash_table[(Hash[k] + d) % n] = k
      BY <3>1 DEF Reaches
    <3> QED
      BY <2>2, <2>5, <3>4, <3>5, <3>6
  <2> QED
    BY <2>4, <2>5
<1> QED
  BY <1>4, <1>6 DEF EntriesAreFound

LEMMA EnterKeeps ==
    ASSUME HashInv, NEW k \in Keys \ entries, NEW dead \in SUBSET LookedAt(k), enter(k, dead)
    PROVE  HashInv'
<1> DEFINE left == [i \in Slots(hash_size) |-> IF i \in dead THEN NoEntry ELSE Added(k)[i]]
           count == hash_count + 1 - Cardinality(dead)
           new_size == IF Scavenges /\ count * 3 <= hash_size * 2 THEN hash_size ELSE hash_size * 2
<1>1. PICK n \in Nat \ {0} : n = hash_size /\ n >= 2
  BY DEF HashInv
<1>1a. PICK table : table = hash_table
  OBVIOUS
<1>2. /\ NoEntry \notin Keys /\ Chained(table, n, entries) /\ Has(table, n, entries)
      /\ entries \in SUBSET Keys
  BY <1>1, <1>1a, HashAssumption DEF HashInv, Chained
<1>3. /\ IsFiniteSet(entries) /\ Cardinality(entries) \in Nat
      /\ Cardinality(entries) < n => \E i \in Slots(n) : table[i] = NoEntry
  BY <1>2, InUse
<1>4. \E i \in Slots(n) : table[i] = NoEntry
  BY <1>1, <1>1a, <1>3 DEF HashInv
<1>5. PICK at : at = SlotOf(k)
  OBVIOUS
<1>6. /\ at \in Slots(n) /\ table[at] = NoEntry
      /\ Chained([table EXCEPT ![at] = k], n, entries \cup {k})
  <2>1. PICK stops : stops = {k, NoEntry}
    OBVIOUS
  <2>2. NoEntry \in stops /\ stops \subseteq {k, NoEntry} /\ at = Probe(table, n, k, stops)
    BY <1>1, <1>1a, <1>5, <2>1 DEF SlotOf
  <2>3. PICK S : S = entries
    OBVIOUS
  <2>4. S \in SUBSET Keys /\ Chained(table, n, S) /\ k \in Keys \ S
    BY <1>2, <2>3
  <2>5. /\ at \in Slots(n) /\ table[at] = NoEntry
        /\ Chained([table EXCEPT ![at] = k], n, S \cup {k})
    BY <1>4, <2>2, <2>4, Entered
  <2> QED
    BY <2>3, <2>5
<1>7. Added(k) = [table EXCEPT ![at] = k]
  BY <1>1, <1>1a, <1>5 DEF Added
<1>8. PICK new : new = Added(k) /\ Chained(new, n, entries \cup {k}) /\ Has(new, n, entries \cup {k})
  BY <1>6, <1>7 DEF Chained
<1>9. /\ dead \in SUBSET Slots(n)
      /\ \A i \in dead : new[i] \in entries /\ i # at /\ new[i] = hash_table[i]
  <2>1. dead \in SUBSET Slots(n) /\ \A i \in dead : new[i] \in entries
    BY <1>1, <1>1a, <1>8 DEF LookedAt
  <2>2. new[at] = k
    BY <1>2, <1>6, <1>7, <1>8 DEF Has
  <2> QED
    BY <1>1, <1>1a, <1>2, <1>6, <1>7, <1>8, <2>1, <2>2 DEF Has
<1> DEFINE gone == {hash_table[i] : i \in dead}
<1>10. gone \in SUBSET entries /\ entries' = (entries \cup {k}) \ gone
       /\ entries' \in SUBSET Keys
  BY <1>2, <1>9 DEF enter
<1>11. Has(left, n, entries')
  <2>1. left = [i \in Slots(n) |-> IF i \in dead THEN NoEntry ELSE new[i]]
    BY <1>1, <1>1a, <1>8
  <2>2. gone = {new[i] : i \in dead}
    BY <1>9
  <2> HIDE DEF left, gone
  <2>3. left \in [Slots(n) -> Keys \cup {NoEntry}]
    BY <1>8, <2>1 DEF Has
  <2>4. \A i \in Slots(n) : left[i] # NoEntry => left[i] = new[i] /\ i \notin dead
    BY <2>1
  <2>5. \A i \in Slots(n) : left[i] # NoEntry => left[i] \in entries'
    <3>1. SUFFICES ASSUME NEW i \in Slots(n), left[i] # NoEntry PROVE left[i] \in entries'
      OBVIOUS
    <3>2. left[i] = new[i] /\ i \notin dead /\ new[i] \in entries \cup {k}
      BY <1>8, <2>4, <3>1 DEF Has
    <3>3. new[i] \notin gone
      BY <1>8, <1>9, <2>2, <3>1, <3>2 DEF Has
    <3> QED
      BY <1>10, <3>2, <3>3
  <2>6. \A x \in entries' : \E i \in Slots(n) : left[i] = x
    <3>1. SUFFICES ASSUME NEW x \in entries' PROVE \E i \in Slots(n) : left[i] = x
      OBVIOUS
    <3>2. PICK i \in Slots(n) : new[i] = x
      BY <1>8, <1>10 DEF Has
    <3>3. i \notin dead
      BY <1>10, <2>2, <3>2
    <3> QED
      BY <2>1, <3>2, <3>3
  <2>7. \A i, j \in Slots(n) : left[i] = left[j] /\ left[i] # NoEntry => i = j
    BY <1>8, <2>4 DEF Has
  <2> QED
    BY <2>3, <2>5, <2>6, <2>7 DEF Has
<1>12. /\ IsFiniteSet(dead) /\ Cardinality(dead) \in Nat /\ Cardinality(dead) <= hash_count
       /\ Cardinality(entries') = count /\ count \in Nat
  <2>1. Cardinality(gone) = Cardinality(dead) /\ IsFiniteSet(dead)
    <3>1. IsFiniteSet(dead)
      <4>1. 0 \in Int /\ n - 1 \in Int
        OBVIOUS
      <4>2. IsFiniteSet(Slots(n))
        BY <4>1, FS_Interval DEF Slots
      <4> QED
        BY <1>9, <4>2, FS_Subset
    <3> DEFINE entry == [i \in dead |-> hash_table[i]]
    <3>2. entry \in [dead -> gone] /\ \A x \in gone : \E i \in dead : entry[i] = x
      OBVIOUS
    <3>3. \A i, j \in dead : entry[i] = entry[j] => i = j
      BY <1>2, <1>8, <1>9 DEF Has
    <3> HIDE DEF entry, gone
    <3>4. entry \in Bijection(dead, gone)
      BY <3>2, <3>3, Fun_IsBij
    <3>5. ExistsBijection(dead, gone)
      BY <3>4 DEF ExistsBijection
    <3> QED
      BY <3>1, <3>5, FS_Bijection
  <2> HIDE DEF gone
  <2>2. IsFiniteSet(gone) /\ Cardinality(gone) \in Nat /\ Cardinality(gone) <= Cardinality(entries)
    BY <1>3, <1>10, FS_Subset, FS_CardinalityType
  <2>3. /\ IsFiniteSet(entries \cup {k})
        /\ Cardinality(entries \cup {k}) = Cardinality(entries) + 1
    BY <1>3, FS_AddElement
  <2>4. (entries \cup {k}) \cap gone = gone
    BY <1>10
  <2>5. Cardinality(entries') = Cardinality(entries \cup {k}) - Cardinality(gone)
    BY <1>10, <2>3, <2>4, FS_Difference
  <2> QED
    BY <1>3, <2>1, <2>2, <2>3, <2>5 DEF HashInv
<1>13. CASE Full(hash_count + 1)
  <2>1. /\ hash_table' = resizeHash(left, n, new_size) /\ hash_size' = new_size
        /\ hash_count' = count
    BY <1>1, <1>1a, <1>13 DEF enter
  <2>2. /\ new_size \in Nat \ {0} /\ new_size >= 2 /\ count * 4 <= new_size * 3
        /\ count < new_size
    BY <1>1, <1>1a, <1>3, <1>12 DEF HashInv
  <2> HIDE DEF left, count, new_size
  <2>3. PICK X, S, m : X = left /\ S = entries' /\ m = new_size
    OBVIOUS
  <2>4. m \in Nat \ {0} /\ S \in SUBSET Keys /\ Has(X, n, S) /\ Cardinality(S) < m
    BY <1>10, <1>11, <1>12, <2>2, <2>3
  <2>5. Chained(resizeHash(X, n, m), m, S)
    BY <1>1, <2>4, Resized
  <2> QED
    BY <1>10, <1>12, <2>1, <2>2, <2>3, <2>5 DEF HashInv
<1>14. CASE ~Full(hash_count + 1)
  <2>1. dead = {} /\ gone = {}
    BY <1>14 DEF LookedAt
  <2>2. Cardinality(dead) = 0
    BY <2>1, FS_EmptySet
  <2>3. hash_table' = left /\ hash_size' = hash_size /\ hash_count' = count
    BY <1>14 DEF enter
  <2>4. left = new
    BY <1>1, <1>1a, <1>8, <2>1 DEF Has
  <2>5. entries' = entries \cup {k}
    BY <1>10, <2>1
  <2>6. count * 4 <= hash_size * 3
    BY <1>1, <1>1a, <1>3, <1>14, <2>2 DEF Full, HashInv
  <2> HIDE DEF left, count
  <2> QED
    BY <1>1, <1>1a, <1>8, <1>10, <1>12, <2>3, <2>4, <2>5, <2>6 DEF HashInv
<1> QED
  BY <1>13, <1>14

(* Whatever the hashes are, however entries are added and scavenged, and   *)
(* however often the table is enlarged or built anew, every entry is found *)
(* and no other key is, and the search ends (findHashEntry, resizeHash).   *)
THEOREM EntriesAreAlwaysFound == HashSpec => []EntriesAreFound
<1>1. HashInv /\ [HashNext]_hashVars => HashInv'
  BY EnterKeeps DEF HashNext, hashVars, HashInv
<1> QED
  BY <1>1, HashStart, HashInvIsEnough, PTL DEF HashSpec

-----------------------------------------------------------------------------
(* A hierarchy cl of classes: superclasses are classes, interfaces are     *)
(* interfaces, and both were there before; arrays are made of what is      *)
(* there.  Above is the closure the rules speak of.                        *)
Plain(cl) == DOMAIN cl \ ArrayNames
ParentsIn(cl, c) == (cl[c].interfaces \cup {cl[c].super}) \ {NoClass}
ClosedIn(cl, S) == S \subseteq Plain(cl) /\ \A d \in S : ParentsIn(cl, d) \subseteq S
Above(cl, a, c) == \A S : ClosedIn(cl, S) /\ c \in S => a \in S

Interfaces(cl) == {i \in DOMAIN cl \cap Names : IsInterface(i)}
ClassOK(cl, c) ==
    /\ cl[c].super \in (DOMAIN cl \cap Names) \cup {NoClass} /\ ~IsInterface(cl[c].super)
    /\ cl[c].interfaces \subseteq Interfaces(cl)
    /\ cl[c].super = NoClass <=> c \in Primitives \cup {ObjectClass}
    /\ c \in Primitives \cup {ObjectClass} => cl[c].interfaces = {}
    /\ IsInterface(c) => cl[c].super = ObjectClass
ArrayOK(cl, c) ==
    /\ c[1] \in Plain(cl) /\ cl[c].super = ObjectClass /\ cl[c].interfaces = {Cloneable}
    /\ c[1] \in Primitives => cl[c].element_class = NoClass
    /\ c[1] \notin Primitives => cl[c].element_class = c[1] /\ cl[c].dim = c[2]
Hierarchy(cl) ==
    /\ DOMAIN cl \subseteq Names \cup Primitives \cup ArrayNames
    /\ {ObjectClass, Cloneable} \cup Primitives \subseteq DOMAIN cl
    /\ cl[Cloneable].interfaces = {}
    /\ \A c \in DOMAIN cl : ClassOK(cl, c)
    /\ \A c \in DOMAIN cl \cap ArrayNames : ArrayOK(cl, c)

(* The recursion of implements and of isSubClassOf.                        *)
FoundStep(kind, class, cl, f, c) ==
    IF kind = "implements"
    THEN \/ \E i \in cl[c].interfaces : (i = class \/ f[i])
         \/ cl[c].super # NoClass /\ f[cl[c].super]
    ELSE c = class \/ (cl[c].super # NoClass /\ f[cl[c].super])
Solves(f, kind, class, cl) == f = [c \in DOMAIN cl |-> FoundStep(kind, class, cl, f, c)]

(* What they find.                                                         *)
Found(kind, class, cl, c) ==
    \/ kind = "sub" /\ c = class
    \/ \E p \in ParentsIn(cl, c) : Above(cl, class, p)
Asks(kind, class) == IF kind = "implements" THEN IsInterface(class)
                     ELSE kind = "sub" /\ ~IsInterface(class)

(* The inductive invariant.                                                *)
CastsInv(cl) ==
    /\ Hierarchy(cl)
    /\ \A c \in Plain(cl) \ Primitives : Above(cl, ObjectClass, c)
    /\ \A kind, class : \E f : Solves(f, kind, class, cl)
    /\ \A kind, class, f : Asks(kind, class) /\ Solves(f, kind, class, cl) =>
          \A c \in DOMAIN cl : f[c] <=> Found(kind, class, cl, c)

LEMMA ParentsArePlain ==
    ASSUME NEW cl, Hierarchy(cl), NEW c \in DOMAIN cl
    PROVE  ParentsIn(cl, c) \subseteq Plain(cl)
<1>1. ClassOK(cl, c)
  BY DEF Hierarchy
<1>2. Names \cap ArrayNames = {}
  BY ArrayNamesAssumption
<1> QED
  BY <1>1, <1>2 DEF ClassOK, Interfaces, ParentsIn, Plain

LEMMA AboveItself == ASSUME NEW cl, NEW c PROVE Above(cl, c, c)
BY DEF Above

(* What is above c is c, or above one of its parents.                      *)
LEMMA AboveStep ==
    ASSUME NEW cl, Hierarchy(cl), NEW a, NEW c \in Plain(cl)
    PROVE  Above(cl, a, c) <=> a = c \/ \E p \in ParentsIn(cl, c) : Above(cl, a, p)
<1>1. ASSUME NEW p \in ParentsIn(cl, c), Above(cl, a, p) PROVE Above(cl, a, c)
  BY <1>1 DEF Above, ClosedIn
<1>2. ASSUME Above(cl, a, c), a # c, \A p \in ParentsIn(cl, c) : ~Above(cl, a, p) PROVE FALSE
  <2> DEFINE below == {d \in Plain(cl) : \E S : ClosedIn(cl, S) /\ d \in S /\ a \notin S}
             all == below \cup {c}
  <2>1. \A p \in ParentsIn(cl, c) : p \in below
    <3>1. ASSUME NEW p \in ParentsIn(cl, c) PROVE p \in below
      <4>1. PICK S : ClosedIn(cl, S) /\ p \in S /\ a \notin S
        BY <1>2 DEF Above
      <4> QED
        BY <4>1 DEF ClosedIn
    <3> QED
      BY <3>1
  <2>2. ASSUME NEW d \in below PROVE ParentsIn(cl, d) \subseteq below
    <3>1. PICK S : ClosedIn(cl, S) /\ d \in S /\ a \notin S
      OBVIOUS
    <3>2. \A e \in ParentsIn(cl, d) : e \in S /\ e \in Plain(cl)
      BY <3>1 DEF ClosedIn
    <3> QED
      BY <3>1, <3>2
  <2>3. ClosedIn(cl, all)
    BY <2>1, <2>2 DEF ClosedIn
  <2>4. a \notin all
    BY <1>2
  <2> QED
    BY <1>2, <2>3, <2>4 DEF Above
<1> QED
  BY <1>1, <1>2, AboveItself

(* No array is above another class.                                        *)
LEMMA ArraysAreNotAbove ==
    ASSUME NEW cl, Hierarchy(cl), NEW a, a \notin Plain(cl), NEW c \in Plain(cl)
    PROVE  ~Above(cl, a, c)
<1>1. ClosedIn(cl, Plain(cl))
  BY ParentsArePlain DEF ClosedIn, Plain
<1> QED
  BY <1>1 DEF Above

(* Above an interface there are interfaces and the class Object.           *)
LEMMA AboveInterfaces ==
    ASSUME NEW cl, Hierarchy(cl), NEW a, NEW i \in Interfaces(cl), Above(cl, a, i)
    PROVE  a = ObjectClass \/ IsInterface(a)
<1> DEFINE S == Interfaces(cl) \cup {ObjectClass}
<1>1. S \subseteq Plain(cl)
  BY ArrayNamesAssumption DEF Hierarchy, Plain, Interfaces, Names
<1>2. ASSUME NEW d \in S PROVE ParentsIn(cl, d) \subseteq S
  <2>1. d \in DOMAIN cl /\ ClassOK(cl, d)
    BY DEF Hierarchy, Interfaces
  <2> QED
    BY <2>1 DEF ClassOK, ParentsIn, Interfaces
<1>3. ClosedIn(cl, S)
  BY <1>1, <1>2 DEF ClosedIn
<1> QED
  BY <1>3 DEF Above, Interfaces

-----------------------------------------------------------------------------
(* A class is added whose parents are there.                               *)
AddsClass(new, cl, c) ==
    /\ Hierarchy(cl) /\ Hierarchy(new)
    /\ c \notin DOMAIN cl /\ DOMAIN new = DOMAIN cl \cup {c}
    /\ \A d \in DOMAIN cl : new[d] = cl[d]
    /\ ParentsIn(new, c) \subseteq Plain(cl)

LEMMA ParentsStay ==
    ASSUME NEW new, NEW cl, NEW c, AddsClass(new, cl, c), NEW d \in DOMAIN cl
    PROVE  ParentsIn(new, d) = ParentsIn(cl, d) /\ ParentsIn(cl, d) \subseteq Plain(cl)
BY ParentsArePlain DEF AddsClass, ParentsIn

LEMMA AboveStays ==
    ASSUME NEW new, NEW cl, NEW c, AddsClass(new, cl, c), NEW a, NEW d \in Plain(cl)
    PROVE  Above(new, a, d) <=> Above(cl, a, d)
<1>1. ASSUME NEW S, ClosedIn(cl, S) PROVE ClosedIn(new, S)
  <2>1. S \subseteq Plain(new)
    BY <1>1 DEF ClosedIn, Plain, AddsClass
  <2>2. \A e \in S : ParentsIn(new, e) \subseteq S
    BY <1>1, ParentsStay DEF ClosedIn, Plain
  <2> QED
    BY <2>1, <2>2 DEF ClosedIn
<1>2. ASSUME NEW S, ClosedIn(new, S) PROVE ClosedIn(cl, S \cap Plain(cl))
  <2>1. ASSUME NEW e \in S \cap Plain(cl) PROVE ParentsIn(cl, e) \subseteq S \cap Plain(cl)
    BY <1>2, ParentsStay DEF ClosedIn, Plain
  <2> QED
    BY <2>1 DEF ClosedIn
<1>3. ASSUME Above(new, a, d) PROVE Above(cl, a, d)
  BY <1>1, <1>3 DEF Above
<1>4. ASSUME Above(cl, a, d) PROVE Above(new, a, d)
  <2>1. SUFFICES ASSUME NEW S, ClosedIn(new, S), d \in S PROVE a \in S
    BY DEF Above
  <2>2. a \in S \cap Plain(cl)
    BY <1>2, <1>4, <2>1 DEF Above
  <2> QED
    BY <2>2
<1> QED
  BY <1>3, <1>4

LEMMA FoundStays ==
    ASSUME NEW new, NEW cl, NEW c, AddsClass(new, cl, c), NEW kind, NEW class, NEW d \in DOMAIN cl
    PROVE  Found(kind, class, new, d) <=> Found(kind, class, cl, d)
<1>1. \A p \in ParentsIn(cl, d) : Above(new, class, p) <=> Above(cl, class, p)
  BY ParentsStay, AboveStays
<1> QED
  BY <1>1, ParentsStay DEF Found

(* A step looks at the parents only.                                       *)
LEMMA StepSeesParents ==
    ASSUME NEW new, Hierarchy(new), NEW kind, NEW class, NEW c \in DOMAIN new, NEW f, NEW g,
           \A p \in ParentsIn(new, c) : f[p] = g[p]
    PROVE  FoundStep(kind, class, new, f, c) = FoundStep(kind, class, new, g, c)
<1>1. \A i \in new[c].interfaces : i \in ParentsIn(new, c)
  BY ClassNamesAssumption DEF Hierarchy, ClassOK, Interfaces, Names, ParentsIn, IsInterface
<1>2. new[c].super # NoClass => new[c].super \in ParentsIn(new, c)
  BY DEF ParentsIn
<1> QED
  BY <1>1, <1>2 DEF FoundStep

LEMMA StepStays ==
    ASSUME NEW new, NEW cl, NEW c, AddsClass(new, cl, c), NEW kind, NEW class, NEW f,
           NEW d \in DOMAIN cl
    PROVE  FoundStep(kind, class, new, f, d) = FoundStep(kind, class, cl, f, d)
BY DEF AddsClass, FoundStep

LEMMA SolutionsExtend ==
    ASSUME NEW new, NEW cl, NEW c, AddsClass(new, cl, c), NEW kind, NEW class, NEW f,
           Solves(f, kind, class, cl)
    PROVE  \E g : Solves(g, kind, class, new)
<1> DEFINE Step(h, d) == FoundStep(kind, class, new, h, d)
<1>1. PICK g : g = [d \in DOMAIN new |-> IF d = c THEN Step(f, c) ELSE f[d]]
  OBVIOUS
<1>2. \A d \in DOMAIN cl : g[d] = f[d]
  BY <1>1 DEF AddsClass
<1>3. ASSUME NEW d \in DOMAIN new PROVE g[d] = Step(g, d)
  <2>1. \A p \in ParentsIn(new, d) : f[p] = g[p]
    <3>1. ParentsIn(new, d) \subseteq DOMAIN cl
      BY ParentsStay DEF AddsClass, Plain
    <3> QED
      BY <1>2, <3>1
  <2>2. Step(f, d) = Step(g, d)
    BY <2>1, StepSeesParents DEF AddsClass
  <2>3. g[d] = Step(f, d)
    <3>1. CASE d = c
      BY <1>1, <3>1
    <3>2. CASE d # c
      <4>1. d \in DOMAIN cl
        BY <3>2 DEF AddsClass
      <4>2. f[d] = FoundStep(kind, class, cl, f, d)
        BY <4>1 DEF Solves
      <4> QED
        BY <1>2, <4>1, <4>2, StepStays
    <3> QED
      BY <3>1, <3>2
  <2> QED
    BY <2>2, <2>3
<1> HIDE DEF Step
<1>4. g = [d \in DOMAIN new |-> Step(g, d)]
  BY <1>1, <1>3
<1> QED
  BY <1>4 DEF Solves, Step

LEMMA SolutionsRestrict ==
    ASSUME NEW new, NEW cl, NEW c, AddsClass(new, cl, c), NEW kind, NEW class, NEW g,
           Solves(g, kind, class, new)
    PROVE  /\ \A d \in DOMAIN new : g[d] = FoundStep(kind, class, new, g, d)
           /\ \E f : /\ Solves(f, kind, class, cl)
                     /\ \A d \in DOMAIN cl : f[d] = g[d]
<1> DEFINE Step(h, d) == FoundStep(kind, class, cl, h, d)
<1>1. \A d \in DOMAIN new : g[d] = FoundStep(kind, class, new, g, d)
  BY DEF Solves
<1>2. PICK f : f = [d \in DOMAIN cl |-> g[d]]
  OBVIOUS
<1>3. ASSUME NEW d \in DOMAIN cl PROVE f[d] = Step(f, d)
  <2>1. \A p \in ParentsIn(cl, d) : f[p] = g[p]
    BY <1>2, ParentsStay DEF Plain
  <2>2. Step(f, d) = Step(g, d)
    BY <2>1, StepSeesParents DEF AddsClass
  <2>3. d \in DOMAIN new
    BY DEF AddsClass
  <2> QED
    BY <1>1, <1>2, <2>2, <2>3, StepStays
<1> HIDE DEF Step
<1>4. f = [d \in DOMAIN cl |-> Step(f, d)]
  BY <1>2, <1>3
<1> QED
  BY <1>1, <1>2, <1>4 DEF Solves, Step

(* What the recursion finds for a class when it is right for its parents.  *)
LEMMA StepIsRight ==
    ASSUME NEW cl, Hierarchy(cl), NEW kind, NEW class, Asks(kind, class), NEW c \in DOMAIN cl, NEW f,
           \A p \in ParentsIn(cl, c) : f[p] <=> Found(kind, class, cl, p),
           \A p \in ParentsIn(cl, c) \ Primitives : Above(cl, ObjectClass, p)
    PROVE  FoundStep(kind, class, cl, f, c) <=> Found(kind, class, cl, c)
<1>1. ClassOK(cl, c) /\ ParentsIn(cl, c) \subseteq Plain(cl)
  BY ParentsArePlain DEF Hierarchy
<1>2. \A p \in ParentsIn(cl, c) :
         Above(cl, class, p) <=> class = p \/ \E q \in ParentsIn(cl, p) : Above(cl, class, q)
  BY <1>1, AboveStep
<1>3. \A i \in cl[c].interfaces : i \in ParentsIn(cl, c)
  BY <1>1, ClassNamesAssumption DEF ClassOK, Interfaces, Names, ParentsIn, IsInterface
<1>4. cl[c].super # NoClass => cl[c].super \in ParentsIn(cl, c)
  BY DEF ParentsIn
<1>5. \A p \in ParentsIn(cl, c) : p \in cl[c].interfaces \/ (p = cl[c].super /\ cl[c].super # NoClass)
  BY DEF ParentsIn
<1>6. CASE kind = "implements"
  <2>1. \A p \in ParentsIn(cl, c) : f[p] \/ class = p <=> Above(cl, class, p)
    BY <1>2, <1>6 DEF Found
  <2>2. class # cl[c].super
    BY <1>1, <1>6 DEF Asks, ClassOK
  <2>3. \A i \in cl[c].interfaces : f[i] \/ i = class <=> Above(cl, class, i)
    BY <1>3, <2>1
  <2>4. cl[c].super # NoClass => (f[cl[c].super] <=> Above(cl, class, cl[c].super))
    BY <1>4, <2>1, <2>2
  <2> QED
    BY <1>3, <1>4, <1>5, <1>6, <2>3, <2>4 DEF Found, FoundStep
<1>7. CASE kind = "sub"
  <2>1. \A p \in ParentsIn(cl, c) : f[p] <=> Above(cl, class, p)
    BY <1>2, <1>7 DEF Found
  <2>2. ASSUME NEW i \in cl[c].interfaces, Above(cl, class, i)
        PROVE  cl[c].super # NoClass /\ Above(cl, class, cl[c].super)
    <3>1. class = ObjectClass
      BY <1>1, <1>7, <2>2, AboveInterfaces DEF Asks, ClassOK
    <3>2. cl[c].super # NoClass
      BY <1>1 DEF ClassOK
    <3>3. cl[c].super \notin Primitives
      BY <1>1, <3>2, ClassNamesAssumption DEF ClassOK, Names
    <3> QED
      BY <1>4, <3>1, <3>2, <3>3
  <2> QED
    BY <1>4, <1>5, <1>7, <2>1, <2>2 DEF Found, FoundStep
<1> QED
  BY <1>6, <1>7 DEF Asks

LEMMA AddingKeeps ==
    ASSUME NEW new, NEW cl, NEW c, CastsInv(cl), AddsClass(new, cl, c)
    PROVE  CastsInv(new)
<1>1. \A d \in Plain(new) \ Primitives : Above(new, ObjectClass, d)
  <2>1. ASSUME NEW d \in Plain(new) \ Primitives PROVE Above(new, ObjectClass, d)
    <3>1. CASE d \in DOMAIN cl
      BY <3>1, AboveStays DEF CastsInv, Plain
    <3>2. CASE d = c
      <4>1. ClassOK(new, c) /\ c # ObjectClass
        BY DEF AddsClass, Hierarchy
      <4>2. new[c].super \in ParentsIn(new, c) /\ new[c].super \notin Primitives
        BY <3>2, <4>1, ClassNamesAssumption DEF ClassOK, ParentsIn, Names
      <4>3. new[c].super \in Plain(cl)
        BY <4>2 DEF AddsClass
      <4>4. Above(new, ObjectClass, new[c].super)
        BY <4>2, <4>3, AboveStays DEF CastsInv
      <4> QED
        BY <3>2, <4>2, <4>4, AboveStep DEF AddsClass
    <3> QED
      BY <3>1, <3>2 DEF AddsClass, Plain
  <2> QED
    BY <2>1
<1>2. \A kind, class : \E f : Solves(f, kind, class, new)
  BY SolutionsExtend DEF CastsInv
<1>3. ASSUME NEW kind, NEW class, NEW g, Asks(kind, class), Solves(g, kind, class, new),
             NEW d \in DOMAIN new
      PROVE  g[d] <=> Found(kind, class, new, d)
  <2>1. PICK f : Solves(f, kind, class, cl) /\ \A e \in DOMAIN cl : f[e] = g[e]
    BY <1>3, SolutionsRestrict
  <2>2. \A e \in DOMAIN cl : g[e] <=> Found(kind, class, new, e)
    BY <1>3, <2>1, FoundStays DEF CastsInv
  <2>3. CASE d \in DOMAIN cl
    BY <2>2, <2>3
  <2>4. CASE d = c
    <3>1. \A p \in ParentsIn(new, d) : p \in DOMAIN cl /\ p \in Plain(new)
      BY <2>4 DEF AddsClass, Plain
    <3>2. g[d] = FoundStep(kind, class, new, g, d)
      BY <1>3, SolutionsRestrict
    <3>3. FoundStep(kind, class, new, g, d) <=> Found(kind, class, new, d)
      BY <1>1, <1>3, <2>2, <3>1, StepIsRight DEF AddsClass
    <3> QED
      BY <3>2, <3>3
  <2> QED
    BY <2>3, <2>4 DEF AddsClass
<1> QED
  BY <1>1, <1>2, <1>3 DEF CastsInv, AddsClass

-----------------------------------------------------------------------------
LEMMA NamesAreNoArrays ==
    /\ (Names \cup Primitives) \cap ArrayNames = {}
    /\ ObjectClass \in Names /\ Cloneable \in Names /\ IsInterface(Cloneable)
    /\ ~IsInterface(ObjectClass) /\ ~IsInterface(NoClass) /\ NoClass \notin Names
    /\ Names \cap Primitives = {} /\ ObjectClass # Cloneable
    /\ \A i : IsInterface(i) => i \in Names
BY ArrayNamesAssumption, ClassNamesAssumption DEF Names, IsInterface

LEMMA FirstClasses == CastsInit => CastsInv(classes)
<1> SUFFICES ASSUME CastsInit PROVE CastsInv(classes)
  OBVIOUS
<1> DEFINE first == {ObjectClass, Cloneable} \cup Primitives
<1>1. /\ DOMAIN classes = first
      /\ \A c \in first : /\ classes[c].super = IF c = Cloneable THEN ObjectClass ELSE NoClass
                          /\ classes[c].interfaces = {}
  BY DEF CastsInit, Cb
<1>2. Hierarchy(classes)
  <2>1. \A c \in first : ClassOK(classes, c)
    BY <1>1, NamesAreNoArrays DEF ClassOK, Interfaces
  <2>2. first \cap ArrayNames = {} /\ first \subseteq Names \cup Primitives
    BY NamesAreNoArrays
  <2> QED
    BY <1>1, <2>1, <2>2 DEF Hierarchy
<1>3. \A c \in Plain(classes) \ Primitives : Above(classes, ObjectClass, c)
  <2>1. ASSUME NEW c \in Plain(classes) \ Primitives PROVE Above(classes, ObjectClass, c)
    <3>1. CASE c = ObjectClass
      BY <3>1, AboveItself
    <3>2. CASE c = Cloneable
      <4>1. ObjectClass \in ParentsIn(classes, c)
        BY <1>1, <3>2, NamesAreNoArrays DEF ParentsIn
      <4> QED
        BY <1>2, <4>1, AboveStep, AboveItself
    <3> QED
      BY <1>1, <3>1, <3>2 DEF Plain
  <2> QED
    BY <2>1
<1>4. ASSUME NEW kind, NEW class PROVE \E f : Solves(f, kind, class, classes)
  <2> DEFINE Step(f, c) == FoundStep(kind, class, classes, f, c)
             none == [c \in first |-> FALSE]
  <2>1. PICK f : f = [c \in first |-> Step(none, c)]
    OBVIOUS
  <2>2. PICK g : g = [c \in first |-> Step(f, c)]
    OBVIOUS
  <2>3. ASSUME NEW c \in first PROVE g[c] = Step(g, c)
    <3>1. ParentsIn(classes, ObjectClass) = {}
      BY <1>1, NamesAreNoArrays DEF ParentsIn
    <3>2. Step(none, ObjectClass) = Step(f, ObjectClass)
      BY <1>1, <1>2, <3>1, StepSeesParents
    <3>3. f[ObjectClass] = g[ObjectClass]
      BY <2>1, <2>2, <3>2
    <3>4. ParentsIn(classes, c) \subseteq {ObjectClass}
      BY <1>1, NamesAreNoArrays DEF ParentsIn
    <3>5. Step(f, c) = Step(g, c)
      BY <1>1, <1>2, <3>3, <3>4, StepSeesParents
    <3> QED
      BY <2>2, <3>5
  <2> HIDE DEF Step
  <2>4. g = [c \in first |-> Step(g, c)]
    BY <2>2, <2>3
  <2> QED
    BY <1>1, <2>4 DEF Solves, Step
<1>5. ASSUME NEW kind, NEW class, NEW f, Asks(kind, class), Solves(f, kind, class, classes),
             NEW c \in DOMAIN classes
      PROVE  f[c] <=> Found(kind, class, classes, c)
  <2>1. \A d \in DOMAIN classes : f[d] = FoundStep(kind, class, classes, f, d)
    BY <1>5 DEF Solves
  <2>2. ParentsIn(classes, ObjectClass) = {} /\ ObjectClass \in DOMAIN classes
    BY <1>1, NamesAreNoArrays DEF ParentsIn
  <2>3. FoundStep(kind, class, classes, f, ObjectClass) <=> Found(kind, class, classes, ObjectClass)
    BY <1>2, <1>5, <2>2, StepIsRight
  <2>4. \A p \in ParentsIn(classes, c) : p = ObjectClass
    BY <1>1, NamesAreNoArrays DEF ParentsIn
  <2>5. FoundStep(kind, class, classes, f, c) <=> Found(kind, class, classes, c)
    BY <1>2, <1>5, <2>1, <2>2, <2>3, <2>4, StepIsRight, AboveItself
  <2> QED
    BY <1>5, <2>1, <2>5
<1> QED
  BY <1>2, <1>3, <1>4, <1>5 DEF CastsInv

LEMMA DefiningKeeps ==
    ASSUME CastsInv(classes), NEW c \in ClassNames \cup InterfaceNames, NEW super, NEW interfaces,
           defineClass(c, super, interfaces)
    PROVE  CastsInv(classes')
<1> PICK cl, new : cl = classes /\ new = classes'
  OBVIOUS
<1>1. Hierarchy(cl)
  BY DEF CastsInv
<1>2. /\ c \notin DOMAIN cl /\ DOMAIN new = DOMAIN cl \cup {c}
      /\ \A d \in DOMAIN cl : new[d] = cl[d]
      /\ new[c].super = super /\ new[c].interfaces = interfaces
      /\ super \in DOMAIN cl \cap Names /\ ~IsInterface(super)
      /\ IsInterface(c) => super = ObjectClass
      /\ interfaces \subseteq Interfaces(cl)
  BY DEF defineClass, Cb, Interfaces
<1>3. c \in Names /\ c \notin Primitives /\ c # ObjectClass /\ c \notin ArrayNames
  BY ClassNamesAssumption, ArrayNamesAssumption DEF Names
<1>4. Hierarchy(new)
  <2>1. ASSUME NEW d \in DOMAIN new PROVE ClassOK(new, d)
    <3>1. CASE d = c
      BY <1>2, <1>3, <3>1, NamesAreNoArrays DEF ClassOK, Interfaces
    <3>2. CASE d \in DOMAIN cl
      <4>1. ClassOK(cl, d) /\ new[d] = cl[d]
        BY <1>1, <1>2, <3>2 DEF Hierarchy
      <4> QED
        BY <1>2, <4>1 DEF ClassOK, Interfaces
    <3> QED
      BY <1>2, <3>1, <3>2
  <2>2. ASSUME NEW d \in DOMAIN new \cap ArrayNames PROVE ArrayOK(new, d)
    <3>1. ArrayOK(cl, d) /\ new[d] = cl[d]
      BY <1>1, <1>2, <1>3, <2>2 DEF Hierarchy
    <3> QED
      BY <1>2, <3>1 DEF ArrayOK, Plain
  <2> QED
    BY <1>1, <1>2, <1>3, <2>1, <2>2 DEF Hierarchy
<1>5. ParentsIn(new, c) \subseteq Plain(cl)
  BY <1>2, NamesAreNoArrays DEF ParentsIn, Plain, Interfaces
<1>6. AddsClass(new, cl, c)
  BY <1>1, <1>2, <1>4, <1>5 DEF AddsClass
<1> QED
  BY <1>6, AddingKeeps

LEMMA ArraysKeep ==
    ASSUME CastsInv(classes), NEW element \in Names \cup Primitives, NEW dim \in 1..MaxDim,
           createArrayClass(element, dim)
    PROVE  CastsInv(classes')
<1> PICK cl, new, c : cl = classes /\ new = classes' /\ c = <<element, dim>>
  OBVIOUS
<1>1. Hierarchy(cl)
  BY DEF CastsInv
<1>2. /\ c \notin DOMAIN cl /\ DOMAIN new = DOMAIN cl \cup {c} /\ element \in DOMAIN cl
      /\ \A d \in DOMAIN cl : new[d] = cl[d]
      /\ new[c].super = ObjectClass /\ new[c].interfaces = {Cloneable}
      /\ element \in Primitives => new[c].element_class = NoClass
      /\ element \notin Primitives => new[c].element_class = element /\ new[c].dim = dim
  BY DEF createArrayClass, Cb
<1>3. c \in ArrayNames /\ c \notin Names /\ c \notin Primitives /\ c[1] = element /\ c[2] = dim
  <2>1. c \in ArrayNames
    BY DEF ArrayNames
  <2> QED
    BY <2>1, NamesAreNoArrays
<1>4. {ObjectClass, Cloneable} \subseteq DOMAIN cl
  BY <1>1 DEF Hierarchy
<1>5. Hierarchy(new)
  <2>1. ASSUME NEW d \in DOMAIN new PROVE ClassOK(new, d)
    <3>1. CASE d = c
      BY <1>2, <1>3, <1>4, <3>1, NamesAreNoArrays DEF ClassOK, Interfaces
    <3>2. CASE d \in DOMAIN cl
      <4>1. ClassOK(cl, d) /\ new[d] = cl[d]
        BY <1>1, <1>2, <3>2 DEF Hierarchy
      <4> QED
        BY <1>2, <4>1 DEF ClassOK, Interfaces
    <3> QED
      BY <1>2, <3>1, <3>2
  <2>2. ASSUME NEW d \in DOMAIN new \cap ArrayNames PROVE ArrayOK(new, d)
    <3>1. CASE d = c
      BY <1>2, <1>3, <3>1, NamesAreNoArrays DEF ArrayOK, Plain
    <3>2. CASE d \in DOMAIN cl
      <4>1. ArrayOK(cl, d) /\ new[d] = cl[d]
        BY <1>1, <1>2, <2>2, <3>2 DEF Hierarchy
      <4> QED
        BY <1>2, <4>1 DEF ArrayOK, Plain
    <3> QED
      BY <1>2, <3>1, <3>2
  <2> QED
    BY <1>1, <1>2, <1>3, <2>1, <2>2 DEF Hierarchy
<1>6. ParentsIn(new, c) \subseteq Plain(cl)
  BY <1>2, <1>4, NamesAreNoArrays DEF ParentsIn, Plain
<1>7. AddsClass(new, cl, c)
  BY <1>1, <1>2, <1>5, <1>6 DEF AddsClass
<1> QED
  BY <1>7, AddingKeeps

LEMMA CastsInvariance == CastsSpec => []CastsInv(classes)
<1>1. CastsInv(classes) /\ [CastsNext]_classes => CastsInv(classes')
  BY DefiningKeeps, ArraysKeep DEF CastsNext
<1>2. CastsInv(classes) /\ [CastsNext]_classes => CastsInv(classes)'
  BY <1>1
<1> QED
  BY <1>2, FirstClasses, PTL DEF CastsSpec

-----------------------------------------------------------------------------
LEMMA FunctionsAreRight ==
    ASSUME CastsInv(classes), NEW class, NEW test \in DOMAIN classes
    PROVE  /\ IsInterface(class) => (implements(class, test) <=> Found("implements", class, classes, test))
           /\ ~IsInterface(class) => (isSubClassOf(class, test) <=> Found("sub", class, classes, test))
<1>1. PICK f : f = CHOOSE g : Solves(g, "implements", class, classes)
  OBVIOUS
<1>2. PICK h : h = CHOOSE g : Solves(g, "sub", class, classes)
  OBVIOUS
<1>3. Solves(f, "implements", class, classes) /\ Solves(h, "sub", class, classes)
  BY <1>1, <1>2 DEF CastsInv
<1>4. implements(class, test) = f[test]
  BY <1>1 DEF implements, Solves, FoundStep
<1>5. isSubClassOf(class, test) = h[test]
  BY <1>2 DEF isSubClassOf, Solves, FoundStep
<1> QED
  BY <1>3, <1>4, <1>5 DEF CastsInv, Asks

(* PlainInstanceOf is to be above.                                         *)
LEMMA PlainIsAbove ==
    ASSUME CastsInv(classes), NEW class, NEW test \in Plain(classes)
    PROVE  PlainInstanceOf(class, test) <=> Above(classes, class, test)
<1>1. Above(classes, class, test) <=>
         class = test \/ \E p \in ParentsIn(classes, test) : Above(classes, class, p)
  BY AboveStep DEF CastsInv
<1>2. test \in DOMAIN classes
  BY DEF Plain
<1> QED
  BY <1>1, <1>2, FunctionsAreRight DEF PlainInstanceOf, Found

(* Of what is no array, Object is above arrays, and what they implement.    *)
LEMMA AboveArrays ==
    ASSUME CastsInv(classes), NEW class, NEW test \in DOMAIN classes \cap ArrayNames
    PROVE  /\ IsInterface(class) => (implements(class, test) <=> class = Cloneable)
           /\ ~IsInterface(class) => (isSubClassOf(class, test) <=> class = test \/ class = ObjectClass)
<1>1. /\ Hierarchy(classes) /\ ArrayOK(classes, test)
      /\ ClassOK(classes, ObjectClass) /\ ClassOK(classes, Cloneable)
      /\ classes[Cloneable].interfaces = {}
  BY DEF CastsInv, Hierarchy
<1>2. /\ ObjectClass \in Plain(classes) /\ Cloneable \in Plain(classes)
      /\ ObjectClass \notin Primitives /\ Cloneable \notin Primitives
  BY <1>1, NamesAreNoArrays DEF Hierarchy, Plain
<1>3. /\ ParentsIn(classes, test) = {ObjectClass, Cloneable}
      /\ ParentsIn(classes, ObjectClass) = {}
      /\ ParentsIn(classes, Cloneable) = {ObjectClass}
  BY <1>1, NamesAreNoArrays DEF ParentsIn, ArrayOK, ClassOK
<1>4. Above(classes, class, ObjectClass) <=> class = ObjectClass
  BY <1>1, <1>2, <1>3, AboveStep
<1>5. Above(classes, class, Cloneable) <=> class = Cloneable \/ class = ObjectClass
  BY <1>1, <1>2, <1>3, <1>4, AboveStep
<1> QED
  BY <1>3, <1>4, <1>5, FunctionsAreRight, NamesAreNoArrays DEF Found

(* A primitive type is above itself only, and only it is.                  *)
LEMMA PrimitivesAreApart ==
    ASSUME NEW cl, Hierarchy(cl), NEW a, NEW c \in Plain(cl), Above(cl, a, c),
           a \in Primitives \/ c \in Primitives
    PROVE  a = c
<1>1. CASE c \in Primitives
  <2>1. ParentsIn(cl, c) = {}
    BY <1>1 DEF Hierarchy, ClassOK, ParentsIn, Plain
  <2> QED
    BY <2>1, AboveStep
<1>2. CASE a \in Primitives /\ c \notin Primitives
  <2> DEFINE S == Plain(cl) \ Primitives
  <2>1. ASSUME NEW d \in S PROVE ParentsIn(cl, d) \subseteq S
    <3>1. d \in DOMAIN cl /\ ClassOK(cl, d) /\ ParentsIn(cl, d) \subseteq Plain(cl)
      BY ParentsArePlain DEF Hierarchy, Plain
    <3> QED
      BY <3>1, NamesAreNoArrays DEF ClassOK, ParentsIn, Interfaces
  <2>2. ClosedIn(cl, S)
    BY <2>1 DEF ClosedIn
  <2> QED
    BY <1>2, <2>2 DEF Above
<1> QED
  BY <1>1, <1>2

(* What isInstanceOf says of two arrays, of any dimensions: this is where  *)
(* it knows less than the rules.                                           *)
LEMMA ArraysDecided ==
    ASSUME CastsInv(classes), NEW class \in DOMAIN classes, NEW test \in DOMAIN classes \cap ArrayNames
    PROVE  isInstanceOf(class, test) <=>
              \/ class \in {ObjectClass, Cloneable}
              \/ /\ IsArray(class) /\ class[2] = test[2]
                 /\ Above(classes, class[1], test[1])
<1>1. Hierarchy(classes) /\ ArrayOK(classes, test)
  BY DEF CastsInv, Hierarchy
<1>2. test[1] \in Plain(classes) /\ test = <<test[1], test[2]>>
  BY <1>1 DEF ArrayOK, ArrayNames
<1>3. CASE class = test
  <2>1. IsArray(class) /\ Above(classes, class[1], test[1])
    BY <1>3, AboveItself DEF IsArray
  <2> QED
    BY <1>3, <2>1 DEF isInstanceOf, PlainInstanceOf
<1>4. CASE class # test /\ IsInterface(class)
  <2>1. ~IsArray(class) /\ class # ObjectClass
    BY <1>4, NamesAreNoArrays DEF IsArray
  <2>2. isInstanceOf(class, test) <=> implements(class, test)
    BY <1>4 DEF isInstanceOf, PlainInstanceOf
  <2> QED
    BY <1>4, <2>1, <2>2, AboveArrays
<1>5. CASE class # test /\ ~IsInterface(class)
  <2>1. isInstanceOf(class, test) <=> isInstOfArray(class, test)
    BY <1>5 DEF isInstanceOf, IsArray
  <2>2. isSubClassOf(class, test) <=> class \in {ObjectClass, Cloneable}
    BY <1>5, AboveArrays, NamesAreNoArrays
  <2>3. CASE ~IsArray(class)
    BY <2>1, <2>2, <2>3 DEF isInstOfArray
  <2>4. CASE IsArray(class)
    <3>1. /\ ArrayOK(classes, class) /\ class[1] \in Plain(classes)
          /\ class = <<class[1], class[2]>>
      BY <1>1, <2>4 DEF Hierarchy, ArrayOK, ArrayNames, IsArray
    <3>2. class[1] # NoClass /\ test[1] # NoClass
      BY <1>1, <1>2, <3>1, ClassNamesAssumption, NamesAreNoArrays DEF Hierarchy, Plain
    <3>3. CASE class[1] \in Primitives \/ test[1] \in Primitives
      <4>1. ~(classes[test].element_class # NoClass /\ classes[class].element_class # NoClass)
        BY <1>1, <3>1, <3>3 DEF ArrayOK
      <4>2. class[2] = test[2] => ~Above(classes, class[1], test[1])
        BY <1>1, <1>2, <1>5, <3>1, <3>3, PrimitivesAreApart
      <4> QED
        BY <2>1, <2>2, <4>1, <4>2 DEF isInstOfArray
    <3>4. CASE class[1] \notin Primitives /\ test[1] \notin Primitives
      <4>1. /\ classes[test].element_class = test[1] /\ classes[class].element_class = class[1]
            /\ classes[test].dim = test[2] /\ classes[class].dim = class[2]
        BY <1>1, <3>1, <3>4 DEF ArrayOK
      <4>2. PlainInstanceOf(class[1], test[1]) <=> Above(classes, class[1], test[1])
        BY <1>2, PlainIsAbove
      <4> QED
        BY <2>1, <2>2, <2>4, <3>2, <4>1, <4>2 DEF isInstOfArray
    <3> QED
      BY <3>3, <3>4
  <2> QED
    BY <2>3, <2>4
<1> QED
  BY <1>3, <1>4, <1>5

LEMMA RulesAreFollowed == CastsInv(classes) /\ MaxDim <= 1 => CastsFollowTheRules
<1> SUFFICES ASSUME CastsInv(classes), MaxDim <= 1 PROVE CastsFollowTheRules
  OBVIOUS
<1> DEFINE IsAbove(a, c) == /\ {a, c} \subseteq DOMAIN classes \ ArrayNames
                            /\ \A above \in Closed : c \in above => a \in above
<1>1. Hierarchy(classes)
  BY DEF CastsInv
<1>2. ASSUME NEW a, NEW c \in Plain(classes) PROVE IsAbove(a, c) <=> Above(classes, a, c)
  <2>1. \A S : S \in Closed <=> ClosedIn(classes, S)
    BY DEF Closed, ClosedIn, Parents, ParentsIn, Plain
  <2>2. Above(classes, a, c) => a \in Plain(classes)
    BY <1>1, ArraysAreNotAbove
  <2> QED
    BY <2>1, <2>2 DEF Above, Plain
<1>3. ASSUME NEW class \in DOMAIN classes, NEW test \in DOMAIN classes
      PROVE  isInstanceOf(class, test) <=>
                IF ~IsArray(test) THEN IsAbove(class, test)
                ELSE \/ class \in {ObjectClass, Cloneable}
                     \/ /\ IsArray(class)
                        /\ \/ class[2] = test[2] /\ IsAbove(class[1], test[1])
                           \/ class[2] < test[2] /\ class[1] \in {ObjectClass, Cloneable}
  <2>1. CASE ~IsArray(test)
    <3>1. test \in Plain(classes)
      BY <2>1 DEF Plain, IsArray
    <3>2. isInstanceOf(class, test) <=> PlainInstanceOf(class, test)
      BY <2>1 DEF isInstanceOf
    <3> QED
      BY <1>2, <2>1, <3>1, <3>2, PlainIsAbove
  <2>2. CASE IsArray(test)
    <3>1. test \in ArrayNames /\ test[1] \in Plain(classes)
      BY <1>1, <2>2 DEF Hierarchy, ArrayOK, IsArray
    <3>2. IsArray(class) => ~(class[2] < test[2])
      <4>1. \A x, y \in 1..MaxDim : ~(x < y)
        BY ClassNamesAssumption
      <4>2. test[2] \in 1..MaxDim /\ (IsArray(class) => class[2] \in 1..MaxDim)
        BY <3>1 DEF IsArray, ArrayNames
      <4> QED
        BY <4>1, <4>2
    <3>3. IsAbove(class[1], test[1]) <=> Above(classes, class[1], test[1])
      BY <1>2, <3>1
    <3>4. isInstanceOf(class, test) <=>
              \/ class \in {ObjectClass, Cloneable}
              \/ /\ IsArray(class) /\ class[2] = test[2]
                 /\ Above(classes, class[1], test[1])
      BY <3>1, ArraysDecided
    <3> HIDE DEF IsAbove
    <3> QED
      BY <2>2, <3>2, <3>3, <3>4
  <2> QED
    BY <2>1, <2>2
<1> QED
  BY <1>3 DEF CastsFollowTheRules

(* Whatever hierarchy of classes, interfaces and arrays is defined, in     *)
(* whatever order, isInstanceOf decides as the rules of the language do,   *)
(* for arrays of one dimension (cast.c; see there for arrays of more).     *)
THEOREM CastsAreRight == (MaxDim <= 1 /\ CastsSpec) => []CastsFollowTheRules
<1>1. CASE MaxDim <= 1
  <2>1. CastsInv(classes) => CastsFollowTheRules
    BY <1>1, RulesAreFollowed
  <2> QED
    BY <2>1, CastsInvariance, PTL
<1>2. CASE ~(MaxDim <= 1)
  BY <1>2
<1> QED
  BY <1>1, <1>2

=============================================================================
