----------------------------- MODULE HashTable -----------------------------
(***************************************************************************)
(* The hash tables of the VM (hash.h, hash.c): interned strings, UTF-8     *)
(* strings, classes, libraries and Monitors.                               *)
(*                                                                         *)
(* A table is a power of two of slots with linear probing and is enlarged  *)
(* before it is full.  Entries are taken out by scavenging only, which     *)
(* leaves holes in the chains and ends with building the table anew.  The  *)
(* operations hold the lock of the table and are atomic.                   *)
(***************************************************************************)
EXTENDS Naturals, FiniteSets

CONSTANTS
    Keys,
    Hash,         \* Keys -> Nat
    InitialSize,  \* the size of the table at first, a power of two
    Scavenges,    \* whether the table is one that is scavenged
    NoEntry       \* an empty slot

ASSUME HashAssumption ==
    /\ Hash \in [Keys -> Nat] /\ InitialSize \in Nat /\ InitialSize >= 2
    /\ NoEntry \notin Keys /\ Scavenges \in BOOLEAN

VARIABLES
    hash_table,  \* [0..hash_size - 1 -> Keys \cup {NoEntry}]
    hash_size,
    hash_count,
    entries      \* the keys that were entered and not scavenged

hashVars == <<hash_table, hash_size, hash_count, entries>>

Slots(size) == 0..(size - 1)
Empty(size) == [i \in Slots(size) |-> NoEntry]

HashInit ==
    /\ hash_table = Empty(InitialSize)
    /\ hash_size = InitialSize
    /\ hash_count = 0
    /\ entries = {}

(* The first slot, from that of the hash on and around, that has one of    *)
(* some entries.                                                           *)
Probe(table, size, k, stops) ==
    LET At(d) == (Hash[k] + d) % size
        first == CHOOSE d \in Slots(size) :
                    table[At(d)] \in stops /\ \A e \in 0..(d - 1) : table[At(e)] \notin stops
    IN
    At(first)

(* Where k is, or is to be.                                                *)
SlotOf(k) == Probe(hash_table, hash_size, k, {k, NoEntry})

(* Fault: the entries are taken over into the slots they had.              *)
resizeHash_copied(table, size, new_size) ==
    [i \in Slots(new_size) |-> IF i < size THEN table[i] ELSE NoEntry]

(* The table built anew, from the last slot to the first.                  *)
resizeHash(table, size, new_size) ==
    LET Put(new, k) ==
            IF k = NoEntry THEN new
            ELSE [new EXCEPT ![Probe(new, new_size, k, {NoEntry})] = k]
        built[n \in 0..size] ==
            IF n = 0 THEN Empty(new_size) ELSE Put(built[n - 1], table[size - n])
    IN
    built[size]

(* Fault: the table is enlarged when it is full.                           *)
Full_late(count) == count > hash_size

Full(count) == count * 4 > hash_size * 3

(* add_if_absent.  A table that is too full is scavenged, if it is one of  *)
(* those: as many slots as there are entries are looked at, from the first *)
(* on, and those of dead entries emptied.                                  *)
Added(k) == [hash_table EXCEPT ![SlotOf(k)] = k]
LookedAt(k) ==
    IF Scavenges /\ Full(hash_count + 1)
    THEN {i \in Slots(hash_size) : i <= hash_count /\ Added(k)[i] \in entries} ELSE {}

enter(k, dead) ==
    LET left == [i \in Slots(hash_size) |-> IF i \in dead THEN NoEntry ELSE Added(k)[i]]
        count == hash_count + 1 - Cardinality(dead)
        new_size == IF Scavenges /\ count * 3 <= hash_size * 2 THEN hash_size ELSE hash_size * 2
        full == Full(hash_count + 1)
    IN
    /\ k \notin entries
    /\ hash_table' = IF full THEN resizeHash(left, hash_size, new_size) ELSE left
    /\ hash_size' = IF full THEN new_size ELSE hash_size
    /\ hash_count' = count
    /\ entries' = (entries \cup {k}) \ {hash_table[i] : i \in dead}

HashNext == \E k \in Keys \ entries : \E dead \in SUBSET LookedAt(k) : enter(k, dead)

HashSpec == HashInit /\ [][HashNext]_hashVars

-----------------------------------------------------------------------------
(* The number of entries is known, none is there twice, and a quarter of   *)
(* the slots is empty.                                                     *)
LoadIsBounded ==
    /\ hash_count = Cardinality(entries)
    /\ hash_count = Cardinality({i \in Slots(hash_size) : hash_table[i] # NoEntry})
    /\ hash_count * 4 <= hash_size * 3

(* A key is found if it was entered, and found to be absent if not: no     *)
(* chain of probes is cut by a hole, and none runs past the end or into an *)
(* older place of an entry, when the table is enlarged, scavenged or       *)
(* neither (findHashEntry, resizeHash).  There is always an empty slot, or *)
(* looking for an absent key would not end: between operations a quarter   *)
(* is, whatever was scavenged.                                             *)
EntriesAreFound ==
    /\ LoadIsBounded
    /\ \A k \in Keys : hash_table[SlotOf(k)] = IF k \in entries THEN k ELSE NoEntry

=============================================================================
