------------------------------ MODULE HeapProofs ------------------------------
(***************************************************************************)
(* Proofs about Heap, for any size of the heap, any requests and number of *)
(* threads, whatever is marked besides what the program reaches.           *)
(***************************************************************************)
EXTENDS Heap, FiniteSetTheorems, SequenceTheorems, TLAPS

-----------------------------------------------------------------------------
(* Facts about numbers, finite sets and functions.                         *)

LEMMA WithBlock ==
    ASSUME NEW h, NEW a, NEW block
    PROVE  /\ DOMAIN With(h, a, block) = DOMAIN h \cup {a}
           /\ With(h, a, block) = [b \in DOMAIN With(h, a, block) |-> With(h, a, block)[b]]
           /\ With(h, a, block)[a] = block
           /\ \A b \in DOMAIN h : b # a => With(h, a, block)[b] = h[b]
BY DEF With

LEMMA LargerOfTwo ==
    ASSUME NEW x \in Int, NEW y \in Int
    PROVE  Max({x, y}) = IF x <= y THEN y ELSE x
<1> DEFINE z == IF x <= y THEN y ELSE x
<1>1. z \in {x, y} /\ \A u \in {x, y} : z >= u
  OBVIOUS
<1>2. \A u \in {x, y} : (\A v \in {x, y} : u >= v) => u = z
  OBVIOUS
<1> QED
  BY <1>1, <1>2 DEF Max

LEMMA SmallerOfTwo ==
    ASSUME NEW x \in Int, NEW y \in Int
    PROVE  Min({x, y}) = IF x <= y THEN x ELSE y
<1> DEFINE z == IF x <= y THEN x ELSE y
<1>1. z \in {x, y} /\ \A u \in {x, y} : z <= u
  OBVIOUS
<1>2. \A u \in {x, y} : (\A v \in {x, y} : u <= v) => u = z
  OBVIOUS
<1> QED
  BY <1>1, <1>2 DEF Min

LEMMA IntervalsAreFinite ==
    ASSUME NEW a \in Nat, NEW size \in Nat
    PROVE  /\ IsFiniteSet(a .. a + size - 1) /\ Cardinality(a .. a + size - 1) = size
<1>1. a \in Int /\ a + size - 1 \in Int
  OBVIOUS
<1>2. /\ IsFiniteSet(a .. a + size - 1)
      /\ Cardinality(a .. a + size - 1)
            = IF a > a + size - 1 THEN 0 ELSE (a + size - 1) - a + 1
  BY <1>1, FS_Interval
<1> QED
  BY <1>2

LEMMA DisjointSetsAdd ==
    ASSUME NEW S, NEW T, IsFiniteSet(S), IsFiniteSet(T), S \cap T = {}
    PROVE  /\ IsFiniteSet(S \cup T)
           /\ Cardinality(S) \in Nat /\ Cardinality(T) \in Nat
           /\ Cardinality(S \cup T) = Cardinality(S) + Cardinality(T)
<1>1. Cardinality(S) \in Nat /\ Cardinality(T) \in Nat
  BY FS_CardinalityType
<1>2. /\ IsFiniteSet(S \cup T)
      /\ Cardinality(S \cup T) = Cardinality(S) + Cardinality(T) - Cardinality(S \cap T)
  BY FS_Union
<1>3. Cardinality(S \cap T) = 0
  BY FS_EmptySet
<1> QED
  BY <1>1, <1>2, <1>3

(* A set of numbers has a least one.  The library's theorems on induction  *)
(* take an operator, which no prover here can instantiate; that finite     *)
(* sets are well-founded under inclusion does not.                         *)
LEMMA LeastNumber ==
    ASSUME NEW T \in SUBSET Nat, T # {}
    PROVE  \E m \in T : \A i \in T : m <= i
<1> DEFINE inclusion == StrictSubsetOrdering(Nat)
           finite == FiniteSubsetsOf(Nat)
           intervals == {0..i : i \in T}
<1>1. IsWellFoundedOn(inclusion, finite)
  BY FS_StrictSubsetOrderingWellFounded
<1>2. \A i \in T : 0..i \in finite
  <2>1. ASSUME NEW i \in T PROVE IsFiniteSet(0..i)
    BY FS_Interval
  <2> QED
    BY <2>1 DEF FiniteSubsetsOf
<1>3. intervals \subseteq finite /\ intervals # {}
  BY <1>2
<1>4. \E x \in intervals : \A y \in intervals : ~(<<y, x>> \in inclusion)
  <2> HIDE DEF inclusion, finite, intervals
  <2> QED
    BY <1>1, <1>3, WFMin
<1>5. PICK m \in T : \A i \in T : ~(<<0..i, 0..m>> \in inclusion)
  BY <1>4
<1>6. ASSUME NEW i \in T PROVE m <= i
  <2>1. SUFFICES ASSUME i < m PROVE FALSE
    BY i \in Nat, m \in Nat
  <2>2. m \in 0..m /\ m \notin 0..i
    BY <2>1
  <2>3. (0..i) \subseteq (0..m) /\ 0..i # 0..m /\ 0..i \in SUBSET Nat /\ 0..m \in SUBSET Nat
    BY <2>1, <2>2
  <2> QED
    BY <1>5, <2>3 DEF StrictSubsetOrdering
<1> QED
  BY <1>6

(* What is true of 0 and of the successor of what it is true of, up to j,  *)
(* is true up to j; S is the set of the numbers it is true of.             *)
LEMMA UpTo ==
    ASSUME NEW j \in Nat, NEW S, 0 \in S, \A i \in 1..j : i - 1 \in S => i \in S
    PROVE  \A i \in 0..j : i \in S
<1> DEFINE T == {i \in 0..j : i \notin S}
<1>1. SUFFICES ASSUME T # {} PROVE FALSE
  OBVIOUS
<1>2. PICK m \in T : \A i \in T : m <= i
  <2>1. T \in SUBSET Nat
    OBVIOUS
  <2> HIDE DEF T
  <2> QED
    BY <1>1, <2>1, LeastNumber
<1>3. m \in 1..j /\ m - 1 \in 0..j /\ ~(m <= m - 1)
  BY <1>2
<1>4. m - 1 \in S
  BY <1>2, <1>3
<1> QED
  BY <1>2, <1>3, <1>4

-----------------------------------------------------------------------------
(* Blocks.  Headers h describe blocks below a limit which do not overlap;  *)
(* a heap is one where they leave no gap.                                  *)
Headers == [size : Nat \ {0}, alloced : BOOLEAN]
End(h, a) == a + h[a].size
Blocks(h, limit) ==
    /\ h \in [DOMAIN h -> Headers] /\ DOMAIN h \subseteq Nat
    /\ \A a \in DOMAIN h : End(h, a) <= limit
    /\ \A a, b \in DOMAIN h : a < b => End(h, a) <= b

In(g, h, a) == a <= g /\ g < End(h, a)
NoGap(h, limit) == \A g \in 0 .. limit - 1 : \E a \in DOMAIN h : In(g, h, a)

(* The free chunks, in the order of their addresses, and their grains.     *)
Free(h) == {a \in DOMAIN h : ~h[a].alloced}
FreeGrains(h) == UNION {a .. End(h, a) - 1 : a \in Free(h)}
Lists(list, h) ==
    /\ list \in Seq(Free(h))
    /\ \A i, j \in 1 .. Len(list) : i < j => list[i] < list[j]
    /\ \A a \in Free(h) : \E i \in 1 .. Len(list) : list[i] = a

LEMMA FreeGrainsAreFinite ==
    ASSUME NEW limit \in Nat, NEW h, Blocks(h, limit)
    PROVE  IsFiniteSet(FreeGrains(h)) /\ Cardinality(FreeGrains(h)) \in Nat
<1>1. FreeGrains(h) \in SUBSET (0 .. 0 + limit - 1)
  <2>1. SUFFICES ASSUME NEW a \in Free(h), NEW g \in a .. End(h, a) - 1
                 PROVE  g \in 0 .. 0 + limit - 1
    BY DEF FreeGrains
  <2>2. a \in Nat /\ h[a].size \in Nat /\ End(h, a) <= limit /\ End(h, a) = a + h[a].size
    BY DEF Free, Blocks, Headers, End
  <2> QED
    BY <2>1, <2>2
<1>2. IsFiniteSet(0 .. 0 + limit - 1)
  BY IntervalsAreFinite
<1> QED
  BY <1>1, <1>2, FS_Subset, FS_CardinalityType

(* A block that is put where none was.                                     *)
RoomFor(h, limit, a, block) ==
    /\ Blocks(h, limit) /\ a \in Nat /\ a \notin DOMAIN h
    /\ block \in Headers /\ a + block.size <= limit
    /\ \A b \in DOMAIN h : End(h, b) <= a \/ a + block.size <= b
Adds(new, h, a, block) ==
    /\ DOMAIN new = DOMAIN h \cup {a}
    /\ new[a] = block /\ \A b \in DOMAIN h : new[b] = h[b]
    /\ block.alloced => /\ Free(new) = Free(h)
                       /\ Cardinality(FreeGrains(new)) = Cardinality(FreeGrains(h))
    /\ ~block.alloced =>
          /\ Free(new) = Free(h) \cup {a}
          /\ Cardinality(FreeGrains(new)) = Cardinality(FreeGrains(h)) + block.size

LEMMA BlockIsAdded ==
    ASSUME NEW limit \in Nat, NEW h, NEW a, NEW block, RoomFor(h, limit, a, block),
           NEW new, new = With(h, a, block)
    PROVE  Blocks(new, limit) /\ Adds(new, h, a, block)
<1>0. /\ Blocks(h, limit) /\ a \in Nat /\ a \notin DOMAIN h
      /\ block \in Headers /\ a + block.size <= limit
      /\ \A b \in DOMAIN h : End(h, b) <= a \/ a + block.size <= b
  BY DEF RoomFor
<1>1. /\ DOMAIN new = DOMAIN h \cup {a}
      /\ new[a] = block
      /\ \A b \in DOMAIN h : new[b] = h[b]
  BY <1>0 DEF With
<1>2. new \in [DOMAIN new -> Headers] /\ DOMAIN new \subseteq Nat
  <2>1. \A b \in DOMAIN new : new[b] \in Headers
    BY <1>0, <1>1 DEF Blocks
  <2>2. new = [b \in DOMAIN new |-> new[b]]
    BY DEF With
  <2> QED
    BY <1>0, <1>1, <2>1, <2>2 DEF Blocks
<1>3. /\ \A b \in DOMAIN h : End(new, b) = End(h, b) /\ End(h, b) \in Nat /\ b \in Nat
                             /\ b < End(h, b)
      /\ End(new, a) = a + block.size /\ block.size \in Nat \ {0}
  BY <1>0, <1>1 DEF End, Blocks, Headers
<1>4. Blocks(new, limit)
  BY <1>0, <1>1, <1>2, <1>3 DEF Blocks
<1>5. Free(new) = IF block.alloced THEN Free(h) ELSE Free(h) \cup {a}
  BY <1>0, <1>1 DEF Free
<1>6. CASE block.alloced
  <2>1. FreeGrains(new) = FreeGrains(h)
    BY <1>3, <1>5, <1>6 DEF FreeGrains, Free
  <2> QED
    BY <1>1, <1>4, <1>5, <1>6, <2>1 DEF Adds
<1>7. CASE ~block.alloced
  <2> DEFINE grains == a .. a + block.size - 1
  <2>1. FreeGrains(new) = FreeGrains(h) \cup grains
    BY <1>0, <1>3, <1>5, <1>7 DEF FreeGrains, Free
  <2>2. FreeGrains(h) \cap grains = {}
    <3>1. SUFFICES ASSUME NEW b \in Free(h), NEW g \in b .. End(h, b) - 1, g \in grains
                   PROVE  FALSE
      BY DEF FreeGrains
    <3>2. End(h, b) <= a \/ a + block.size <= b
      BY <1>0 DEF Free
    <3>3. b \in Nat /\ End(h, b) \in Nat /\ block.size \in Nat
      BY <1>3 DEF Free
    <3> QED
      BY <1>0, <3>1, <3>2, <3>3
  <2>3. IsFiniteSet(grains) /\ Cardinality(grains) = block.size
    BY <1>0, <1>3, IntervalsAreFinite
  <2>4. IsFiniteSet(FreeGrains(h))
    BY <1>0, FreeGrainsAreFinite
  <2> HIDE DEF grains
  <2>5. Cardinality(FreeGrains(h) \cup grains)
           = Cardinality(FreeGrains(h)) + Cardinality(grains)
    BY <2>2, <2>3, <2>4, DisjointSetsAdd
  <2> QED
    BY <1>1, <1>4, <1>5, <1>7, <2>1, <2>3, <2>5 DEF Adds
<1> QED
  BY <1>6, <1>7

(* A chunk that becomes larger by a block behind it.                       *)
LEMMA BlockIsMerged ==
    ASSUME NEW limit \in Nat, NEW h, Blocks(h, limit), NEW a \in Free(h), NEW more \in Nat,
           End(h, a) + more <= limit,
           \A b \in DOMAIN h : b <= a,
           NEW new, new = With(h, a, Chunk(h[a].size + more))
    PROVE  /\ Blocks(new, limit) /\ DOMAIN new = DOMAIN h
           /\ new[a] = [size |-> h[a].size + more, alloced |-> FALSE]
           /\ \A b \in DOMAIN h \ {a} : new[b] = h[b]
           /\ Free(new) = Free(h)
           /\ Cardinality(FreeGrains(new)) = Cardinality(FreeGrains(h)) + more
<1>1. /\ a \in DOMAIN h /\ a \in Nat /\ h[a] \in Headers /\ ~h[a].alloced
      /\ h \in [DOMAIN h -> Headers]
  BY DEF Free, Blocks
<1>2. h[a].size + more \in Nat \ {0}
  <2>1. PICK x \in Nat \ {0} : h[a].size = x
    BY <1>1 DEF Headers
  <2>2. x + more \in Nat \ {0}
    OBVIOUS
  <2> QED
    BY <2>1, <2>2
<1>3. /\ DOMAIN new = DOMAIN h
      /\ new[a] = [size |-> h[a].size + more, alloced |-> FALSE] /\ new[a] \in Headers
      /\ \A b \in DOMAIN h \ {a} : new[b] = h[b]
      /\ new = [b \in DOMAIN new |-> new[b]]
  BY <1>1, <1>2 DEF With, Chunk, Headers
<1>4. new \in [DOMAIN new -> Headers] /\ DOMAIN new \subseteq Nat
  BY <1>1, <1>3 DEF Blocks
<1>a. \A b \in DOMAIN h : /\ b \in Nat /\ End(h, b) \in Nat /\ b < End(h, b)
                          /\ h[b].size \in Nat /\ End(h, b) <= limit
  BY DEF End, Blocks, Headers
<1>5. /\ \A b \in DOMAIN h \ {a} : End(new, b) = End(h, b) /\ End(h, b) <= a
      /\ End(new, a) = End(h, a) + more
  <2>1. End(new, a) = End(h, a) + more
    <3>1. new[a].size = h[a].size + more
      BY <1>3
    <3>2. a \in Nat /\ h[a].size \in Nat
      BY <1>1, <1>a
    <3> QED
      BY <3>1, <3>2 DEF End
  <2>2. ASSUME NEW b \in DOMAIN h \ {a} PROVE End(new, b) = End(h, b) /\ End(h, b) <= a
    <3>1. b < a
      BY <1>1, <1>a
    <3> QED
      BY <1>1, <1>3, <3>1 DEF End, Blocks
  <2> QED
    BY <2>1, <2>2
<1>6. Blocks(new, limit)
  <2>1. \A b \in DOMAIN new : End(new, b) <= limit
    BY <1>1, <1>3, <1>5, <1>a
  <2>2. \A b, c \in DOMAIN new : b < c => End(new, b) <= c
    <3>1. SUFFICES ASSUME NEW b \in DOMAIN h, NEW c \in DOMAIN h, b < c
                   PROVE  End(new, b) <= c
      BY <1>3
    <3>2. c <= a /\ c \in Nat /\ b \in Nat /\ a \in Nat
      BY <1>1, <1>a
    <3>3. b # a
      BY <3>1, <3>2
    <3> QED
      BY <1>5, <3>1, <3>3 DEF Blocks
  <2> QED
    BY <1>4, <2>1, <2>2 DEF Blocks
<1>7. Free(new) = Free(h)
  BY <1>1, <1>3 DEF Free
<1> DEFINE grains == End(h, a) .. End(h, a) + more - 1
<1>8. FreeGrains(new) = FreeGrains(h) \cup grains
  <2>1. \A b \in Free(h) \ {a} : End(new, b) = End(h, b)
    BY <1>5 DEF Free
  <2>2. a .. End(new, a) - 1 = (a .. End(h, a) - 1) \cup grains
    BY <1>1, <1>5, <1>a
  <2> DEFINE others == UNION {b .. End(h, b) - 1 : b \in Free(h) \ {a}}
  <2> HIDE DEF grains
  <2>3. FreeGrains(new) = others \cup (a .. End(new, a) - 1)
    <3>1. others = UNION {b .. End(new, b) - 1 : b \in Free(h) \ {a}}
      BY <2>1
    <3>2. Free(h) = (Free(h) \ {a}) \cup {a}
      OBVIOUS
    <3> QED
      BY <1>7, <3>1, <3>2 DEF FreeGrains
  <2>4. FreeGrains(h) = others \cup (a .. End(h, a) - 1)
    BY DEF FreeGrains
  <2> HIDE DEF others
  <2> QED
    BY <2>2, <2>3, <2>4
<1>9. FreeGrains(h) \cap grains = {}
  <2>1. SUFFICES ASSUME NEW b \in Free(h), NEW g \in b .. End(h, b) - 1, g \in grains
                 PROVE  FALSE
    BY DEF FreeGrains
  <2>2. End(h, b) <= End(h, a) /\ End(h, b) \in Nat /\ End(h, a) \in Nat /\ b \in Nat
    BY <1>1, <1>5, <1>a DEF Free
  <2> QED
    BY <2>1, <2>2
<1>10. IsFiniteSet(grains) /\ Cardinality(grains) = more
  BY <1>1, <1>a, IntervalsAreFinite
<1>11. IsFiniteSet(FreeGrains(h))
  BY FreeGrainsAreFinite
<1> HIDE DEF grains
<1>12. Cardinality(FreeGrains(h) \cup grains) = Cardinality(FreeGrains(h)) + Cardinality(grains)
  BY <1>9, <1>10, <1>11, DisjointSetsAdd
<1> QED
  BY <1>3, <1>6, <1>7, <1>8, <1>10, <1>12

-----------------------------------------------------------------------------
(* The sweep.  When it has come to the address i, what it has built are    *)
(* blocks h below i and below what is still to be swept, without a gap in  *)
(* what is swept; the marked objects are in it as they were, and no other. *)
SweptHeader(marked, h, i) ==
    /\ Blocks(h, heaplimit)
    /\ \A a \in DOMAIN h : a < i /\ a \in DOMAIN header
    /\ \A a \in DOMAIN h, b \in DOMAIN header : b >= i => End(h, a) <= b
    /\ \A g \in Nat, b \in DOMAIN header :
          b < i /\ In(g, header, b) => \E a \in DOMAIN h : In(g, h, a)
    /\ \A a \in DOMAIN h : h[a].alloced => a \in marked /\ h[a] = header[a]
    /\ \A a \in marked : a < i => a \in DOMAIN h /\ h[a] = header[a]

(* The list has the free chunks; the last is open when it may still become *)
(* larger, and only then it is not yet counted.                            *)
SweptFree(h, list, open, largest, free) ==
    /\ Lists(list, h)
    /\ open \in BOOLEAN /\ largest \in Nat /\ free \in Nat
    /\ open => Len(list) > 0 /\ \A a \in DOMAIN h : a <= Last(list)
    /\ Cardinality(FreeGrains(h)) = free + (IF open THEN h[Last(list)].size ELSE 0)
    /\ \A a \in Free(h) : h[a].size <= largest \/ (open /\ a = Last(list))
    /\ largest = 0 \/ \E a \in Free(h) : h[a].size = largest /\ (open => a # Last(list))

(* What the sweep finds.                                                   *)
Tiled == Blocks(header, heaplimit) /\ NoGap(header, heaplimit) /\ heaplimit \in Nat

LEMMA LastIsFree ==
    ASSUME NEW h, NEW list, Lists(list, h), Len(list) > 0
    PROVE  Last(list) \in Free(h) /\ Len(list) \in Nat /\ Last(list) = list[Len(list)]
BY DEF Lists, Last

(* No block begins at i.                                                   *)
LEMMA NoBlock ==
    ASSUME NEW marked, marked \subseteq DOMAIN header, Tiled, NEW i \in Nat, i \notin DOMAIN header,
           NEW h, SweptHeader(marked, h, i)
    PROVE  SweptHeader(marked, h, i + 1)
<1>1. \A b \in DOMAIN header : b \in Nat /\ (b < i + 1 <=> b < i) /\ (b >= i + 1 <=> b >= i)
  BY DEF Tiled, Blocks
<1> QED
  BY <1>1 DEF SweptHeader

(* A chunk is closed.                                                      *)
LEMMA ChunkIsClosed ==
    ASSUME Tiled, NEW h, Blocks(h, heaplimit),
           NEW list, NEW largest, NEW free, SweptFree(h, list, TRUE, largest, free),
           NEW size, size = h[Last(list)].size
    PROVE  SweptFree(h, list, FALSE, Max({largest, size}), free + size)
<1>1. Last(list) \in Free(h)
  BY LastIsFree DEF SweptFree
<1>2. size \in Nat /\ largest \in Nat /\ free \in Nat
  BY <1>1 DEF Free, Blocks, Headers, SweptFree
<1>3. Max({largest, size}) = IF largest <= size THEN size ELSE largest
  BY <1>2, LargerOfTwo
<1>4. /\ Max({largest, size}) \in Nat /\ size <= Max({largest, size})
      /\ largest <= Max({largest, size}) /\ Max({largest, size}) \in {largest, size}
  BY <1>2, <1>3
<1>5. \A a \in Free(h) : h[a].size \in Nat
  BY DEF Free, Blocks, Headers
<1>6. \A a \in Free(h) : h[a].size <= Max({largest, size})
  BY <1>1, <1>2, <1>4, <1>5 DEF SweptFree
<1>7. Max({largest, size}) = 0 \/ \E a \in Free(h) : h[a].size = Max({largest, size})
  BY <1>1, <1>4 DEF SweptFree
<1>8. Cardinality(FreeGrains(h)) = free + size + 0 /\ free + size \in Nat
  BY <1>2 DEF SweptFree
<1> QED
  BY <1>4, <1>6, <1>7, <1>8 DEF SweptFree

(* What the header at i says of a block, when a block begins there.        *)
LEMMA BlockAt ==
    ASSUME NEW marked, Tiled, NEW i \in DOMAIN header, NEW h, SweptHeader(marked, h, i)
    PROVE  /\ i \in Nat /\ heaplimit \in Nat /\ i \notin DOMAIN h
           /\ header[i] \in Headers /\ i + header[i].size <= heaplimit
           /\ header[i].size \in Nat \ {0}
           /\ \A b \in DOMAIN h : b \in Nat /\ b < i /\ End(h, b) <= i /\ End(h, b) \in Nat
                                  /\ h[b].size \in Nat \ {0}
           /\ \A b \in DOMAIN header : b \in Nat /\ (b >= i + 1 <=> b > i)
           /\ \A b \in DOMAIN header : b > i => i + header[i].size <= b
           /\ \A b \in DOMAIN header : b < i + 1 <=> (b < i \/ b = i)
<1>1. i \in Nat /\ heaplimit \in Nat /\ header[i] \in Headers /\ i + header[i].size <= heaplimit
  BY DEF Tiled, Blocks, End
<1>2. header[i].size \in Nat \ {0}
  BY <1>1 DEF Headers
<1>3. \A b \in DOMAIN h : b \in Nat /\ b < i /\ End(h, b) <= i /\ End(h, b) \in Nat
                          /\ h[b].size \in Nat \ {0}
  BY <1>1 DEF SweptHeader, Blocks, End, Headers
<1>4. \A b \in DOMAIN header : b \in Nat
  BY DEF Tiled, Blocks
<1>5. \A b \in DOMAIN header : b > i => i + header[i].size <= b
  BY <1>1, <1>4 DEF Tiled, Blocks, End
<1> QED
  BY <1>1, <1>2, <1>3, <1>4, <1>5

(* A block is kept or becomes a chunk: it is put behind what is swept.     *)
LEMMA BlockIsSwept ==
    ASSUME NEW marked, marked \subseteq DOMAIN header, Tiled, NEW i \in DOMAIN header,
           NEW h, SweptHeader(marked, h, i),
           NEW block \in Headers, block.size = header[i].size,
           i \in marked => block = header[i], block.alloced => i \in marked,
           NEW new, new = With(h, i, block)
    PROVE  /\ SweptHeader(marked, new, i + 1)
           /\ Adds(new, h, i, block)
<1>1. /\ i \in Nat /\ heaplimit \in Nat /\ i \notin DOMAIN h
      /\ header[i] \in Headers /\ i + header[i].size <= heaplimit
      /\ header[i].size \in Nat \ {0}
      /\ \A b \in DOMAIN h : b \in Nat /\ b < i /\ End(h, b) <= i /\ End(h, b) \in Nat
      /\ \A b \in DOMAIN header : b \in Nat /\ (b >= i + 1 <=> b > i)
      /\ \A b \in DOMAIN header : b > i => i + header[i].size <= b
      /\ \A b \in DOMAIN header : b < i + 1 <=> (b < i \/ b = i)
  BY BlockAt
<1>a. Blocks(new, heaplimit) /\ Adds(new, h, i, block)
  <2>1. RoomFor(h, heaplimit, i, block)
    BY <1>1 DEF SweptHeader, RoomFor
  <2> QED
    BY <1>1, <2>1, BlockIsAdded
<1>2. /\ Blocks(new, heaplimit) /\ DOMAIN new = DOMAIN h \cup {i}
      /\ new[i] = block /\ \A b \in DOMAIN h : new[b] = h[b]
  BY <1>a DEF Adds
<1>3. /\ \A b \in DOMAIN h : End(new, b) = End(h, b)
      /\ End(new, i) = i + header[i].size /\ End(new, i) = End(header, i)
  BY <1>2 DEF End
<1>4. \A a \in DOMAIN new : a < i + 1 /\ a \in DOMAIN header
  BY <1>1, <1>2 DEF SweptHeader
<1>5. ASSUME NEW a \in DOMAIN new, NEW b \in DOMAIN header, b >= i + 1 PROVE End(new, a) <= b
  <2>1. b > i /\ b \in Nat
    BY <1>1, <1>5
  <2>2. CASE a = i
    BY <1>1, <1>3, <2>1, <2>2
  <2>3. CASE a # i
    BY <1>1, <1>2, <1>3, <2>1, <2>3
  <2> QED
    BY <2>2, <2>3
<1>6. ASSUME NEW g \in Nat, NEW b \in DOMAIN header, b < i + 1, In(g, header, b)
      PROVE  \E a \in DOMAIN new : In(g, new, a)
  <2>1. CASE b = i
    BY <1>2, <1>3, <1>6, <2>1 DEF In
  <2>2. CASE b < i
    <3>1. PICK a \in DOMAIN h : In(g, h, a)
      BY <1>6, <2>2 DEF SweptHeader
    <3> QED
      BY <1>2, <1>3, <3>1 DEF In
  <2> QED
    BY <1>1, <1>6, <2>1, <2>2
<1>7. \A a \in DOMAIN new : new[a].alloced => a \in marked /\ new[a] = header[a]
  BY <1>2 DEF SweptHeader
<1>8. \A a \in marked : a < i + 1 => a \in DOMAIN new /\ new[a] = header[a]
  BY <1>1, <1>2 DEF SweptHeader
<1>9. SweptHeader(marked, new, i + 1)
  BY <1>2, <1>4, <1>5, <1>6, <1>7, <1>8 DEF SweptHeader
<1> QED
  BY <1>a, <1>9

(* A marked object stays.                                                  *)
LEMMA ObjectIsKept ==
    ASSUME NEW marked, marked \subseteq Objects, Tiled, NEW i \in marked,
           NEW h, SweptHeader(marked, h, i),
           NEW list, NEW largest, NEW free, SweptFree(h, list, FALSE, largest, free),
           NEW new, new = With(h, i, header[i])
    PROVE  SweptHeader(marked, new, i + 1) /\ SweptFree(new, list, FALSE, largest, free)
<1>1. marked \subseteq DOMAIN header /\ i \in DOMAIN header /\ header[i].alloced
  BY DEF Objects
<1>2. header[i] \in Headers
  BY <1>1 DEF Tiled, Blocks
<1>3. /\ SweptHeader(marked, new, i + 1)
      /\ \A b \in DOMAIN h : new[b] = h[b]
      /\ Free(new) = Free(h)
      /\ Cardinality(FreeGrains(new)) = Cardinality(FreeGrains(h))
  <2>1. SweptHeader(marked, new, i + 1) /\ Adds(new, h, i, header[i])
    BY <1>1, <1>2, BlockIsSwept
  <2> QED
    BY <1>1, <2>1 DEF Adds
<1>4. Lists(list, new)
  BY <1>3 DEF Lists, SweptFree
<1>5. Cardinality(FreeGrains(new)) = free + 0
  BY <1>3 DEF SweptFree
<1>6. \A b \in Free(new) : new[b] = h[b]
  BY <1>3 DEF Free
<1> QED
  BY <1>3, <1>4, <1>5, <1>6 DEF SweptFree

(* Another block becomes the last chunk of the list.                       *)
LEMMA ChunkIsOpened ==
    ASSUME NEW marked, marked \subseteq Objects, Tiled, NEW i \in DOMAIN header \ marked,
           NEW h, SweptHeader(marked, h, i),
           NEW list, NEW largest, NEW free, SweptFree(h, list, FALSE, largest, free),
           NEW new, new = With(h, i, Chunk(header[i].size))
    PROVE  /\ SweptHeader(marked, new, i + 1)
           /\ SweptFree(new, Append(list, i), TRUE, largest, free)
<1>1. marked \subseteq DOMAIN header
  BY DEF Objects
<1> DEFINE block == Chunk(header[i].size)
<1>2. /\ header[i].size \in Nat \ {0} /\ i \in Nat /\ i \notin DOMAIN h
      /\ \A b \in DOMAIN h : b \in Nat /\ b < i
  BY BlockAt
<1>3. block \in Headers /\ block.size = header[i].size /\ ~block.alloced
  BY <1>2 DEF Headers, Chunk
<1>4. /\ SweptHeader(marked, new, i + 1)
      /\ DOMAIN new = DOMAIN h \cup {i}
      /\ new[i] = block /\ \A b \in DOMAIN h : new[b] = h[b]
      /\ Free(new) = Free(h) \cup {i}
      /\ Cardinality(FreeGrains(new)) = Cardinality(FreeGrains(h)) + block.size
  <2> HIDE DEF block
  <2> QED
    <3>1. SweptHeader(marked, new, i + 1) /\ Adds(new, h, i, block)
      BY <1>1, <1>3, BlockIsSwept DEF block
    <3> QED
      BY <1>3, <3>1 DEF Adds
<1> DEFINE longer == Append(list, i)
<1>5. /\ list \in Seq(Free(h)) /\ Len(list) \in Nat
      /\ longer \in Seq(Free(new)) /\ Len(longer) = Len(list) + 1
      /\ longer[Len(list) + 1] = i
      /\ \A k \in 1 .. Len(list) : longer[k] = list[k] /\ list[k] \in Free(h)
  <2>1. list \in Seq(Free(h)) /\ list \in Seq(Free(new)) /\ i \in Free(new)
    BY <1>4 DEF SweptFree, Lists
  <2> QED
    BY <2>1
<1>6. Lists(longer, new)
  <2>1. ASSUME NEW k \in 1 .. Len(longer), NEW l \in 1 .. Len(longer), k < l
        PROVE  longer[k] < longer[l]
    <3>1. k \in 1 .. Len(list) /\ longer[k] = list[k] /\ list[k] \in DOMAIN h
      BY <1>5, <2>1 DEF Free
    <3>2. CASE l = Len(list) + 1
      BY <1>2, <1>5, <3>1, <3>2
    <3>3. CASE l # Len(list) + 1
      <4>1. l \in 1 .. Len(list)
        BY <1>5, <3>3
      <4> QED
        BY <1>5, <2>1, <3>1, <4>1 DEF SweptFree, Lists
    <3> QED
      BY <3>2, <3>3
  <2>2. ASSUME NEW a \in Free(new) PROVE \E k \in 1 .. Len(longer) : longer[k] = a
    <3>1. CASE a = i
      <4>1. Len(list) + 1 \in 1 .. Len(longer)
        BY <1>5
      <4> QED
        BY <1>5, <3>1, <4>1
    <3>2. CASE a \in Free(h)
      <4>1. PICK k \in 1 .. Len(list) : list[k] = a
        BY <3>2 DEF SweptFree, Lists
      <4>2. k \in 1 .. Len(longer)
        BY <1>5
      <4> QED
        BY <1>5, <4>1, <4>2
    <3> QED
      BY <1>4, <3>1, <3>2
  <2> QED
    BY <1>5, <2>1, <2>2 DEF Lists
<1>7. Last(longer) = i /\ Len(longer) > 0
  BY <1>5 DEF Last
<1>8. \A a \in DOMAIN new : a <= Last(longer)
  BY <1>2, <1>4, <1>7
<1>9. Cardinality(FreeGrains(new)) = free + new[Last(longer)].size
  BY <1>2, <1>3, <1>4, <1>7 DEF SweptFree
<1>10. \A a \in Free(new) : new[a].size <= largest \/ a = Last(longer)
  <2>1. \A a \in Free(h) : h[a].size <= largest
    BY DEF SweptFree
  <2> QED
    BY <1>4, <1>7, <2>1 DEF Free
<1>11. largest = 0 \/ \E a \in Free(new) : new[a].size = largest /\ a # Last(longer)
  <2>1. largest = 0 \/ \E a \in Free(h) : h[a].size = largest
    BY DEF SweptFree
  <2> QED
    BY <1>2, <1>4, <1>7, <2>1 DEF Free
<1>12. largest \in Nat /\ free \in Nat
  BY DEF SweptFree
<1> HIDE DEF longer, block
<1> QED
  BY <1>4, <1>6, <1>7, <1>8, <1>9, <1>10, <1>11, <1>12 DEF SweptFree, longer

(* The last of the blocks that are swept ends where the next begins.       *)
LEMMA SweptWithoutGap ==
    ASSUME NEW marked, Tiled, NEW i \in DOMAIN header, NEW h, SweptHeader(marked, h, i),
           NEW last \in DOMAIN h, \A a \in DOMAIN h : a <= last
    PROVE  End(h, last) = i
<1>1. /\ i \in Nat /\ heaplimit \in Nat /\ i + header[i].size <= heaplimit
      /\ header[i].size \in Nat \ {0}
      /\ \A b \in DOMAIN h : b \in Nat /\ b < i /\ End(h, b) <= i /\ End(h, b) \in Nat
      /\ \A b \in DOMAIN header : b \in Nat
  BY BlockAt
<1>2. i - 1 \in Nat /\ i - 1 \in 0 .. heaplimit - 1
  BY <1>1
<1>3. PICK b \in DOMAIN header : In(i - 1, header, b)
  BY <1>2 DEF Tiled, NoGap
<1>4. b < i
  BY <1>1, <1>3 DEF In
<1>5. PICK a \in DOMAIN h : In(i - 1, h, a)
  BY <1>2, <1>3, <1>4 DEF SweptHeader
<1>6. End(h, a) = i
  BY <1>1, <1>5 DEF In
<1>7. CASE a # last
  <2>1. a < last /\ last < i
    BY <1>1, <1>7
  <2>2. End(h, a) <= last
    BY <2>1 DEF SweptHeader, Blocks
  <2> QED
    BY <1>1, <1>6, <2>1, <2>2
<1> QED
  BY <1>6, <1>7

(* A block that is not marked makes the open chunk larger.                 *)
LEMMA ChunkIsMerged ==
    ASSUME NEW marked, marked \subseteq Objects, Tiled, NEW i \in DOMAIN header \ marked,
           NEW h, SweptHeader(marked, h, i),
           NEW list, NEW largest, NEW free, SweptFree(h, list, TRUE, largest, free),
           NEW new, new = With(h, Last(list), Chunk(h[Last(list)].size + header[i].size))
    PROVE  SweptHeader(marked, new, i + 1) /\ SweptFree(new, list, TRUE, largest, free)
<1>a. PICK last, more : last = Last(list) /\ more = header[i].size
  OBVIOUS
<1>b. new = With(h, last, Chunk(h[last].size + more))
  BY <1>a
<1>1. /\ i \in Nat /\ heaplimit \in Nat /\ i \notin DOMAIN h
      /\ i + more <= heaplimit /\ more \in Nat \ {0}
      /\ \A b \in DOMAIN h : b \in Nat /\ b < i /\ End(h, b) <= i /\ End(h, b) \in Nat
                             /\ h[b].size \in Nat \ {0}
      /\ \A b \in DOMAIN header : b \in Nat /\ (b >= i + 1 <=> b > i)
      /\ \A b \in DOMAIN header : b > i => i + more <= b
      /\ \A b \in DOMAIN header : b < i + 1 <=> (b < i \/ b = i)
  BY <1>a, BlockAt
<1>2. last \in Free(h) /\ last \in DOMAIN h /\ \A a \in DOMAIN h : a <= last
  BY <1>a, LastIsFree DEF SweptFree, Free
<1>3. End(h, last) = i
  BY <1>2, SweptWithoutGap
<1>4. Blocks(h, heaplimit)
  BY DEF SweptHeader
<1>5. /\ Blocks(new, heaplimit) /\ DOMAIN new = DOMAIN h
      /\ new[last] = [size |-> h[last].size + more, alloced |-> FALSE]
      /\ \A b \in DOMAIN h \ {last} : new[b] = h[b]
      /\ Free(new) = Free(h)
      /\ Cardinality(FreeGrains(new)) = Cardinality(FreeGrains(h)) + more
  BY <1>b, <1>1, <1>2, <1>3, <1>4, BlockIsMerged
<1>6. /\ \A b \in DOMAIN h \ {last} : End(new, b) = End(h, b)
      /\ End(new, last) = i + more
  <2>1. End(new, last) = last + (h[last].size + more) /\ End(h, last) = last + h[last].size
    BY <1>5 DEF End
  <2>2. last \in Nat /\ h[last].size \in Nat /\ more \in Nat
    BY <1>1, <1>2
  <2> QED
    BY <1>3, <1>5, <2>1, <2>2 DEF End
<1>7. \A a \in DOMAIN new : a < i + 1 /\ a \in DOMAIN header
  BY <1>1, <1>5 DEF SweptHeader
<1>8. ASSUME NEW a \in DOMAIN new, NEW b \in DOMAIN header, b >= i + 1 PROVE End(new, a) <= b
  <2>1. b > i /\ b \in Nat
    BY <1>1, <1>8
  <2>2. CASE a = last
    BY <1>1, <1>6, <2>1, <2>2
  <2>3. CASE a # last
    BY <1>1, <1>5, <1>6, <2>1, <2>3
  <2> QED
    BY <2>2, <2>3
<1>9. ASSUME NEW g \in Nat, NEW b \in DOMAIN header, b < i + 1, In(g, header, b)
      PROVE  \E a \in DOMAIN new : In(g, new, a)
  <2>1. CASE b = i
    <3>1. i <= g /\ g < i + more
      BY <1>a, <1>9, <2>1 DEF In, End
    <3>2. last <= g
      BY <1>1, <1>2, <3>1
    <3> QED
      BY <1>2, <1>5, <1>6, <3>1, <3>2 DEF In
  <2>2. CASE b < i
    <3>1. PICK a \in DOMAIN h : In(g, h, a)
      BY <1>9, <2>2 DEF SweptHeader
    <3>2. g < End(new, a)
      BY <1>1, <1>3, <1>6, <3>1 DEF In
    <3> QED
      BY <1>5, <3>1, <3>2 DEF In
  <2> QED
    BY <1>1, <1>9, <2>1, <2>2
<1>10. \A a \in DOMAIN new : new[a].alloced => a \in marked /\ new[a] = header[a]
  BY <1>5 DEF SweptHeader
<1>11. \A a \in marked : a < i + 1 => a \in DOMAIN new /\ new[a] = header[a]
  <2>1. \A a \in marked : a \in DOMAIN header /\ a # i /\ header[a].alloced
    BY DEF Objects
  <2>2. ~h[last].alloced
    BY <1>2 DEF Free
  <2> QED
    BY <1>1, <1>5, <2>1, <2>2 DEF SweptHeader
<1>12. SweptHeader(marked, new, i + 1)
  BY <1>5, <1>7, <1>8, <1>9, <1>10, <1>11 DEF SweptHeader
<1>13. Lists(list, new)
  <2>1. \A a \in Free(new) : a \in Free(h)
    BY <1>5
  <2> QED
    BY <1>5 DEF Lists, SweptFree
<1>14. /\ Cardinality(FreeGrains(new)) = free + new[last].size
       /\ largest \in Nat /\ free \in Nat
  <2>1. Cardinality(FreeGrains(h)) = free + h[last].size /\ largest \in Nat /\ free \in Nat
    BY <1>a DEF SweptFree
  <2>2. h[last].size \in Nat /\ more \in Nat
    BY <1>1, <1>2
  <2> QED
    BY <1>5, <2>1, <2>2
<1>15. \A a \in Free(new) : new[a].size <= largest \/ a = last
  BY <1>a, <1>5 DEF SweptFree, Free
<1>16. largest = 0 \/ \E a \in Free(new) : new[a].size = largest /\ a # last
  <2>1. largest = 0 \/ \E a \in Free(h) : h[a].size = largest /\ a # last
    BY <1>a DEF SweptFree
  <2> QED
    BY <1>5, <2>1 DEF Free
<1>17. Len(list) > 0 /\ \A a \in DOMAIN new : a <= last
  BY <1>2, <1>5 DEF SweptFree
<1> QED
  BY <1>a, <1>12, <1>13, <1>14, <1>15, <1>16, <1>17 DEF SweptFree

-----------------------------------------------------------------------------
OpenSweep(h, list, largest, free) == Sweep(h, list, TRUE, largest, free)
ClosedSweep(h, list, largest, free) == Sweep(h, list, FALSE, largest, free)

(* The sweep up to the address i: one block after the other.               *)
OpenTo(marked, s, i) ==
    \E h, list, largest, free :
        /\ s = OpenSweep(h, list, largest, free)
        /\ SweptHeader(marked, h, i) /\ SweptFree(h, list, TRUE, largest, free)
ClosedTo(marked, s, i) ==
    \E h, list, largest, free :
        /\ s = ClosedSweep(h, list, largest, free)
        /\ SweptHeader(marked, h, i) /\ SweptFree(h, list, FALSE, largest, free)
SweptTo(marked, s, i) == OpenTo(marked, s, i) \/ ClosedTo(marked, s, i)

(* One step of the sweep, written out.                                     *)
LEMMA OpenFields ==
    ASSUME NEW h, NEW list, NEW largest, NEW free,
           NEW s, s = OpenSweep(h, list, largest, free)
    PROVE  /\ s.header = h /\ s.list = list /\ s.largest = largest /\ s.free = free
           /\ s.open
BY DEF OpenSweep, Sweep

LEMMA ClosedFields ==
    ASSUME NEW h, NEW list, NEW largest, NEW free,
           NEW s, s = ClosedSweep(h, list, largest, free)
    PROVE  /\ s.header = h /\ s.list = list /\ s.largest = largest /\ s.free = free
           /\ ~s.open
BY DEF ClosedSweep, Sweep

LEMMA ClosedIsClosed ==
    ASSUME NEW h, NEW list, NEW largest, NEW free
    PROVE  Close(ClosedSweep(h, list, largest, free)) = ClosedSweep(h, list, largest, free)
<1>1. PICK s : s = ClosedSweep(h, list, largest, free)
  OBVIOUS
<1>2. ~s.open
  BY <1>1, ClosedFields
<1> QED
  BY <1>1, <1>2 DEF Close

LEMMA OpenIsClosed ==
    ASSUME NEW h, NEW list, NEW largest, NEW free
    PROVE  Close(OpenSweep(h, list, largest, free))
              = ClosedSweep(h, list, Max({largest, h[Last(list)].size}),
                            free + h[Last(list)].size)
<1>1. PICK s : s = OpenSweep(h, list, largest, free)
  OBVIOUS
<1>2. s.header = h /\ s.list = list /\ s.largest = largest /\ s.free = free /\ s.open
  BY <1>1, OpenFields
<1> QED
  BY <1>1, <1>2 DEF Close, ClosedSweep

LEMMA UnmarkedIsOpened ==
    ASSUME NEW h, NEW list, NEW largest, NEW free, NEW marked, NEW i, i \notin marked
    PROVE  SweepBlock(marked, ClosedSweep(h, list, largest, free), i)
              = OpenSweep(With(h, i, Chunk(header[i].size)), Append(list, i), largest, free)
<1>1. PICK s : s = ClosedSweep(h, list, largest, free)
  OBVIOUS
<1>2. s.header = h /\ s.list = list /\ s.largest = largest /\ s.free = free /\ ~s.open
  BY <1>1, ClosedFields
<1> QED
  BY <1>1, <1>2 DEF SweepBlock, Opened, OpenSweep

LEMMA UnmarkedIsMerged ==
    ASSUME NEW h, NEW list, NEW largest, NEW free, NEW marked, NEW i, i \notin marked
    PROVE  SweepBlock(marked, OpenSweep(h, list, largest, free), i)
              = OpenSweep(With(h, Last(list), Chunk(h[Last(list)].size + header[i].size)),
                          list, largest, free)
<1>1. PICK s : s = OpenSweep(h, list, largest, free)
  OBVIOUS
<1>2. s.header = h /\ s.list = list /\ s.largest = largest /\ s.free = free /\ s.open
  BY <1>1, OpenFields
<1> QED
  BY <1>1, <1>2 DEF SweepBlock, Merged, OpenSweep

LEMMA MarkedAfterClose ==
    ASSUME NEW s, NEW h, NEW list, NEW largest, NEW free, NEW marked, NEW i \in marked,
           Close(s) = ClosedSweep(h, list, largest, free)
    PROVE  SweepBlock(marked, s, i) = ClosedSweep(With(h, i, header[i]), list, largest, free)
<1>1. PICK c : c = Close(s)
  OBVIOUS
<1>2. c.header = h /\ c.list = list /\ c.largest = largest /\ c.free = free
  BY <1>1, OpenFields, ClosedFields
<1>3. SweepBlock(marked, s, i) = Kept(c, i)
  BY <1>1 DEF SweepBlock
<1> QED
  BY <1>2, <1>3 DEF Kept, ClosedSweep

LEMMA CloseCloses ==
    ASSUME Tiled, NEW marked, NEW i, NEW s, SweptTo(marked, s, i)
    PROVE  ClosedTo(marked, Close(s), i)
<1>1. CASE ClosedTo(marked, s, i)
  <2>1. PICK h, list, largest, free :
           /\ s = ClosedSweep(h, list, largest, free)
           /\ SweptHeader(marked, h, i) /\ SweptFree(h, list, FALSE, largest, free)
    BY <1>1 DEF ClosedTo
  <2>2. Close(s) = ClosedSweep(h, list, largest, free)
    BY <2>1, ClosedIsClosed
  <2> QED
    BY <2>1, <2>2 DEF ClosedTo
<1>2. CASE OpenTo(marked, s, i)
  <2>1. PICK h, list, largest, free :
           /\ s = OpenSweep(h, list, largest, free)
           /\ SweptHeader(marked, h, i) /\ SweptFree(h, list, TRUE, largest, free)
    BY <1>2 DEF OpenTo
  <2>2. PICK size : size = h[Last(list)].size
    OBVIOUS
  <2>3. Close(s) = ClosedSweep(h, list, Max({largest, size}), free + size)
    BY <2>1, <2>2, OpenIsClosed
  <2>4. SweptFree(h, list, FALSE, Max({largest, size}), free + size)
    <3>1. Blocks(h, heaplimit)
      BY <2>1 DEF SweptHeader
    <3> QED
      BY <2>1, <2>2, <3>1, ChunkIsClosed
  <2> QED
    BY <2>1, <2>3, <2>4 DEF ClosedTo
<1> QED
  BY <1>1, <1>2 DEF SweptTo

LEMMA BlockAfterBlock ==
    ASSUME Tiled, NEW marked, marked \subseteq Objects, NEW i \in DOMAIN header,
           NEW s, SweptTo(marked, s, i)
    PROVE  SweptTo(marked, SweepBlock(marked, s, i), i + 1)
<1>1. CASE i \in marked
  <2>1. ClosedTo(marked, Close(s), i)
    BY CloseCloses
  <2>2. PICK h, list, largest, free :
           /\ Close(s) = ClosedSweep(h, list, largest, free)
           /\ SweptHeader(marked, h, i) /\ SweptFree(h, list, FALSE, largest, free)
    BY <2>1 DEF ClosedTo
  <2>3. PICK new : new = With(h, i, header[i])
    OBVIOUS
  <2>4. SweptHeader(marked, new, i + 1) /\ SweptFree(new, list, FALSE, largest, free)
    BY <1>1, <2>2, <2>3, ObjectIsKept
  <2>5. SweepBlock(marked, s, i) = ClosedSweep(new, list, largest, free)
    BY <1>1, <2>2, <2>3, MarkedAfterClose
  <2> QED
    BY <2>4, <2>5 DEF ClosedTo, SweptTo
<1>2. CASE i \notin marked /\ OpenTo(marked, s, i)
  <2>1. PICK h, list, largest, free :
           /\ s = OpenSweep(h, list, largest, free)
           /\ SweptHeader(marked, h, i) /\ SweptFree(h, list, TRUE, largest, free)
    BY <1>2 DEF OpenTo
  <2>2. PICK last, more : last = Last(list) /\ more = header[i].size
    OBVIOUS
  <2>3. PICK new : new = With(h, last, Chunk(h[last].size + more))
    OBVIOUS
  <2>a. new = With(h, Last(list), Chunk(h[Last(list)].size + header[i].size))
    BY <2>2, <2>3
  <2>b. SweepBlock(marked, s, i) = SweepBlock(marked, OpenSweep(h, list, largest, free), i)
    BY <2>1
  <2>4. SweepBlock(marked, s, i) = OpenSweep(new, list, largest, free)
    BY <1>2, <2>a, <2>b, UnmarkedIsMerged
  <2>5. SweptHeader(marked, new, i + 1) /\ SweptFree(new, list, TRUE, largest, free)
    <3>1. /\ SweptHeader(marked, h, i) /\ SweptFree(h, list, TRUE, largest, free)
          /\ i \in DOMAIN header \ marked
      BY <1>2, <2>1
    <3> QED
      BY <2>a, <3>1, ChunkIsMerged
  <2> QED
    BY <2>4, <2>5 DEF OpenTo, SweptTo
<1>3. CASE i \notin marked /\ ClosedTo(marked, s, i)
  <2>1. PICK h, list, largest, free :
           /\ s = ClosedSweep(h, list, largest, free)
           /\ SweptHeader(marked, h, i) /\ SweptFree(h, list, FALSE, largest, free)
    BY <1>3 DEF ClosedTo
  <2>2. PICK new : new = With(h, i, Chunk(header[i].size))
    OBVIOUS
  <2>3. PICK longer : longer = Append(list, i)
    OBVIOUS
  <2>4. SweepBlock(marked, s, i) = OpenSweep(new, longer, largest, free)
    BY <1>3, <2>1, <2>2, <2>3, UnmarkedIsOpened
  <2>5. SweptHeader(marked, new, i + 1) /\ SweptFree(new, longer, TRUE, largest, free)
    BY <1>3, <2>1, <2>2, <2>3, ChunkIsOpened
  <2> QED
    BY <2>4, <2>5 DEF OpenTo, SweptTo
<1> QED
  BY <1>1, <1>2, <1>3 DEF SweptTo

LEMMA NothingSwept ==
    ASSUME Tiled, NEW marked, marked \subseteq Objects
    PROVE  SweptTo(marked, Swept0, 0)
<1>1. \A a \in DOMAIN header : a \in Nat
  BY DEF Tiled, Blocks
<1> DEFINE h == <<>>
<1>2. DOMAIN h = {} /\ h = [a \in {} |-> 0]
  OBVIOUS
<1>3. h \in [DOMAIN h -> Headers]
  BY <1>2
<1>4. Free(h) = {} /\ FreeGrains(h) = {}
  BY <1>2 DEF Free, FreeGrains
<1> HIDE DEF h
<1>5. SweptHeader(marked, h, 0)
  BY <1>1, <1>2, <1>3 DEF SweptHeader, Blocks, Objects
<1>6. Cardinality(FreeGrains(h)) = 0
  BY <1>4, FS_EmptySet
<1>7. Lists(<<>>, h)
  BY <1>4 DEF Lists
<1>8. SweptFree(h, <<>>, FALSE, 0, 0)
  BY <1>4, <1>6, <1>7 DEF SweptFree
<1>9. Swept0 = ClosedSweep(h, <<>>, 0, 0)
  BY DEF Swept0, ClosedSweep, h
<1> QED
  BY <1>5, <1>8, <1>9 DEF SweptTo, ClosedTo

(* The function of SweptBlocks.                                            *)
Builds(f, marked, limit) ==
    f = [i \in 0 .. limit |->
            IF i = 0 THEN Swept0
            ELSE IF i - 1 \in DOMAIN header THEN SweepBlock(marked, f[i - 1], i - 1)
            ELSE f[i - 1]]

LEMMA BuildsIsDefined ==
    ASSUME NEW marked, NEW limit \in Nat
    PROVE  \E f : Builds(f, marked, limit)
<1> DEFINE Step(f, i) ==
              IF i = 0 THEN Swept0
              ELSE IF i - 1 \in DOMAIN header THEN SweepBlock(marked, f[i - 1], i - 1)
              ELSE f[i - 1]
           defined == {k \in Nat : \E f : f = [i \in 0 .. k |-> Step(f, i)]}
<1>1. 0 \in defined
  <2>1. PICK f : f = [i \in 0 .. 0 |-> Swept0]
    OBVIOUS
  <2>2. f = [i \in 0 .. 0 |-> Step(f, i)]
    BY <2>1
  <2> QED
    BY <2>2
<1>2. ASSUME NEW k \in 1 .. limit, k - 1 \in defined PROVE k \in defined
  <2>1. PICK f : f = [i \in 0 .. (k - 1) |-> Step(f, i)]
    BY <1>2
  <2>2. PICK g : g = [i \in 0 .. k |-> IF i = k THEN Step(f, k) ELSE f[i]]
    OBVIOUS
  <2>3. \A i \in 0 .. (k - 1) : g[i] = f[i] /\ f[i] = Step(f, i)
    BY <2>1, <2>2, k \notin 0 .. (k - 1)
  <2>4. ASSUME NEW i \in 0 .. k PROVE g[i] = Step(g, i)
    <3>1. i = 0 \/ g[i - 1] = f[i - 1]
      <4>1. i = 0 \/ i - 1 \in 0 .. (k - 1)
        OBVIOUS
      <4> QED
        BY <2>3, <4>1
    <3>2. Step(g, i) = Step(f, i)
      BY <3>1
    <3>3. g[i] = Step(f, i)
      <4>1. CASE i = k
        BY <2>2, <4>1
      <4>2. CASE i \in 0 .. (k - 1)
        BY <2>3, <4>2
      <4> QED
        BY <4>1, <4>2
    <3> QED
      BY <3>2, <3>3
  <2> HIDE DEF Step
  <2>5. g = [i \in 0 .. k |-> Step(g, i)]
    BY <2>2, <2>4
  <2>6. k \in Nat
    OBVIOUS
  <2> QED
    BY <2>5, <2>6
<1>3. limit \in defined
  <2> HIDE DEF defined
  <2>1. \A i \in 0 .. limit : i \in defined
    BY <1>1, <1>2, UpTo
  <2> QED
    BY <2>1
<1>4. PICK f : f = [i \in 0 .. limit |-> Step(f, i)]
  BY <1>3
<1>5. Builds(f, marked, limit)
  BY <1>4 DEF Builds
<1> QED
  BY <1>5

(* What a sweep leaves is a heap, with all of its free chunks in the list. *)
IsSwept(marked, s) ==
    /\ Blocks(s.header, heaplimit) /\ NoGap(s.header, heaplimit)
    /\ Lists(s.list, s.header)
    /\ s.free \in Nat /\ s.free = Cardinality(FreeGrains(s.header))
    /\ s.largest \in Nat /\ \A a \in Free(s.header) : s.header[a].size <= s.largest
    /\ s.largest = 0 \/ \E a \in Free(s.header) : s.header[a].size = s.largest
    /\ \A a \in marked : a \in DOMAIN s.header /\ s.header[a] = header[a]

LEMMA SweptIsTiled ==
    ASSUME Tiled, NEW marked, marked \subseteq Objects
    PROVE  IsSwept(marked, Swept(marked))
<1>1. PICK f : f = CHOOSE g : Builds(g, marked, heaplimit)
  OBVIOUS
<1>2. Builds(f, marked, heaplimit)
  BY <1>1, BuildsIsDefined DEF Tiled
<1>3. SweptBlocks(marked) = f[heaplimit]
  BY <1>1 DEF SweptBlocks, Builds
<1> DEFINE good == {i \in 0 .. heaplimit : SweptTo(marked, f[i], i)}
<1>4. heaplimit \in Nat
  BY DEF Tiled
<1>5. 0 \in good
  <2>1. f[0] = Swept0
    BY <1>2, <1>4 DEF Builds
  <2> QED
    BY <1>4, <2>1, NothingSwept
<1>6. ASSUME NEW i \in 1 .. heaplimit, i - 1 \in good PROVE i \in good
  <2>1. PICK j, s : j = i - 1 /\ s = f[j]
    OBVIOUS
  <2>2. SweptTo(marked, s, j) /\ j \in Nat /\ i = j + 1 /\ i \in 0 .. heaplimit
    BY <1>4, <1>6, <2>1
  <2>3. f[i] = IF j \in DOMAIN header THEN SweepBlock(marked, s, j) ELSE s
    BY <1>2, <1>4, <2>1 DEF Builds
  <2>4. CASE j \in DOMAIN header
    BY <2>2, <2>3, <2>4, BlockAfterBlock
  <2>5. CASE j \notin DOMAIN header
    <3>1. \A h : SweptHeader(marked, h, j) => SweptHeader(marked, h, j + 1)
      BY <2>2, <2>5, NoBlock DEF Objects
    <3>2. SweptTo(marked, s, i)
      BY <2>2, <3>1 DEF SweptTo, OpenTo, ClosedTo
    <3> QED
      BY <2>2, <2>3, <2>5, <3>2
  <2> QED
    BY <2>4, <2>5
<1>7. SweptTo(marked, f[heaplimit], heaplimit)
  <2> HIDE DEF good
  <2>1. heaplimit \in good
    BY <1>4, <1>5, <1>6, UpTo
  <2> QED
    BY <2>1 DEF good
<1>8. PICK s : s = Swept(marked)
  OBVIOUS
<1>9. ClosedTo(marked, s, heaplimit)
  BY <1>3, <1>7, <1>8, CloseCloses DEF Swept
<1>a. PICK h, list, largest, free :
         /\ s = ClosedSweep(h, list, largest, free)
         /\ SweptHeader(marked, h, heaplimit) /\ SweptFree(h, list, FALSE, largest, free)
  BY <1>9 DEF ClosedTo
<1>b. s.header = h /\ s.list = list /\ s.largest = largest /\ s.free = free
  BY <1>a, OpenFields, ClosedFields
<1>10. SweptHeader(marked, s.header, heaplimit)
  BY <1>a, <1>b
<1>11. NoGap(s.header, heaplimit)
  <2>1. SUFFICES ASSUME NEW g \in 0 .. heaplimit - 1 PROVE \E a \in DOMAIN s.header : In(g, s.header, a)
    BY DEF NoGap
  <2>2. g \in Nat
    BY <1>4
  <2>3. PICK b \in DOMAIN header : In(g, header, b)
    BY DEF Tiled, NoGap
  <2>4. b < heaplimit
    <3>1. b \in Nat /\ b <= g
      BY <2>3 DEF Tiled, Blocks, In
    <3> QED
      BY <1>4, <3>1
  <2> QED
    BY <1>10, <2>2, <2>3, <2>4 DEF SweptHeader
<1>12. \A a \in marked : a \in DOMAIN s.header /\ s.header[a] = header[a]
  <2>1. ASSUME NEW a \in marked PROVE a < heaplimit
    <3>1. a \in DOMAIN header
      BY DEF Objects
    <3>2. a \in Nat /\ header[a].size \in Nat \ {0} /\ a + header[a].size <= heaplimit
      BY <3>1 DEF Tiled, Blocks, End, Headers
    <3> QED
      BY <1>4, <3>2
  <2> QED
    BY <1>10, <2>1 DEF SweptHeader
<1>13. /\ Lists(s.list, s.header)
       /\ s.free \in Nat /\ s.free = Cardinality(FreeGrains(s.header))
       /\ s.largest \in Nat /\ \A a \in Free(s.header) : s.header[a].size <= s.largest
       /\ s.largest = 0 \/ \E a \in Free(s.header) : s.header[a].size = s.largest
  <2>1. /\ Lists(list, h)
        /\ free \in Nat /\ free + 0 = Cardinality(FreeGrains(h))
        /\ largest \in Nat /\ \A a \in Free(h) : h[a].size <= largest
        /\ largest = 0 \/ \E a \in Free(h) : h[a].size = largest
    BY <1>a DEF SweptFree
  <2> QED
    BY <1>b, <2>1
<1> QED
  BY <1>8, <1>10, <1>11, <1>12, <1>13 DEF IsSwept, SweptHeader

-----------------------------------------------------------------------------
(* gcMalloc takes the first n grains of a chunk.                           *)
Takes(new, h, a, size, block) ==
    /\ new[a] = block /\ block.alloced /\ block.size = size /\ block \in Headers
    /\ \A b \in DOMAIN h \ {a} : new[b] = h[b]
    /\ new = [b \in DOMAIN new |-> new[b]]

TakesAll(new, h, limit, a, size, block) ==
    /\ Takes(new, h, a, size, block)
    /\ limit \in Nat /\ Blocks(h, limit) /\ NoGap(h, limit) /\ a \in Free(h)
    /\ size = h[a].size /\ DOMAIN new = DOMAIN h

LEMMA ChunkIsTaken ==
    ASSUME NEW limit, NEW h, NEW a, NEW size, NEW block,
           NEW new, TakesAll(new, h, limit, a, size, block)
    PROVE  /\ Blocks(new, limit) /\ NoGap(new, limit)
           /\ Free(new) = Free(h) \ {a}
           /\ Cardinality(FreeGrains(h)) = Cardinality(FreeGrains(new)) + size
<1>0. /\ Takes(new, h, a, size, block)
      /\ limit \in Nat /\ Blocks(h, limit) /\ NoGap(h, limit) /\ a \in Free(h)
      /\ size = h[a].size /\ DOMAIN new = DOMAIN h
  BY DEF TakesAll
<1> USE <1>0
<1>1. /\ a \in DOMAIN h /\ \A b \in DOMAIN h : b \in Nat /\ h[b].size \in Nat \ {0}
                                  /\ End(h, b) = b + h[b].size /\ End(h, b) \in Nat
  BY DEF Free, Blocks, Headers, End
<1>2. /\ new[a] = block /\ block.alloced /\ block.size = h[a].size /\ block \in Headers
      /\ \A b \in DOMAIN h \ {a} : new[b] = h[b]
      /\ new = [b \in DOMAIN new |-> new[b]]
  BY DEF Takes
<1>3. \A b \in DOMAIN h : End(new, b) = End(h, b)
  BY <1>2 DEF End
<1>4. Blocks(new, limit)
  <2>1. \A b \in DOMAIN new : new[b] \in Headers
    BY <1>2 DEF Blocks
  <2>2. new \in [DOMAIN new -> Headers]
    BY <1>2, <2>1
  <2> QED
    BY <1>3, <2>2 DEF Blocks
<1>5. NoGap(new, limit)
  BY <1>3 DEF NoGap, In
<1>6. Free(new) = Free(h) \ {a}
  BY <1>2 DEF Free
<1> DEFINE grains == a .. a + h[a].size - 1
<1>7. FreeGrains(h) = FreeGrains(new) \cup grains
  <2>1. grains = a .. End(h, a) - 1
    BY <1>1
  <2>2. \A b \in Free(new) : End(new, b) = End(h, b)
    BY <1>3 DEF Free
  <2>3. FreeGrains(new) = UNION {b .. End(h, b) - 1 : b \in Free(new)}
    BY <2>2 DEF FreeGrains
  <2>4. Free(h) = Free(new) \cup {a}
    BY <1>6
  <2> HIDE DEF grains
  <2> QED
    BY <2>1, <2>3, <2>4 DEF FreeGrains
<1>8. FreeGrains(new) \cap grains = {}
  <2>1. SUFFICES ASSUME NEW b \in Free(new), NEW g \in b .. End(new, b) - 1, g \in grains
                 PROVE  FALSE
    BY DEF FreeGrains
  <2>2. b \in DOMAIN h /\ b # a /\ End(new, b) = End(h, b)
    BY <1>3, <1>6 DEF Free
  <2>3. (a < b => End(h, a) <= b) /\ (b < a => End(h, b) <= a)
    BY <1>1, <2>2 DEF Blocks
  <2>4. b \in Nat /\ a \in Nat /\ End(h, b) \in Nat /\ End(h, a) = a + h[a].size
        /\ h[a].size \in Nat
    BY <1>1, <2>2
  <2> QED
    BY <2>1, <2>2, <2>3, <2>4
<1>9. IsFiniteSet(grains) /\ Cardinality(grains) = h[a].size
  BY <1>1, IntervalsAreFinite
<1>10. IsFiniteSet(FreeGrains(new))
  BY <1>4, FreeGrainsAreFinite
<1> HIDE DEF grains
<1>11. Cardinality(FreeGrains(h)) = Cardinality(FreeGrains(new)) + Cardinality(grains)
  BY <1>7, <1>8, <1>9, <1>10, DisjointSetsAdd
<1> QED
  BY <1>4, <1>5, <1>6, <1>9, <1>11

LEMMA ChunkIsSplit ==
    ASSUME NEW limit \in Nat, NEW h, Blocks(h, limit), NoGap(h, limit), NEW a \in Free(h),
           NEW size \in Nat \ {0}, size < h[a].size,
           NEW block, NEW new, Takes(new, h, a, size, block),
           NEW rest, rest = a + size,
           DOMAIN new = DOMAIN h \cup {rest}, new[rest] = Chunk(h[a].size - size)
    PROVE  /\ rest \notin DOMAIN h
           /\ Blocks(new, limit) /\ NoGap(new, limit)
           /\ Free(new) = (Free(h) \ {a}) \cup {rest}
           /\ Cardinality(FreeGrains(h)) = Cardinality(FreeGrains(new)) + size
<1> DEFINE len == h[a].size
<1>1. /\ a \in DOMAIN h /\ \A b \in DOMAIN h : b \in Nat /\ h[b].size \in Nat \ {0}
                                  /\ End(h, b) = b + h[b].size /\ End(h, b) \in Nat
                                  /\ End(h, b) <= limit
      /\ ~h[a].alloced
  BY DEF Free, Blocks, Headers, End
<1>2. /\ new[a] = block /\ block.alloced /\ block.size = size /\ block \in Headers
      /\ \A b \in DOMAIN h \ {a} : new[b] = h[b]
      /\ new = [b \in DOMAIN new |-> new[b]]
  BY DEF Takes
<1>3. /\ len \in Nat /\ rest \in Nat /\ len - size \in Nat \ {0} /\ a < rest
      /\ rest < End(h, a) /\ End(h, a) = a + len /\ rest + (len - size) = End(h, a)
      /\ a \in Nat /\ limit \in Nat
  BY <1>1
<1>4. \A b \in DOMAIN h : (a < b => End(h, a) <= b) /\ (b < a => End(h, b) <= a)
  BY <1>1 DEF Blocks
<1>5. rest \notin DOMAIN h
  BY <1>1, <1>3, <1>4
<1>6. /\ new[rest] \in Headers /\ new[rest].size = len - size /\ ~new[rest].alloced
  BY <1>3 DEF Chunk, Headers
<1>7. /\ \A b \in DOMAIN h \ {a} : End(new, b) = End(h, b)
      /\ End(new, a) = rest /\ End(new, rest) = End(h, a)
  BY <1>2, <1>3, <1>6 DEF End
<1>8. Blocks(new, limit)
  <2>1. \A b \in DOMAIN new : new[b] \in Headers
    BY <1>2, <1>6 DEF Blocks
  <2>2. new \in [DOMAIN new -> Headers] /\ DOMAIN new \subseteq Nat
    BY <1>1, <1>2, <1>3, <2>1
  <2>3. \A b \in DOMAIN new : End(new, b) <= limit
    BY <1>1, <1>3, <1>7
  <2>4. ASSUME NEW b \in DOMAIN new, NEW c \in DOMAIN new, b < c PROVE End(new, b) <= c
    <3>1. CASE b = a
      <4>1. CASE c = rest
        BY <1>3, <1>7, <3>1, <4>1
      <4>2. CASE c # rest
        BY <1>1, <1>3, <1>4, <1>7, <2>4, <3>1, <4>2
      <4> QED
        BY <4>1, <4>2
    <3>2. CASE b = rest
      <4>1. c \in DOMAIN h /\ a < c
        BY <1>1, <1>3, <2>4, <3>2
      <4> QED
        BY <1>4, <1>7, <3>2, <4>1
    <3>3. CASE b # a /\ b # rest
      <4>1. CASE c = rest
        <5>1. b < a
          BY <1>1, <1>3, <1>4, <2>4, <3>3, <4>1
        <5> QED
          BY <1>1, <1>3, <1>4, <1>7, <3>3, <4>1, <5>1
      <4>2. CASE c # rest
        BY <1>7, <2>4, <3>3, <4>2 DEF Blocks
      <4> QED
        BY <4>1, <4>2
    <3> QED
      BY <3>1, <3>2, <3>3
  <2> QED
    BY <2>2, <2>3, <2>4 DEF Blocks
<1>9. NoGap(new, limit)
  <2>1. SUFFICES ASSUME NEW g \in 0 .. limit - 1 PROVE \E b \in DOMAIN new : In(g, new, b)
    BY DEF NoGap
  <2>2. PICK b \in DOMAIN h : In(g, h, b)
    BY DEF NoGap
  <2>3. CASE b # a
    BY <1>7, <2>2, <2>3 DEF In
  <2>4. CASE b = a
    <3>1. CASE g < rest
      BY <1>7, <2>2, <2>4, <3>1 DEF In
    <3>2. CASE ~(g < rest)
      <4>1. rest <= g /\ g < End(new, rest)
        BY <1>3, <1>7, <2>2, <2>4, <3>2 DEF In
      <4> QED
        BY <4>1 DEF In
    <3> QED
      BY <3>1, <3>2
  <2> QED
    BY <2>3, <2>4
<1>10. Free(new) = (Free(h) \ {a}) \cup {rest}
  BY <1>2, <1>5, <1>6 DEF Free
<1> DEFINE grains == a .. a + size - 1
<1>11. FreeGrains(h) = FreeGrains(new) \cup grains
  <2> DEFINE others == UNION {b .. End(h, b) - 1 : b \in Free(h) \ {a}}
  <2>1. a .. End(h, a) - 1 = grains \cup (rest .. End(new, rest) - 1)
    BY <1>3, <1>7
  <2>2. FreeGrains(h) = others \cup (a .. End(h, a) - 1)
    BY DEF FreeGrains
  <2>3. FreeGrains(new) = others \cup (rest .. End(new, rest) - 1)
    <3>1. \A b \in Free(h) \ {a} : End(new, b) = End(h, b)
      BY <1>7 DEF Free
    <3>2. others = UNION {b .. End(new, b) - 1 : b \in Free(h) \ {a}}
      BY <3>1
    <3> HIDE DEF others
    <3> QED
      BY <1>10, <3>2 DEF FreeGrains
  <2> HIDE DEF others, grains
  <2> QED
    BY <2>1, <2>2, <2>3
<1>12. FreeGrains(new) \cap grains = {}
  <2>1. SUFFICES ASSUME NEW b \in Free(new), NEW g \in b .. End(new, b) - 1, g \in grains
                 PROVE  FALSE
    BY DEF FreeGrains
  <2>2. g \in Nat /\ a <= g /\ g < rest
    BY <1>3, <2>1
  <2>3. CASE b = rest
    BY <1>3, <2>1, <2>2, <2>3
  <2>4. CASE b # rest
    <3>1. b \in DOMAIN h /\ b # a /\ End(new, b) = End(h, b)
      BY <1>7, <1>10, <2>4 DEF Free
    <3>2. (a < b => End(h, a) <= b) /\ (b < a => End(h, b) <= a) /\ b \in Nat /\ End(h, b) \in Nat
      BY <1>1, <1>4, <3>1
    <3> QED
      BY <1>3, <2>1, <2>2, <3>1, <3>2
  <2> QED
    BY <2>3, <2>4
<1>13. IsFiniteSet(grains) /\ Cardinality(grains) = size
  BY <1>3, IntervalsAreFinite
<1>14. IsFiniteSet(FreeGrains(new))
  BY <1>8, FreeGrainsAreFinite
<1> HIDE DEF grains
<1>15. Cardinality(FreeGrains(h)) = Cardinality(FreeGrains(new)) + Cardinality(grains)
  BY <1>11, <1>12, <1>13, <1>14, DisjointSetsAdd
<1> QED
  BY <1>5, <1>8, <1>9, <1>10, <1>13, <1>15

-----------------------------------------------------------------------------
(* The list of the free chunks.                                            *)
LEMMA Without ==
    ASSUME NEW S, NEW list \in Seq(S), NEW i \in 1 .. Len(list),
           NEW less, less = RemoveAt(list, i)
    PROVE  /\ less \in Seq(S) /\ Len(less) = Len(list) - 1 /\ Len(list) \in Nat \ {0}
           /\ \A k \in 1 .. Len(less) : less[k] = IF k < i THEN list[k] ELSE list[k + 1]
<1>1. Len(list) \in Nat \ {0} /\ i \in Nat \ {0} /\ i <= Len(list)
  OBVIOUS
<1>2. PICK front : front = SubSeq(list, 1, i - 1)
  OBVIOUS
<1>3. PICK back : back = SubSeq(list, i + 1, Len(list))
  OBVIOUS
<1>4. /\ front \in Seq(S) /\ Len(front) = i - 1
      /\ \A k \in 1 .. i - 1 : front[k] = list[k]
  BY <1>1, <1>2
<1>5. /\ back \in Seq(S) /\ Len(back) = Len(list) - i
      /\ \A k \in 1 .. Len(list) - i : back[k] = list[k + i]
  BY <1>1, <1>3
<1>6. less = front \o back
  BY <1>2, <1>3 DEF RemoveAt
<1>7. less \in Seq(S) /\ Len(less) = Len(list) - 1
  BY <1>1, <1>4, <1>5, <1>6
<1>8. ASSUME NEW k \in 1 .. Len(less)
      PROVE  less[k] = IF k < i THEN list[k] ELSE list[k + 1]
  <2>1. CASE k < i
    BY <1>1, <1>4, <1>5, <1>6, <1>7, <2>1
  <2>2. CASE ~(k < i)
    <3>1. less[k] = back[k - (i - 1)] /\ k - (i - 1) \in 1 .. Len(list) - i
      BY <1>1, <1>4, <1>5, <1>6, <1>7, <2>2
    <3>2. back[k - (i - 1)] = list[(k - (i - 1)) + i]
      BY <1>5, <3>1
    <3>3. (k - (i - 1)) + i = k + 1
      BY <1>1, <1>7
    <3> QED
      BY <2>2, <3>1, <3>2, <3>3
  <2> QED
    BY <2>1, <2>2
<1> QED
  BY <1>1, <1>7, <1>8

LEMMA ChunkIsUnlisted ==
    ASSUME NEW h, NEW list, Lists(list, h), \A b \in Free(h) : b \in Nat,
           NEW i \in 1 .. Len(list),
           NEW new, Free(new) = Free(h) \ {list[i]},
           NEW less, less = RemoveAt(list, i)
    PROVE  Lists(less, new) /\ Len(less) = Len(list) - 1
<1>1. list \in Seq(Free(h)) /\ \A j, k \in 1 .. Len(list) : j < k => list[j] < list[k]
  BY DEF Lists
<1>2. /\ less \in Seq(Free(h)) /\ Len(less) = Len(list) - 1 /\ Len(list) \in Nat \ {0}
      /\ \A k \in 1 .. Len(less) : less[k] = IF k < i THEN list[k] ELSE list[k + 1]
  BY <1>1, Without
<1>3. \A k \in 1 .. Len(list) : list[k] \in Free(h) /\ list[k] \in Nat
  BY <1>1
<1>4. \A k \in 1 .. Len(less) : k \in 1 .. Len(list) /\ k + 1 \in 1 .. Len(list) /\ k \in Nat
  BY <1>2
<1>5. ASSUME NEW k \in 1 .. Len(less) PROVE less[k] \in Free(new)
  <2>1. PICK l \in 1 .. Len(list) : less[k] = list[l] /\ l # i
    <3>1. CASE k < i
      BY <1>2, <1>4, <3>1
    <3>2. CASE ~(k < i)
      <4>1. k + 1 # i
        BY <1>4, <3>2
      <4> QED
        BY <1>2, <1>4, <3>2, <4>1
    <3> QED
      BY <3>1, <3>2
  <2>2. list[l] # list[i]
    <3>1. l < i \/ i < l
      BY <2>1
    <3> QED
      BY <1>1, <1>3, <3>1
  <2> QED
    BY <1>3, <2>1, <2>2
<1>6. less \in Seq(Free(new))
  BY <1>2, <1>5
<1>7. ASSUME NEW j \in 1 .. Len(less), NEW k \in 1 .. Len(less), j < k
      PROVE  less[j] < less[k]
  <2>1. /\ less[j] = IF j < i THEN list[j] ELSE list[j + 1]
        /\ less[k] = IF k < i THEN list[k] ELSE list[k + 1]
    BY <1>2
  <2>2. /\ j \in 1 .. Len(list) /\ j + 1 \in 1 .. Len(list)
        /\ k \in 1 .. Len(list) /\ k + 1 \in 1 .. Len(list)
        /\ j < k + 1 /\ j + 1 < k + 1 /\ (~(j < i) => ~(k < i))
    BY <1>4, <1>7
  <2> QED
    BY <1>1, <1>7, <2>1, <2>2
<1>8. ASSUME NEW b \in Free(new) PROVE \E k \in 1 .. Len(less) : less[k] = b
  <2>1. PICK l \in 1 .. Len(list) : list[l] = b
    BY DEF Lists
  <2>2. l # i
    BY <2>1
  <2>3. CASE l < i
    <3>1. l \in 1 .. Len(less)
      BY <1>2, <2>3
    <3> QED
      BY <1>2, <2>1, <2>3, <3>1
  <2>4. CASE l > i
    <3>1. l - 1 \in 1 .. Len(less) /\ ~(l - 1 < i) /\ (l - 1) + 1 = l
      BY <1>2, <2>4
    <3> QED
      BY <1>2, <2>1, <3>1
  <2> QED
    BY <2>2, <2>3, <2>4
<1> QED
  BY <1>2, <1>6, <1>7, <1>8 DEF Lists

Replaces(changed, list, h, i, rest, new) ==
    /\ changed = [list EXCEPT ![i] = rest]
    /\ Free(new) = (Free(h) \ {list[i]}) \cup {rest}
    /\ Lists(list, h) /\ \A b \in Free(h) : b \in Nat
    /\ i \in 1 .. Len(list) /\ rest \in Nat /\ list[i] < rest
    /\ \A b \in Free(h) : list[i] < b => rest < b

LEMMA ChunkIsReplaced ==
    ASSUME NEW h, NEW list, NEW i, NEW rest, NEW new,
           NEW changed, Replaces(changed, list, h, i, rest, new)
    PROVE  Lists(changed, new) /\ Len(changed) = Len(list)
<1>0. /\ changed = [list EXCEPT ![i] = rest]
      /\ Free(new) = (Free(h) \ {list[i]}) \cup {rest}
      /\ Lists(list, h) /\ \A b \in Free(h) : b \in Nat
      /\ i \in 1 .. Len(list) /\ rest \in Nat /\ list[i] < rest
      /\ \A b \in Free(h) : list[i] < b => rest < b
  BY DEF Replaces
<1> USE <1>0
<1>1. list \in Seq(Free(h)) /\ \A j, k \in 1 .. Len(list) : j < k => list[j] < list[k]
  BY DEF Lists
<1>2. \A k \in 1 .. Len(list) : list[k] \in Free(h) /\ list[k] \in Nat
  BY <1>1
<1>3. /\ Len(changed) = Len(list) /\ changed \in Seq(Free(h) \cup {rest})
      /\ changed[i] = rest
      /\ \A k \in 1 .. Len(list) : k # i => changed[k] = list[k]
  BY <1>1
<1>4. ASSUME NEW k \in 1 .. Len(list) PROVE changed[k] \in Free(new)
  <2>1. CASE k # i
    <3>1. k < i \/ i < k
      BY <2>1
    <3>2. list[k] # list[i]
      BY <1>1, <1>2, <3>1
    <3> QED
      BY <1>2, <1>3, <2>1, <3>2
  <2> QED
    BY <1>3, <2>1
<1>5. changed \in Seq(Free(new))
  <2>1. Len(list) \in Nat /\ changed \in [1 .. Len(list) -> Free(h) \cup {rest}]
    BY <1>3
  <2>2. changed \in [1 .. Len(list) -> Free(new)]
    BY <1>4, <2>1
  <2> QED
    BY ONLY <2>1, <2>2, SeqDef, Zenon
<1>6. ASSUME NEW j \in 1 .. Len(list), NEW k \in 1 .. Len(list), j < k
      PROVE  changed[j] < changed[k]
  <2>1. list[j] < list[k] /\ list[j] \in Nat /\ list[k] \in Nat /\ list[k] \in Free(h)
    BY <1>1, <1>2, <1>6
  <2>2. list[i] \in Nat
    BY <1>2
  <2> QED
    BY <1>3, <1>6, <2>1, <2>2
<1>7. ASSUME NEW b \in Free(new) PROVE \E k \in 1 .. Len(list) : changed[k] = b
  <2>1. CASE b = rest
    BY <1>3, <2>1
  <2>2. CASE b \in Free(h) \ {list[i]}
    <3>1. PICK k \in 1 .. Len(list) : list[k] = b
      BY <2>2 DEF Lists
    <3> QED
      BY <1>3, <2>2, <3>1
  <2> QED
    BY <2>1, <2>2
<1> QED
  BY <1>3, <1>5, <1>6, <1>7 DEF Lists

Appends(longer, list, h, a, new) ==
    /\ longer = Append(list, a)
    /\ Free(new) = Free(h) \cup {a}
    /\ Lists(list, h) /\ a \in Nat /\ \A b \in Free(h) : b < a

LEMMA ChunkIsAppended ==
    ASSUME NEW h, NEW list, NEW a, NEW new, NEW longer, Appends(longer, list, h, a, new)
    PROVE  Lists(longer, new) /\ Len(longer) = Len(list) + 1 /\ Len(list) \in Nat
<1>0. /\ longer = Append(list, a)
      /\ Free(new) = Free(h) \cup {a}
      /\ Lists(list, h) /\ a \in Nat /\ \A b \in Free(h) : b < a
  BY DEF Appends
<1> USE <1>0
<1>1. list \in Seq(Free(h)) /\ \A j, k \in 1 .. Len(list) : j < k => list[j] < list[k]
  BY DEF Lists
<1>2. /\ Len(list) \in Nat /\ Len(longer) = Len(list) + 1
      /\ longer[Len(list) + 1] = a
      /\ \A k \in 1 .. Len(list) : longer[k] = list[k] /\ list[k] \in Free(h)
  BY <1>1
<1>3. longer \in Seq(Free(new))
  <2>1. list \in Seq(Free(new)) /\ a \in Free(new)
    BY <1>1
  <2> QED
    BY <2>1
<1>4. ASSUME NEW j \in 1 .. Len(longer), NEW k \in 1 .. Len(longer), j < k
      PROVE  longer[j] < longer[k]
  <2>1. j \in 1 .. Len(list)
    BY <1>2, <1>4
  <2>2. CASE k \in 1 .. Len(list)
    BY <1>1, <1>2, <1>4, <2>1, <2>2
  <2>3. CASE k = Len(list) + 1
    BY <1>2, <2>1, <2>3
  <2> QED
    BY <1>2, <2>2, <2>3
<1>5. ASSUME NEW b \in Free(new) PROVE \E k \in 1 .. Len(longer) : longer[k] = b
  <2>1. CASE b = a
    <3>1. Len(list) + 1 \in 1 .. Len(longer)
      BY <1>2
    <3> QED
      BY <1>2, <2>1, <3>1
  <2>2. CASE b \in Free(h)
    <3>1. PICK k \in 1 .. Len(list) : list[k] = b
      BY <2>2 DEF Lists
    <3>2. k \in 1 .. Len(longer)
      BY <1>2
    <3> QED
      BY <1>2, <3>1, <3>2
  <2> QED
    BY <2>1, <2>2
<1> QED
  BY <1>2, <1>3, <1>4, <1>5 DEF Lists

-----------------------------------------------------------------------------
(* The inductive invariant: the blocks tile the heap, the list has the     *)
(* free ones, in order, and heapfree their grains, which leaves nothing    *)
(* the program reaches to be given out; who is in gcMalloc between the     *)
(* two ends of its critical section has heap_lock, and asks for something. *)
HeapInv ==
    /\ heaplimit \in Nat /\ MinHeap <= heaplimit /\ heaplimit <= heapmax
    /\ Blocks(header, heaplimit) /\ NoGap(header, heaplimit)
    /\ Lists(freelist, header)
    /\ chunkpp \in 1 .. Len(freelist) + 1
    /\ heapfree = Cardinality(FreeGrains(header))
    /\ reach \subseteq Objects

CallInv ==
    /\ state \in 0 .. 3
    /\ heap_lock \in Threads \cup {Nil}
    /\ pc \in [Threads -> {"java", "lock", "search", "failed", "finalizers",
                           "unlock", "crashed"}]
    /\ n \in [Threads -> {0} \cup Requests]
    /\ throwing \subseteq Threads
    /\ \A t \in Threads : pc[t] # "java" => n[t] \in Requests
    /\ \A t \in Threads : pc[t] \in {"search", "failed", "unlock"} => heap_lock = t

Inv == HeapInv /\ CallInv

LEMMA InitInv == Init => Inv
<1> SUFFICES ASSUME Init PROVE Inv
  OBVIOUS
<1> USE HeapAssumption
<1>1. /\ heaplimit = MinHeap /\ MinHeap \in Nat \ {0} /\ MinHeap <= heapmax
      /\ header = [a \in {0} |-> Chunk(MinHeap)] /\ freelist = <<0>> /\ chunkpp = 1
      /\ heapfree = MinHeap /\ reach = {}
  BY DEF Init
<1>2. DOMAIN header = {0} /\ header[0] = Chunk(MinHeap)
  BY <1>1
<1>3. Chunk(MinHeap) \in Headers /\ ~Chunk(MinHeap).alloced /\ Chunk(MinHeap).size = MinHeap
  BY <1>1 DEF Chunk, Headers
<1>4. End(header, 0) = MinHeap
  BY <1>1, <1>2, <1>3 DEF End
<1>5. Blocks(header, heaplimit) /\ NoGap(header, heaplimit)
  <2>1. header \in [DOMAIN header -> Headers]
    BY <1>1, <1>2, <1>3
  <2>2. \A g \in 0 .. heaplimit - 1 : In(g, header, 0)
    BY <1>1, <1>4 DEF In
  <2>3. 0 \in DOMAIN header /\ DOMAIN header \subseteq Nat
    BY <1>2
  <2>4. \A a \in DOMAIN header : a = 0
    BY <1>2
  <2>5. NoGap(header, heaplimit)
    BY <2>2, <2>3 DEF NoGap
  <2>6. \A a \in DOMAIN header : End(header, a) <= heaplimit
    BY <1>1, <1>4, <2>4
  <2>7. \A a, b \in DOMAIN header : ~(a < b)
    BY <2>4
  <2> QED
    BY <2>1, <2>3, <2>5, <2>6, <2>7 DEF Blocks
<1>6. Free(header) = {0}
  BY <1>2, <1>3 DEF Free
<1>7. Lists(freelist, header) /\ chunkpp \in 1 .. Len(freelist) + 1
  BY <1>1, <1>6 DEF Lists
<1>8. heapfree = Cardinality(FreeGrains(header))
  <2>1. FreeGrains(header) = 0 .. MinHeap - 1
    BY <1>4, <1>6 DEF FreeGrains
  <2>2. Cardinality(0 .. 0 + MinHeap - 1) = MinHeap
    BY <1>1, IntervalsAreFinite
  <2>3. 0 .. 0 + MinHeap - 1 = 0 .. MinHeap - 1
    BY <1>1
  <2> QED
    BY <1>1, <2>1, <2>2, <2>3
<1>9. HeapInv
  BY <1>1, <1>5, <1>7, <1>8 DEF HeapInv
<1>10. CallInv
  BY DEF Init, CallInv
<1> QED
  BY <1>9, <1>10 DEF Inv

(* A collection.                                                           *)
LEMMA SweepKeeps ==
    ASSUME HeapInv, NEW marked \in Marks, NEW s, s = Swept(marked), doSweep(s), reach' = reach
    PROVE  HeapInv' /\ IsSwept(marked, s) /\ reach \subseteq marked /\ marked \subseteq Objects
<1>1. reach \subseteq marked /\ marked \subseteq Objects
  BY DEF Marks, HeapInv
<1>2. Tiled
  BY DEF Tiled, HeapInv
<1>3. IsSwept(marked, s)
  BY <1>1, <1>2, SweptIsTiled
<1>4. /\ header' = s.header /\ freelist' = s.list /\ chunkpp' = 1 /\ heapfree' = s.free
      /\ heaplimit' = heaplimit
  BY DEF doSweep
<1>5. /\ Blocks(header', heaplimit') /\ NoGap(header', heaplimit') /\ Lists(freelist', header')
      /\ heapfree' = Cardinality(FreeGrains(header'))
  BY <1>3, <1>4 DEF IsSwept
<1>6. chunkpp' \in 1 .. Len(freelist') + 1
  <2>1. Len(freelist') \in Nat
    BY <1>5 DEF Lists
  <2> QED
    BY <1>4, <2>1
<1>7. reach' \subseteq Objects'
  BY <1>1, <1>3, <1>4 DEF IsSwept, Objects
<1>8. heaplimit' \in Nat /\ MinHeap <= heaplimit' /\ heaplimit' <= heapmax
  BY <1>4 DEF HeapInv
<1> QED
  BY <1>1, <1>3, <1>5, <1>6, <1>7, <1>8 DEF HeapInv

(* A chunk that is large enough.                                           *)
LEMMA FitsIsFound ==
    ASSUME HeapInv, NEW size, Fits(size) # {}
    PROVE  Min(Fits(size)) \in Fits(size)
<1>1. Fits(size) \subseteq Nat
  BY DEF Fits, HeapInv, Lists
<1>2. PICK m \in Fits(size) : \A i \in Fits(size) : m <= i
  <2>1. PICK T : T = Fits(size)
    OBVIOUS
  <2>2. \E m \in T : \A i \in T : m <= i
    BY <1>1, <2>1, LeastNumber
  <2> QED
    BY <2>1, <2>2
<1> QED
  BY <1>2 DEF Min

(* gcMalloc takes an object.                                               *)
LEMMA GotItKeeps ==
    ASSUME HeapInv, NEW t, n[t] \in Nat \ {0}, NEW i \in Fits(n[t]), gotIt(t, i)
    PROVE  HeapInv' /\ \A a \in reach : a \in DOMAIN header' /\ header'[a] = header[a]
<1> DEFINE a == freelist[i]
           size == n[t]
           block == [size |-> n[t], alloced |-> TRUE]
           new == With(header, a, block)
<1>1. /\ heaplimit \in Nat /\ Blocks(header, heaplimit) /\ NoGap(header, heaplimit)
      /\ Lists(freelist, header) /\ heapfree = Cardinality(FreeGrains(header))
      /\ chunkpp \in 1 .. Len(freelist) + 1 /\ Len(freelist) \in Nat
  BY DEF HeapInv, Lists
<1>2. i \in chunkpp .. Len(freelist) /\ i \in 1 .. Len(freelist) /\ header[a].size >= size
  BY <1>1 DEF Fits
<1>3. a \in Free(header) /\ a \in DOMAIN header /\ ~header[a].alloced
  BY <1>1, <1>2 DEF Lists, Free
<1>4. /\ a \in Nat /\ header[a].size \in Nat \ {0} /\ \A b \in Free(header) : b \in Nat
      /\ End(header, a) = a + header[a].size
  BY <1>1, <1>3 DEF Blocks, Headers, Free, End
<1>5. block.alloced /\ block.size = size /\ block \in Headers
  BY DEF Headers
<1>6. /\ DOMAIN new = DOMAIN header /\ new[a] = block
      /\ \A b \in DOMAIN header \ {a} : new[b] = header[b]
      /\ new = [b \in DOMAIN new |-> new[b]]
  <2> HIDE DEF a, block
  <2> QED
    BY <1>3 DEF With
<1>7. /\ chunkpp' = i /\ heapfree' = heapfree - size /\ reach' = reach \cup {a}
      /\ heaplimit' = heaplimit
  BY DEF gotIt
<1>8. reach \subseteq Objects /\ a \notin reach /\ \A b \in reach : b \in DOMAIN header \ {a}
  BY <1>3 DEF HeapInv, Objects
<1>9. Cardinality(FreeGrains(header)) \in Nat
  BY <1>1, FreeGrainsAreFinite
<1>10. \/ /\ header[a].size = size /\ header' = new /\ freelist' = RemoveAt(freelist, i)
       \/ /\ header[a].size > size /\ header' = With(new, a + size, Chunk(header[a].size - size))
          /\ freelist' = [freelist EXCEPT ![i] = a + size]
  BY DEF gotIt
<1> HIDE DEF a, size, block, new
<1>11. CASE /\ header[a].size = size /\ header' = new /\ freelist' = RemoveAt(freelist, i)
  <2>1. TakesAll(new, header, heaplimit, a, size, block)
    <3>1. Takes(new, header, a, size, block)
      BY <1>5, <1>6, <1>11 DEF Takes
    <3> QED
      BY <1>1, <1>3, <1>6, <1>11, <3>1 DEF TakesAll
  <2>2. /\ Blocks(new, heaplimit) /\ NoGap(new, heaplimit)
        /\ Free(new) = Free(header) \ {a}
        /\ Cardinality(FreeGrains(header)) = Cardinality(FreeGrains(new)) + size
    BY <2>1, ChunkIsTaken
  <2>3. Lists(freelist', new) /\ Len(freelist') = Len(freelist) - 1
    <3>1. PICK less : less = RemoveAt(freelist, i)
      OBVIOUS
    <3>2. Free(new) = Free(header) \ {freelist[i]}
      BY <2>2 DEF a
    <3>3. Lists(less, new) /\ Len(less) = Len(freelist) - 1
      BY <1>1, <1>2, <1>4, <3>1, <3>2, ChunkIsUnlisted
    <3> QED
      BY <1>11, <3>1, <3>3
  <2>4. heapfree' = Cardinality(FreeGrains(new))
    <3>1. Cardinality(FreeGrains(new)) \in Nat
      BY <1>1, <2>2, FreeGrainsAreFinite
    <3> QED
      BY <1>1, <1>4, <1>7, <1>11, <2>2, <3>1
  <2>5. chunkpp' \in 1 .. Len(freelist') + 1
    BY <1>1, <1>2, <1>7, <2>3
  <2>6. \A b \in reach : b \in DOMAIN new /\ new[b] = header[b]
    BY <1>6, <1>8
  <2>7. reach' \subseteq Objects'
    BY <1>3, <1>5, <1>6, <1>7, <1>8, <1>11, <2>6 DEF Objects
  <2> QED
    BY <1>7, <1>11, <2>2, <2>3, <2>4, <2>5, <2>6, <2>7 DEF HeapInv
<1>12. CASE /\ header[a].size > size
            /\ header' = With(new, a + size, Chunk(header[a].size - size))
            /\ freelist' = [freelist EXCEPT ![i] = a + size]
  <2>0. size \in Nat \ {0} /\ size < header[a].size
    BY <1>4, <1>12 DEF size
  <2>1. PICK rest : rest = a + size
    OBVIOUS
  <2>2. PICK h : h = With(new, rest, Chunk(header[a].size - size))
    OBVIOUS
  <2>3. header' = h /\ freelist' = [freelist EXCEPT ![i] = rest]
    BY <1>12, <2>1, <2>2
  <2>4. rest \in Nat /\ a < rest /\ rest < End(header, a) /\ a # rest
    BY <1>4, <2>0, <2>1
  <2>5. rest \notin DOMAIN header
    <3>1. SUFFICES ASSUME rest \in DOMAIN header PROVE FALSE
      OBVIOUS
    <3>2. End(header, a) <= rest
      BY <1>1, <1>3, <2>4, <3>1 DEF Blocks
    <3>3. End(header, a) \in Nat
      BY <1>4
    <3> QED
      BY <2>4, <3>2, <3>3
  <2>6. /\ DOMAIN h = DOMAIN header \cup {rest} /\ h[rest] = Chunk(header[a].size - size)
        /\ \A b \in DOMAIN header : h[b] = new[b]
        /\ h = [b \in DOMAIN h |-> h[b]]
    BY <1>6, <2>2, <2>5 DEF With
  <2>7. Takes(h, header, a, size, block)
    BY <1>3, <1>5, <1>6, <2>6 DEF Takes
  <2>8. /\ Blocks(h, heaplimit) /\ NoGap(h, heaplimit)
        /\ Free(h) = (Free(header) \ {a}) \cup {rest}
        /\ Cardinality(FreeGrains(header)) = Cardinality(FreeGrains(h)) + size
    BY <1>1, <1>3, <2>0, <2>1, <2>6, <2>7, ChunkIsSplit
  <2>9. Lists(freelist', h) /\ Len(freelist') = Len(freelist)
    <3>1. PICK changed : changed = [freelist EXCEPT ![i] = rest]
      OBVIOUS
    <3>2. Free(h) = (Free(header) \ {freelist[i]}) \cup {rest} /\ freelist[i] < rest
      BY <2>4, <2>8 DEF a
    <3>3. \A b \in Free(header) : freelist[i] < b => rest < b
      <4>1. ASSUME NEW b \in Free(header), a < b PROVE rest < b
        <5>1. End(header, a) <= b /\ b \in Nat /\ End(header, a) \in Nat
          BY <1>1, <1>3, <1>4, <4>1 DEF Blocks, Free
        <5> QED
          BY <2>4, <5>1
      <4> QED
        BY <4>1 DEF a
    <3>4. Lists(changed, h) /\ Len(changed) = Len(freelist)
      <4>1. Lists(freelist, header) /\ (\A b \in Free(header) : b \in Nat)
            /\ i \in 1 .. Len(freelist) /\ rest \in Nat
        BY <1>1, <1>2, <1>4, <2>4
      <4>2. Replaces(changed, freelist, header, i, rest, h)
        BY <3>1, <3>2, <3>3, <4>1 DEF Replaces
      <4> QED
        BY <4>2, ChunkIsReplaced
    <3> QED
      BY <2>3, <3>1, <3>4
  <2>10. heapfree' = Cardinality(FreeGrains(h))
    <3>1. Cardinality(FreeGrains(h)) \in Nat
      BY <1>1, <2>8, FreeGrainsAreFinite
    <3> QED
      BY <1>1, <1>7, <2>0, <2>8, <3>1
  <2>11. chunkpp' \in 1 .. Len(freelist') + 1
    BY <1>1, <1>2, <1>7, <2>9
  <2>12. \A b \in reach : b \in DOMAIN h /\ h[b] = header[b]
    BY <1>6, <1>8, <2>6
  <2>13. reach' \subseteq Objects'
    BY <1>3, <1>5, <1>6, <1>7, <1>8, <2>3, <2>6, <2>12 DEF Objects
  <2> QED
    BY <1>7, <2>3, <2>8, <2>9, <2>10, <2>11, <2>12, <2>13 DEF HeapInv
<1> QED
  BY <1>10, <1>11, <1>12

(* The heap grows, at its end and not beyond its maximum.                  *)
LEMMA DeltaFits ==
    ASSUME HeapInv, heaplimit < heapmax, NEW min \in Nat \ {0}
    PROVE  Delta(min) \in Nat \ {0} /\ heaplimit + Delta(min) <= heapmax
<1>1. heaplimit \in Nat /\ heapmax \in Nat
  BY HeapAssumption DEF HeapInv
<1>2. PICK half \in Nat : half = heaplimit \div 2
  BY <1>1
<1>3. PICK m : m = Max({half, min})
  OBVIOUS
<1>4. m \in Nat /\ m >= min
  BY <1>3, LargerOfTwo
<1>5. PICK room \in Nat \ {0} : room = heapmax - heaplimit
  BY <1>1
<1>6. Min({m, room}) = IF m <= room THEN m ELSE room
  BY <1>4, SmallerOfTwo
<1>7. Delta(min) = Min({m, room})
  BY <1>2, <1>3, <1>5 DEF Delta
<1> QED
  BY <1>1, <1>4, <1>5, <1>6, <1>7

LEMMA ExpandKeeps ==
    ASSUME HeapInv, heaplimit < heapmax, NEW min \in Nat \ {0}, expandHeap(min), reach' = reach
    PROVE  HeapInv' /\ \A a \in reach : a \in DOMAIN header' /\ header'[a] = header[a]
<1>1. /\ heaplimit \in Nat /\ heapmax \in Nat /\ MinHeap \in Nat
      /\ MinHeap <= heaplimit /\ Blocks(header, heaplimit) /\ NoGap(header, heaplimit)
      /\ Lists(freelist, header) /\ chunkpp \in 1 .. Len(freelist) + 1
      /\ heapfree = Cardinality(FreeGrains(header)) /\ reach \subseteq Objects
  BY HeapAssumption DEF HeapInv
<1>2. PICK more : more = Delta(min)
  OBVIOUS
<1>3. more \in Nat \ {0} /\ heaplimit + more <= heapmax
  BY <1>2, DeltaFits
<1>4. PICK limit : limit = heaplimit + more
  OBVIOUS
<1>5. /\ header' = With(header, heaplimit, Chunk(more))
      /\ freelist' = Append(freelist, heaplimit)
      /\ heaplimit' = limit /\ heapfree' = heapfree + more /\ chunkpp' = chunkpp
  BY <1>2, <1>4 DEF expandHeap
<1>6. /\ Chunk(more) \in Headers /\ Chunk(more).size = more /\ ~Chunk(more).alloced
  BY <1>3 DEF Chunk, Headers
<1>7. \A b \in DOMAIN header : /\ b \in Nat /\ End(header, b) \in Nat
                               /\ End(header, b) <= heaplimit /\ b < heaplimit
  BY <1>1 DEF Blocks, End, Headers
<1>8. limit \in Nat /\ heaplimit <= limit
  BY <1>1, <1>3, <1>4
<1>9. Blocks(header, limit)
  <2>1. \A b \in DOMAIN header : End(header, b) <= limit
    BY <1>1, <1>7, <1>8
  <2> QED
    BY <1>1, <2>1 DEF Blocks
<1>10. RoomFor(header, limit, heaplimit, Chunk(more))
  BY <1>1, <1>4, <1>6, <1>7, <1>8, <1>9 DEF RoomFor
<1>11. PICK new : new = With(header, heaplimit, Chunk(more))
  OBVIOUS
<1>12. Blocks(new, limit) /\ Adds(new, header, heaplimit, Chunk(more))
  BY <1>8, <1>10, <1>11, BlockIsAdded
<1>13. /\ DOMAIN new = DOMAIN header \cup {heaplimit}
       /\ new[heaplimit] = Chunk(more) /\ \A b \in DOMAIN header : new[b] = header[b]
       /\ Free(new) = Free(header) \cup {heaplimit}
       /\ Cardinality(FreeGrains(new)) = Cardinality(FreeGrains(header)) + more
  BY <1>6, <1>12 DEF Adds
<1>14. NoGap(new, limit)
  <2>1. SUFFICES ASSUME NEW g \in 0 .. limit - 1 PROVE \E b \in DOMAIN new : In(g, new, b)
    BY DEF NoGap
  <2>2. CASE g < heaplimit
    <3>1. g \in 0 .. heaplimit - 1
      BY <1>1, <1>8, <2>2
    <3>2. PICK b \in DOMAIN header : In(g, header, b)
      BY <1>1, <3>1 DEF NoGap
    <3> QED
      BY <1>13, <3>2 DEF In, End
  <2>3. CASE ~(g < heaplimit)
    <3>1. heaplimit <= g /\ g < heaplimit + more
      BY <1>1, <1>3, <1>4, <2>3
    <3>2. End(new, heaplimit) = heaplimit + more
      BY <1>6, <1>13 DEF End
    <3> QED
      BY <1>13, <3>1, <3>2 DEF In
  <2> QED
    BY <2>2, <2>3
<1>15. Lists(freelist', new) /\ Len(freelist') = Len(freelist) + 1 /\ Len(freelist) \in Nat
  <2>1. \A b \in Free(header) : b < heaplimit
    BY <1>7 DEF Free
  <2>2. PICK longer : longer = Append(freelist, heaplimit)
    OBVIOUS
  <2>3. Lists(longer, new) /\ Len(longer) = Len(freelist) + 1 /\ Len(freelist) \in Nat
    <3>1. Appends(longer, freelist, header, heaplimit, new)
      BY <1>1, <1>13, <2>1, <2>2 DEF Appends
    <3> QED
      BY <3>1, ChunkIsAppended
  <2> QED
    BY <1>5, <2>2, <2>3
<1>16. chunkpp' \in 1 .. Len(freelist') + 1
  BY <1>1, <1>5, <1>15
<1>17. \A b \in reach : b \in DOMAIN header /\ header[b].alloced
  BY <1>1 DEF Objects
<1>18. \A b \in reach : b \in DOMAIN new /\ new[b] = header[b]
  BY <1>13, <1>17
<1>19. header' = new
  BY <1>5, <1>11
<1>20. reach' \subseteq Objects'
  BY <1>17, <1>18, <1>19 DEF Objects
<1>21. MinHeap <= limit /\ limit <= heapmax
  BY <1>1, <1>3, <1>4, <1>8
<1> QED
  BY <1>5, <1>8, <1>12, <1>13, <1>14, <1>15, <1>16, <1>18, <1>19, <1>20, <1>21, <1>1 DEF HeapInv

-----------------------------------------------------------------------------
(* The steps.                                                              *)
Preserved == \A a \in reach \cap reach' : a \in DOMAIN header' /\ header'[a] = header[a]

LEMMA HeapIsKept ==
    ASSUME HeapInv, UNCHANGED heapVars, reach' \subseteq reach
    PROVE  HeapInv' /\ Preserved
<1>1. /\ heaplimit' = heaplimit /\ header' = header /\ freelist' = freelist
      /\ chunkpp' = chunkpp /\ heapfree' = heapfree
  BY DEF heapVars
<1> QED
  BY <1>1 DEF HeapInv, Preserved, Objects

LEMMA SearchKeeps ==
    ASSUME HeapInv, CallInv, NEW t \in Threads, search(t)
    PROVE  HeapInv' /\ Preserved
<1>1. n[t] \in Nat \ {0}
  BY HeapAssumption DEF search, CallInv
<1>2. CASE Fits(n[t]) # {} /\ gotIt(t, Min(Fits(n[t])))
  <2>1. PICK i : i = Min(Fits(n[t]))
    OBVIOUS
  <2>2. i \in Fits(n[t]) /\ gotIt(t, i)
    BY <1>2, <2>1, FitsIsFound
  <2> QED
    BY <1>1, <2>2, GotItKeeps DEF Preserved
<1>3. CASE /\ chunkpp' = Len(freelist) + 1
           /\ UNCHANGED <<heaplimit, header, freelist, heapfree, reach>>
  <2>1. Len(freelist) \in Nat
    BY DEF HeapInv, Lists
  <2>2. chunkpp' \in 1 .. Len(freelist') + 1
    BY <1>3, <2>1
  <2> QED
    BY <1>3, <2>2 DEF HeapInv, Preserved, Objects
<1> QED
  BY <1>2, <1>3 DEF search

LEMMA SweptIsPreserved ==
    ASSUME HeapInv, NEW marked \in Marks, doSweep(Swept(marked)), reach' = reach
    PROVE  HeapInv' /\ Preserved
<1>1. PICK s : s = Swept(marked)
  OBVIOUS
<1>2. HeapInv' /\ IsSwept(marked, s) /\ reach \subseteq marked
  BY <1>1, SweepKeeps
<1>3. header' = s.header
  BY <1>1 DEF doSweep
<1> QED
  BY <1>2, <1>3 DEF IsSwept, Preserved

LEMMA StepKeepsHeap ==
    ASSUME Inv, [Next]_vars
    PROVE  HeapInv' /\ Preserved
<1>0. HeapInv /\ CallInv
  BY DEF Inv
<1>1. CASE UNCHANGED vars
  BY <1>0, <1>1, HeapIsKept DEF vars
<1>2. CASE \E t \in Threads, size \in Requests : gcMalloc(t, size)
  BY <1>0, <1>2, HeapIsKept DEF gcMalloc
<1>3. CASE \E t \in Threads : gc1(t)
  <2>1. PICK t \in Threads : gc1(t)
    BY <1>3
  <2>2. PICK marked \in Marks : doSweep(Swept(marked))
    BY <2>1 DEF gc1
  <2> QED
    BY <1>0, <2>1, <2>2, SweptIsPreserved DEF gc1
<1>4. CASE \E a \in reach : drop(a)
  <2>1. UNCHANGED heapVars /\ reach' \subseteq reach
    BY <1>4 DEF drop
  <2> QED
    BY <1>0, <2>1, HeapIsKept
<1>5. ASSUME NEW t \in Threads, lockHeap(t) \/ case1(t) \/ crash(t) \/ case3(t) \/ unlockHeap(t)
      PROVE  HeapInv' /\ Preserved
  BY <1>0, <1>5, HeapIsKept DEF lockHeap, case1, crash, case3, unlockHeap
<1>6. ASSUME NEW t \in Threads, search(t) PROVE HeapInv' /\ Preserved
  BY <1>0, <1>6, SearchKeeps
<1>7. ASSUME NEW t \in Threads, case0(t) PROVE HeapInv' /\ Preserved
  <2>1. PICK marked \in Marks : doSweep(Swept(marked))
    BY <1>7 DEF case0
  <2> QED
    BY <1>0, <1>7, <2>1, SweptIsPreserved DEF case0
<1>8. ASSUME NEW t \in Threads, NEW res \in BOOLEAN, runFinalizers(t, res)
      PROVE  HeapInv' /\ Preserved
  <2>1. CASE UNCHANGED heapVars
    BY <1>0, <1>8, <2>1, HeapIsKept DEF runFinalizers
  <2>2. CASE \E marked \in Marks : doSweep(Swept(marked))
    BY <1>0, <1>8, <2>2, SweptIsPreserved DEF runFinalizers
  <2> QED
    BY <1>8, <2>1, <2>2 DEF runFinalizers
<1>9. ASSUME NEW t \in Threads, case2(t) PROVE HeapInv' /\ Preserved
  <2>1. n[t] \in Nat \ {0}
    BY <1>0, <1>9, HeapAssumption DEF case2, CallInv
  <2> QED
    BY <1>0, <1>9, <2>1, ExpandKeeps DEF case2, Preserved
<1>10. ASSUME NEW t \in Threads, case2AtMaximum(t) PROVE HeapInv' /\ Preserved
  <2>1. chunkpp' = 1 /\ UNCHANGED <<heaplimit, header, freelist, heapfree, reach>>
    BY <1>10 DEF case2AtMaximum
  <2>2. Len(freelist) \in Nat
    BY <1>0 DEF HeapInv, Lists
  <2>3. chunkpp' \in 1 .. Len(freelist') + 1
    BY <2>1, <2>2
  <2> QED
    BY <1>0, <2>1, <2>3 DEF HeapInv, Preserved, Objects
<1>11. ASSUME NEW t \in Threads, Call(t) PROVE HeapInv' /\ Preserved
  BY <1>5, <1>6, <1>7, <1>8, <1>9, <1>10, <1>11 DEF Call
<1> QED
  BY <1>1, <1>2, <1>3, <1>4, <1>11 DEF Next

LEMMA StepKeepsCall ==
    ASSUME Inv, [Next]_vars
    PROVE  CallInv'
<1> DEFINE Places == {"java", "lock", "search", "failed", "finalizers", "unlock", "crashed"}
           Holds == {"search", "failed", "unlock"}
<1>0. /\ state \in 0 .. 3 /\ heap_lock \in Threads \cup {Nil} /\ throwing \subseteq Threads
      /\ pc \in [Threads -> Places] /\ n \in [Threads -> {0} \cup Requests]
      /\ \A t \in Threads : pc[t] # "java" => n[t] \in Requests
      /\ \A t \in Threads : pc[t] \in Holds => heap_lock = t
      /\ Nil \notin Threads /\ OOMSize \in Requests
  BY HeapAssumption DEF Inv, CallInv
<1>1. CASE UNCHANGED <<state, heap_lock, pc, n, throwing>>
  BY <1>0, <1>1 DEF CallInv
<1>2. ASSUME NEW t \in Threads, NEW size \in Requests, gcMalloc(t, size) PROVE CallInv'
  <2>1. /\ pc' = [pc EXCEPT ![t] = "lock"] /\ n' = [n EXCEPT ![t] = size]
        /\ UNCHANGED <<state, heap_lock, throwing>>
    BY <1>2 DEF gcMalloc, Goto
  <2> QED
    BY <1>0, <2>1 DEF CallInv
<1>3. ASSUME NEW t \in Threads, lockHeap(t) PROVE CallInv'
  <2>1. /\ pc' = [pc EXCEPT ![t] = "search"] /\ heap_lock' = t /\ heap_lock = Nil
        /\ pc[t] = "lock" /\ UNCHANGED <<state, n, throwing>>
    BY <1>3 DEF lockHeap, Goto
  <2> QED
    BY <1>0, <2>1 DEF CallInv
<1>4. ASSUME NEW t \in Threads, search(t) PROVE CallInv'
  <2>1. /\ pc[t] = "search" /\ UNCHANGED <<state, heap_lock, n, throwing>>
        /\ pc' = [pc EXCEPT ![t] = "unlock"] \/ pc' = [pc EXCEPT ![t] = "failed"]
    BY <1>4 DEF search, Goto
  <2> QED
    BY <1>0, <2>1 DEF CallInv
<1>5. ASSUME NEW t \in Threads, case0(t) PROVE CallInv'
  <2>1. /\ pc[t] = "failed" /\ UNCHANGED <<heap_lock, n, throwing>> /\ state' \in 0 .. 3
        /\ pc' = [pc EXCEPT ![t] = "search"] \/ pc' = pc
    BY <1>5 DEF case0, Goto
  <2> QED
    BY <1>0, <2>1 DEF CallInv
<1>6. ASSUME NEW t \in Threads, case1(t) PROVE CallInv'
  <2>1. /\ pc[t] = "failed" /\ UNCHANGED <<state, n, throwing>> /\ heap_lock' = Nil
        /\ pc' = [pc EXCEPT ![t] = "finalizers"]
    BY <1>6 DEF case1, Goto
  <2> QED
    BY <1>0, <2>1 DEF CallInv
<1>7. ASSUME NEW t \in Threads, NEW res \in BOOLEAN, runFinalizers(t, res) PROVE CallInv'
  <2>1. /\ pc[t] = "finalizers" /\ heap_lock = Nil /\ UNCHANGED <<n, throwing>>
        /\ heap_lock' = t /\ state' \in 0 .. 3 /\ pc' = [pc EXCEPT ![t] = "search"]
    BY <1>0, <1>7 DEF runFinalizers, Goto
  <2> QED
    BY <1>0, <2>1 DEF CallInv
<1>8. ASSUME NEW t \in Threads, case2(t) PROVE CallInv'
  <2>1. /\ pc[t] = "failed" /\ UNCHANGED <<heap_lock, n, throwing>>
        /\ state' = 0 /\ pc' = [pc EXCEPT ![t] = "search"]
    BY <1>8 DEF case2, Goto
  <2> QED
    BY <1>0, <2>1 DEF CallInv
<1>9. ASSUME NEW t \in Threads, crash(t) PROVE CallInv'
  <2>1. /\ pc[t] = "failed" /\ UNCHANGED <<state, heap_lock, n, throwing>>
        /\ pc' = [pc EXCEPT ![t] = "crashed"]
    BY <1>9 DEF crash, Goto
  <2> QED
    BY <1>0, <2>1 DEF CallInv
<1>10. ASSUME NEW t \in Threads, case2AtMaximum(t) PROVE CallInv'
  <2>1. /\ pc[t] = "failed" /\ heap_lock' = Nil /\ state' = 3
        /\ throwing' = throwing \cup {t} /\ n' = [n EXCEPT ![t] = OOMSize]
        /\ pc' = [pc EXCEPT ![t] = "lock"]
    BY <1>10 DEF case2AtMaximum, Goto
  <2> QED
    BY <1>0, <2>1 DEF CallInv
<1>11. ASSUME NEW t \in Threads, case3(t) \/ unlockHeap(t) PROVE CallInv'
  <2>1. /\ pc[t] \in {"failed", "unlock"} /\ heap_lock' = Nil /\ state' \in 0 .. 3
        /\ throwing' = throwing \ {t} /\ n' = n
        /\ pc' = [pc EXCEPT ![t] = "java"]
    BY <1>0, <1>11 DEF case3, unlockHeap, Goto
  <2> QED
    BY <1>0, <2>1 DEF CallInv
<1>12. ASSUME NEW t \in Threads, gc1(t) PROVE CallInv'
  BY <1>1, <1>12 DEF gc1
<1>13. ASSUME NEW a \in reach, drop(a) PROVE CallInv'
  BY <1>1, <1>13 DEF drop
<1>14. CASE UNCHANGED vars
  BY <1>1, <1>14 DEF vars
<1>15. ASSUME NEW t \in Threads, Call(t) PROVE CallInv'
  BY <1>3, <1>4, <1>5, <1>6, <1>7, <1>8, <1>9, <1>10, <1>11, <1>15 DEF Call
<1> HIDE DEF Places, Holds
<1> QED
  BY <1>2, <1>12, <1>13, <1>14, <1>15 DEF Next

LEMMA StepKeepsInv == Inv /\ [Next]_vars => Inv'
BY StepKeepsHeap, StepKeepsCall DEF Inv

(* The inductive invariant holds for any number of threads, any size of    *)
(* the heap, any requests, and whatever a collection marks besides what    *)
(* is reachable.                                                           *)
THEOREM Invariance == Spec => []Inv
<1>1. Init => Inv
  BY InitInv
<1>2. Inv /\ [Next]_vars => Inv'
  BY StepKeepsInv
<1> QED
  BY <1>1, <1>2, PTL DEF Spec

-----------------------------------------------------------------------------
(* What follows from it.                                                   *)
LEMMA InvIsTyped == Inv => TypeOK
<1> SUFFICES ASSUME Inv PROVE TypeOK
  OBVIOUS
<1>1. /\ heaplimit \in Nat /\ MinHeap <= heaplimit /\ heaplimit <= heapmax
      /\ Blocks(header, heaplimit) /\ Lists(freelist, header)
      /\ heapfree = Cardinality(FreeGrains(header)) /\ reach \subseteq Objects
      /\ chunkpp \in 1 .. Len(freelist) + 1
  BY DEF Inv, HeapInv
<1>2. heaplimit \in MinHeap .. heapmax
  BY <1>1, HeapAssumption
<1>3. ASSUME NEW a \in DOMAIN header
      PROVE  /\ a \in 0 .. heaplimit - 1
             /\ header[a] \in [size : 1 .. heaplimit, alloced : BOOLEAN]
  <2>1. PICK size \in Nat \ {0}, alloced \in BOOLEAN :
           header[a] = [size |-> size, alloced |-> alloced]
    BY <1>1 DEF Blocks, Headers
  <2>2. a \in Nat /\ a + size <= heaplimit
    BY <1>1, <2>1 DEF Blocks, End
  <2>3. a \in 0 .. heaplimit - 1 /\ size \in 1 .. heaplimit
    BY <1>1, <2>2
  <2> QED
    BY <2>1, <2>3
<1>4. freelist \in Seq(DOMAIN header)
  <2>1. Free(header) \subseteq DOMAIN header /\ freelist \in Seq(Free(header))
    BY <1>1 DEF Free, Lists
  <2> QED
    BY <2>1, SeqMonotonic
<1>5. heapfree \in 0 .. heaplimit
  <2>1. FreeGrains(header) \subseteq 0 .. 0 + heaplimit - 1
    <3>1. SUFFICES ASSUME NEW a \in Free(header), NEW g \in a .. End(header, a) - 1
                   PROVE  g \in 0 .. 0 + heaplimit - 1
      BY DEF FreeGrains
    <3>2. a \in Nat /\ End(header, a) <= heaplimit /\ End(header, a) \in Nat
      BY <1>1 DEF Free, Blocks, Headers, End
    <3> QED
      BY <1>1, <3>1, <3>2
  <2>2. IsFiniteSet(0 .. 0 + heaplimit - 1) /\ Cardinality(0 .. 0 + heaplimit - 1) = heaplimit
    BY <1>1, IntervalsAreFinite
  <2>3. Cardinality(FreeGrains(header)) <= heaplimit
    BY <2>1, <2>2, FS_Subset
  <2>4. Cardinality(FreeGrains(header)) \in Nat
    BY <1>1, FreeGrainsAreFinite
  <2> QED
    BY <1>1, <2>3, <2>4
<1>6. reach \subseteq DOMAIN header
  BY <1>1 DEF Objects
<1>7. CallInv
  BY DEF Inv
<1> QED
  BY <1>1, <1>2, <1>3, <1>4, <1>5, <1>6, <1>7 DEF TypeOK, CallInv

LEMMA InvIsTiled == Inv => HeapIsTiled
<1> SUFFICES ASSUME Inv, NEW i \in 0 .. heaplimit - 1
             PROVE  Cardinality({a \in DOMAIN header : i \in a .. a + header[a].size - 1}) = 1
  BY InvIsTyped DEF HeapIsTiled
<1>1. heaplimit \in Nat /\ Blocks(header, heaplimit) /\ NoGap(header, heaplimit)
  BY DEF Inv, HeapInv
<1>2. \A a \in DOMAIN header : /\ a \in Nat /\ header[a].size \in Nat
                               /\ End(header, a) = a + header[a].size
  BY <1>1 DEF Blocks, Headers, End
<1>3. PICK a \in DOMAIN header : In(i, header, a)
  BY <1>1 DEF NoGap
<1>4. i \in Nat
  BY <1>1
<1>5. \A b \in DOMAIN header : i \in b .. b + header[b].size - 1 <=> In(i, header, b)
  BY <1>2, <1>4 DEF In
<1>6. ASSUME NEW b \in DOMAIN header, In(i, header, b) PROVE b = a
  <2>1. SUFFICES ASSUME b # a PROVE FALSE
    OBVIOUS
  <2>2. (a < b => End(header, a) <= b) /\ (b < a => End(header, b) <= a)
    BY <1>1 DEF Blocks
  <2>3. a \in Nat /\ b \in Nat /\ End(header, a) \in Nat /\ End(header, b) \in Nat
    BY <1>2
  <2> QED
    BY <1>3, <1>4, <1>6, <2>1, <2>2, <2>3 DEF In
<1>7. {b \in DOMAIN header : i \in b .. b + header[b].size - 1} = {a}
  BY <1>3, <1>5, <1>6
<1> QED
  BY <1>7, FS_Singleton

LEMMA InvListsFree == Inv => FreeListIsAccurate
<1> SUFFICES ASSUME Inv PROVE FreeListIsAccurate
  OBVIOUS
<1>1. /\ Lists(freelist, header) /\ heapfree = Cardinality(FreeGrains(header))
      /\ Blocks(header, heaplimit)
  BY DEF Inv, HeapInv
<1>2. freelist \in Seq(Free(header)) /\ Len(freelist) \in Nat /\ DOMAIN freelist = 1 .. Len(freelist)
  BY <1>1 DEF Lists
<1>3. Range(freelist) = Free(header)
  <2>1. \A i \in 1 .. Len(freelist) : freelist[i] \in Free(header)
    BY <1>2
  <2> QED
    BY <1>1, <1>2, <2>1 DEF Range, Lists
<1>4. Free(header) = DOMAIN header \ Objects
  BY DEF Free, Objects
<1>5. \A i \in 1 .. Len(freelist) - 1 : freelist[i] < freelist[i + 1]
  <2>1. \A i \in 1 .. Len(freelist) - 1 : /\ i \in 1 .. Len(freelist)
                                          /\ i + 1 \in 1 .. Len(freelist) /\ i < i + 1
    BY <1>2
  <2> QED
    BY <1>1, <2>1 DEF Lists
<1>6. heapfree = Cardinality(UNION {a .. a + header[a].size - 1 : a \in Range(freelist)})
  <2>1. FreeGrains(header) = UNION {a .. a + header[a].size - 1 : a \in Free(header)}
    <3>1. \A a \in Free(header) : a .. End(header, a) - 1 = a .. a + header[a].size - 1
      <4>1. ASSUME NEW a \in Free(header)
            PROVE  a .. End(header, a) - 1 = a .. a + header[a].size - 1
        <5>1. PICK size \in Nat : header[a].size = size
          BY <1>1 DEF Free, Blocks, Headers
        <5>2. a \in Nat /\ End(header, a) = a + size
          BY <1>1, <5>1 DEF End, Free, Blocks
        <5> QED
          BY <5>1, <5>2
      <4> QED
        BY <4>1
    <3>2. FreeGrains(header) = UNION {a .. End(header, a) - 1 : a \in Free(header)}
      BY DEF FreeGrains
    <3> QED
      BY <3>1, <3>2
  <2>2. FreeGrains(header) = UNION {a .. a + header[a].size - 1 : a \in Range(freelist)}
    BY ONLY <1>3, <2>1, Zenon
  <2> QED
    BY ONLY <1>1, <2>2, Zenon
<1> QED
  BY <1>3, <1>4, <1>5, <1>6 DEF FreeListIsAccurate

LEMMA StepKeepsReachable ==
    Inv /\ [Next]_vars =>
       \A a \in reach \cap reach' :
          a \in Objects /\ a \in DOMAIN header' /\ header'[a] = header[a]
BY StepKeepsHeap DEF Inv, HeapInv, Preserved

(* Only a thread's own collection decides whether it searches again.       *)
LEMMA OthersLeaveIt ==
    ASSUME Inv, [Next]_vars, NEW t \in Threads, pc[t] = "failed", state = 0
    PROVE  case0(t) \/ (pc'[t] = pc[t] /\ state' = state)
<1>0. /\ pc \in [Threads -> {"java", "lock", "search", "failed", "finalizers",
                             "unlock", "crashed"}]
      /\ \A u \in Threads : pc[u] \in {"search", "failed", "unlock"} => heap_lock = u
      /\ Nil \notin Threads /\ heap_lock = t
  BY HeapAssumption DEF Inv, CallInv
<1>1. CASE UNCHANGED <<state, pc>>
  BY <1>1
<1>2. ASSUME NEW u \in Threads, NEW size \in Requests, gcMalloc(u, size)
      PROVE  pc'[t] = pc[t] /\ state' = state
  BY <1>0, <1>2 DEF gcMalloc, Goto
<1>3. ASSUME NEW u \in Threads, lockHeap(u) PROVE pc'[t] = pc[t] /\ state' = state
  BY <1>0, <1>3 DEF lockHeap
<1>4. ASSUME NEW u \in Threads, search(u) PROVE FALSE
  BY <1>0, <1>4 DEF search
<1>5. ASSUME NEW u \in Threads, case0(u) PROVE u = t
  BY <1>0, <1>5 DEF case0
<1>6. ASSUME NEW u \in Threads,
             case1(u) \/ case2(u) \/ crash(u) \/ case2AtMaximum(u) \/ case3(u)
      PROVE  FALSE
  BY <1>6 DEF case1, case2, crash, case2AtMaximum, case3
<1>7. ASSUME NEW u \in Threads, NEW res \in BOOLEAN, runFinalizers(u, res) PROVE FALSE
  BY <1>0, <1>7 DEF runFinalizers
<1>8. ASSUME NEW u \in Threads, unlockHeap(u) PROVE FALSE
  BY <1>0, <1>8 DEF unlockHeap
<1>9. CASE (\E u \in Threads : gc1(u)) \/ (\E a \in reach : drop(a)) \/ UNCHANGED vars
  BY <1>1, <1>9 DEF gc1, drop, vars
<1> QED
  BY <1>2, <1>3, <1>4, <1>5, <1>6, <1>7, <1>8, <1>9 DEF Next, Call

LEMMA StepFindsLargest ==
    ASSUME Inv, [Next]_vars, NEW t \in Threads, pc[t] = "failed", state = 0,
           <<pc[t], state>>' # <<pc[t], state>>
    PROVE  state' = 0 <=> Fits(n[t])' # {}
<1>1. case0(t)
  BY OthersLeaveIt
<1>2. PICK marked \in Marks :
         /\ doSweep(Swept(marked))
         /\ n[t] <= Swept(marked).largest => state' = 0
         /\ ~(n[t] <= Swept(marked).largest) => state' = 1
  BY <1>1 DEF case0
<1>a. PICK s : s = Swept(marked)
  OBVIOUS
<1>b. /\ doSweep(s)
      /\ n[t] <= s.largest => state' = 0
      /\ ~(n[t] <= s.largest) => state' = 1
  BY <1>2, <1>a
<1>3. reach' = reach /\ n' = n
  BY <1>1 DEF case0
<1>4. IsSwept(marked, s)
  BY <1>a, <1>b, <1>3, SweepKeeps DEF Inv
<1>5. header' = s.header /\ freelist' = s.list /\ chunkpp' = 1
  BY <1>b DEF doSweep
<1>6. PICK size \in Nat \ {0} : size = n[t]
  <2>1. pc[t] # "java"
    OBVIOUS
  <2>2. n[t] \in Requests
    BY <2>1 DEF Inv, CallInv
  <2> QED
    BY <2>2, HeapAssumption
<1>7. Fits(n[t])' = {i \in 1 .. Len(s.list) : s.header[s.list[i]].size >= size}
  <2>1. Fits(n[t])' = {i \in chunkpp' .. Len(freelist') : header'[freelist'[i]].size >= n'[t]}
    BY DEF Fits
  <2> QED
    BY <1>3, <1>5, <1>6, <2>1
<1>8. /\ Lists(s.list, s.header) /\ s.largest \in Nat
      /\ \A a \in Free(s.header) : s.header[a].size <= s.largest /\ s.header[a].size \in Nat
      /\ s.largest = 0 \/ \E a \in Free(s.header) : s.header[a].size = s.largest
  BY <1>4 DEF IsSwept, Blocks, Headers, Free
<1>9. CASE size <= s.largest
  <2>1. PICK a \in Free(s.header) : s.header[a].size = s.largest
    BY <1>8, <1>9
  <2>2. PICK i \in 1 .. Len(s.list) : s.list[i] = a
    BY <1>8 DEF Lists
  <2>3. i \in Fits(n[t])'
    BY <1>7, <1>8, <1>9, <2>1, <2>2
  <2> QED
    BY <1>b, <1>6, <1>9, <2>3
<1>10. CASE ~(size <= s.largest)
  <2>1. ASSUME NEW i \in 1 .. Len(s.list) PROVE ~(s.header[s.list[i]].size >= size)
    <3>1. s.list[i] \in Free(s.header)
      BY <1>8 DEF Lists
    <3> QED
      BY <1>8, <1>10, <3>1
  <2> QED
    BY <1>b, <1>6, <1>7, <1>10, <2>1
<1> QED
  BY <1>9, <1>10

(* Walking the heap from header to header ends at heaplimit, whatever was  *)
(* allocated, swept, merged, split and added (gcMalloc, doSweep,           *)
(* expandHeap), and the variables keep their types.                        *)
THEOREM HeapStaysTiled == Spec => []HeapIsTiled
<1>1. Inv => HeapIsTiled
  BY InvIsTiled
<1> QED
  BY <1>1, Invariance, PTL

(* The list has the free chunks, all of them, in the order of their        *)
(* addresses, and heapfree is the number of grains in them.                *)
THEOREM FreeListStaysAccurate == Spec => []FreeListIsAccurate
<1>1. Inv => FreeListIsAccurate
  BY InvListsFree
<1> QED
  BY <1>1, Invariance, PTL

(* No step frees what the program reaches, cuts it, or gives part of it    *)
(* out again.                                                              *)
THEOREM ReachableStay == Spec => ReachableAreKept
<1>1. Inv /\ [Next]_vars =>
         [\A a \in reach \cap reach' :
             a \in Objects /\ a \in DOMAIN header' /\ header'[a] = header[a]]_vars
  BY StepKeepsReachable
<1> QED
  BY <1>1, Invariance, PTL DEF Spec, ReachableAreKept

(* gcMalloc searches again after a collection exactly when there is a      *)
(* chunk that is large enough: doSweep returns the size of the largest.    *)
THEOREM SweepFindsLargest == Spec => LargestIsRight
<1>1. Inv /\ [Next]_vars =>
         [\A t \in Threads :
             pc[t] = "failed" /\ state = 0 /\ <<pc[t], state>>' # <<pc[t], state>> =>
                (state' = 0 <=> Fits(n[t])' # {})]_vars
  BY StepFindsLargest
<1> QED
  BY <1>1, Invariance, PTL DEF Spec, LargestIsRight

===============================================================================
