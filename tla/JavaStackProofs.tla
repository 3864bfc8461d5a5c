--------------------------- MODULE JavaStackProofs ---------------------------
(***************************************************************************)
(* Proofs about JavaStack for every set of methods and objects, every size *)
(* of header and stack and every depth of calls: what the functions of     *)
(* interp.c, execute.c and jni.c leave behind is a stack in which no frame *)
(* header is overwritten, whose words in use the collector finds, whose    *)
(* frames match the C functions that wait for them.  If no method that is  *)
(* synchronized on its receiver stores to local variable 0, every lock is  *)
(* released as often as it was taken, too.                                 *)
(*                                                                         *)
(* The invariant has four parts.  The frames tile the stack (FramesOK).    *)
(* They are cut into pieces, one for each C function that is active: L     *)
(* gives the last frame of each (Chain).  A function that executeMethod    *)
(* called owns the frames from the first dummy frame below its last one, a *)
(* native method that the interpreter invoked owns one frame.  The locks   *)
(* and the dummy frames are counted.  All of it is stated of any frames fs *)
(* and calls cs, so that lemmas can be about those of the next state.      *)
(***************************************************************************)
EXTENDS JavaStack, FiniteSetTheorems, TLAPS

Lockable == Objects \cup {Class}

FrameRecords == [mb : Methods \cup {"thread", Nil}, lvars : Nat, prev : Nat \cup {Nil},
                 local0 : Objects \cup {Nil}, sync : Lockable \cup {Nil},
                 next : Nat \cup {Nil}, caught : BOOLEAN]

CallRecords == [kind : {"java", "native"}, at : {"run", "call", "signal", "throw", "unwind"},
                frame : Nat, sp : Nat, this : Objects \cup {Nil},
                by : {"thread", "execute", "invoke"}, sync : Lockable \cup {Nil}]

(* Where the operands of frame f end.                                      *)
End(fs, f) == Ostack(f) + MaxStackOf(fs[f].mb)

(* A frame lies above the operands of the one before it, which is the next *)
(* below, and its local variables lie in between.  C code is called by     *)
(* Java code and by C code, through a dummy frame.                         *)
FrameOK(fs, f) ==
    LET p == fs[f].prev
        m == fs[f].mb
    IN
    /\ p \in DOMAIN fs /\ Ostack(p) <= f
    /\ \A g \in DOMAIN fs : g < f => g <= p
    /\ m = Nil => fs[p].mb # Nil /\ f = End(fs, p) /\ fs[f].sync = Nil
    /\ m # Nil =>
          /\ m \in Methods /\ fs[p].mb \in (Methods \ NativeMethods) \cup {Nil}
          /\ Ostack(p) <= fs[f].lvars /\ fs[f].lvars <= f
          /\ fs[p].mb # Nil => fs[f].lvars <= End(fs, p)
          /\ m \notin NativeMethods => fs[f].lvars + MaxLocals[m] <= f
          /\ m \in NativeMethods => fs[f].next \in Nat /\ fs[f].next <= f

(* What was locked for a frame is what sync_ob finds in local variable 0,  *)
(* and what it finds in the register this of whoever interprets frame l.   *)
SyncOK(frame) ==
    ThisIsKept /\ frame.mb \in Methods => frame.sync = sync_ob(frame.mb, frame.local0)

ThisOK(fs, c, l) == ThisIsKept => fs[l].sync = sync_ob(fs[l].mb, c.this)

FramesTyped(fs) ==
    /\ DOMAIN fs \subseteq Nat /\ IsFiniteSet(DOMAIN fs)
    /\ fs \in [DOMAIN fs -> FrameRecords]
    /\ Base \in DOMAIN fs
    /\ fs[Base].mb = "thread" /\ fs[Base].prev = Nil /\ fs[Base].sync = Nil
    /\ \A f \in DOMAIN fs : SyncOK(fs[f]) /\ (fs[f].caught => fs[f].mb \in Handlers)

FramesOK(fs) == FramesTyped(fs) /\ \A f \in DOMAIN fs \ {Base} : FrameOK(fs, f)

IsLast(fs, t) == t \in DOMAIN fs /\ \A f \in DOMAIN fs : f <= t

(* A C function c that waits for Java code to return, or the interpreter:  *)
(* l is its last frame and m that of its caller; d is the dummy frame of   *)
(* the executeMethod that called it.                                       *)
ExecutedFrom(fs, c, l, m, d) ==
    /\ d < l /\ fs[d].prev = m /\ fs[d].mb = Nil
    /\ \A g \in DOMAIN fs : d < g /\ g <= l =>
          /\ fs[g].mb \in Methods
          /\ fs[g].mb \in NativeMethods <=> c.kind = "native"
          /\ fs[g].prev = d => fs[g].sync = c.sync
    /\ c.kind = "native" => fs[l].prev = d
    /\ c.kind = "java" => d < c.frame

CallOK(fs, c, l, m) ==
    /\ c.by \in {"execute", "invoke"} /\ l \in DOMAIN fs /\ m \in DOMAIN fs /\ m < l
    /\ c.by = "execute" => \E d \in DOMAIN fs : ExecutedFrom(fs, c, l, m, d)
    /\ c.by = "invoke" =>
          /\ c.kind = "native" /\ fs[l].mb \in NativeMethods
          /\ fs[l].prev = m /\ fs[l].sync = c.sync
    /\ c.kind = "native" => fs[l].prev < c.frame /\ c.frame <= l
    /\ c.kind = "java" => c.frame \in DOMAIN fs /\ c.frame <= l

(* What the interpreter has in its registers, and what lies above.         *)
StateOK(fs, c, l) ==
    /\ c.kind = "native" => c.at = "run"
    /\ c.kind = "java" /\ c.at # "unwind" => c.frame = l
    /\ c.kind = "java" /\ c.at \in {"run", "call", "signal"} =>
          /\ Ostack(l) <= c.sp /\ c.sp <= End(fs, l) /\ ThisOK(fs, c, l)
          /\ \A h \in DOMAIN fs : h > l => h >= c.sp

(* The thread itself, below all calls.                                     *)
ThreadCall == [kind |-> "native", at |-> "run", frame |-> Base, sp |-> Base, this |-> Nil,
               by |-> "thread", sync |-> Nil]

(* What the caller c of u waits for.                                       *)
PairOK(u, c) ==
    /\ u.by = "invoke" => c.kind = "java" /\ c.at = "run"
    /\ u.by = "execute" /\ c.kind = "java" => c.at \in {"call", "signal"}

Chain(fs, cs, t, L) ==
    /\ L \in [1..Len(cs) -> Nat]
    /\ L[1] = t /\ L[Len(cs)] = Base /\ cs[Len(cs)] = ThreadCall
    /\ \A j, k \in 1..Len(cs) : j < k => L[k] < L[j]
    /\ \A k \in 1..(Len(cs) - 1) :
          CallOK(fs, cs[k], L[k], L[k + 1]) /\ StateOK(fs, cs[k], L[k]) /\ PairOK(cs[k], cs[k + 1])

CallsOK(fs, cs, t) == cs \in Seq(CallRecords) /\ Len(cs) > 0 /\ \E L : Chain(fs, cs, t, L)

(* Up to which frame objects are locked.                                   *)
LockTop(cs, t) == IF cs[1].kind = "java" /\ cs[1].at = "unwind" THEN cs[1].frame ELSE t

Held(fs, t, o) == {f \in DOMAIN fs : f <= t /\ fs[f].sync = o}

LocksOK(fs, t, lk) ==
    /\ lk \in [Lockable -> Nat]
    /\ ThisIsKept => \A o \in Lockable : lk[o] = Cardinality(Held(fs, t, o))

Dummies(fs) == {f \in DOMAIN fs : fs[f].mb = Nil}
Executions(cs) == {k \in 1..Len(cs) : cs[k].by = "execute"}

Counted(fs, cs) == Cardinality(Dummies(fs)) = Cardinality(Executions(cs))

StackOK(fs, t, cs, lk) ==
    /\ FramesOK(fs) /\ IsLast(fs, t)
    /\ CallsOK(fs, cs, t)
    /\ LocksOK(fs, LockTop(cs, t), lk)
    /\ Counted(fs, cs)

JInv == StackOK(frames, last, calls, locked) /\ stackEnd \in Nat /\ exception \in BOOLEAN

-----------------------------------------------------------------------------
(* Types, and what changes elsewhere leave alone.                          *)

(* Constants in the form the proofs use.                                   *)
LEMMA Constants ==
    /\ HeaderSize \in Nat /\ HeaderSize > 0 /\ LIST_INCR \in Nat /\ LIST_INCR >= HeaderSize
    /\ Nil \notin Nat /\ Nil \notin Methods /\ Nil \notin Lockable /\ Nil # "thread"
    /\ "thread" \notin Methods /\ NativeMethods \subseteq Methods
    /\ Handlers \subseteq Methods \ NativeMethods
    /\ Overwrites \subseteq Methods \ NativeMethods
    /\ \A m \in Methods : MaxLocals[m] \in Nat /\ MaxStack[m] \in Nat /\ ArgsCount[m] \in Nat
                          /\ ArgsCount[m] <= MaxLocals[m]
    /\ \A m \in NativeMethods : MaxStack[m] = 0 /\ MaxLocals[m] = ArgsCount[m]
    /\ \A m \in Handlers : MaxStack[m] > 0
BY StackAssumption DEF StackAssumption, Lockable

(* The fields of a frame.                                                  *)
LEMMA FrameFields ==
    ASSUME NEW fs, FramesTyped(fs), NEW f \in DOMAIN fs
    PROVE  /\ f \in Nat /\ fs[f] \in FrameRecords
           /\ fs[f].mb \in Methods \cup {"thread", Nil} /\ fs[f].lvars \in Nat
           /\ fs[f].prev \in Nat \cup {Nil} /\ fs[f].sync \in Lockable \cup {Nil}
           /\ fs[f].next \in Nat \cup {Nil} /\ fs[f].caught \in BOOLEAN
           /\ fs[f].local0 \in Objects \cup {Nil}
BY DEF FramesTyped, FrameRecords

LEMMA EndIsAbove ==
    ASSUME NEW fs, FramesTyped(fs), NEW f \in DOMAIN fs
    PROVE  /\ Ostack(f) \in Nat /\ End(fs, f) \in Nat /\ f < Ostack(f) /\ Ostack(f) <= End(fs, f)
           /\ MaxStackOf(fs[f].mb) \in Nat
BY FrameFields, Constants DEF Ostack, End, MaxStackOf

(* The fields of the record of a call.                                     *)
LEMMA CallFields ==
    ASSUME NEW c \in CallRecords
    PROVE  /\ c.kind \in {"java", "native"}
           /\ c.at \in {"run", "call", "signal", "throw", "unwind"}
           /\ c.frame \in Nat /\ c.sp \in Nat /\ c.by \in {"thread", "execute", "invoke"}
           /\ c.sync \in Lockable \cup {Nil} /\ c.this \in Objects \cup {Nil}
BY DEF CallRecords

(* What sync_ob finds, and that it asks for local variable 0 only if the   *)
(* method is one that is synchronized on its receiver.                     *)
LEMMA SyncObType ==
    ASSUME NEW m \in Methods, NEW o \in Objects \cup {Nil}
    PROVE  /\ sync_ob(m, o) \in Lockable \cup {Nil}
           /\ Synchronized[m] # "instance" => \A b : sync_ob(m, b) = sync_ob(m, o)
<1>1. Synchronized[m] \in {"no", "static", "instance"}
  BY StackAssumption DEF StackAssumption
<1> QED
  BY <1>1 DEF sync_ob, Lockable

(* The frame before another one.                                           *)
LEMMA Before ==
    ASSUME NEW fs, FramesOK(fs), NEW f \in DOMAIN fs, f # Base
    PROVE  /\ fs[f].prev \in DOMAIN fs /\ fs[f].prev \in Nat /\ f \in Nat /\ fs[f].prev < f
           /\ fs[f].prev # Nil /\ Ostack(fs[f].prev) <= f /\ Ostack(fs[f].prev) \in Nat
           /\ \A g \in DOMAIN fs : g < f => g <= fs[f].prev
           /\ FrameOK(fs, f)
<1>1. FrameOK(fs, f) /\ FramesTyped(fs)
  BY DEF FramesOK
<1>2. fs[f].prev \in DOMAIN fs /\ Ostack(fs[f].prev) <= f
      /\ \A g \in DOMAIN fs : g < f => g <= fs[f].prev
  BY <1>1 DEF FrameOK
<1>3. fs[f].prev \in Nat /\ f \in Nat
  BY <1>1, <1>2, FrameFields
<1>4. Ostack(fs[f].prev) \in Nat /\ fs[f].prev < Ostack(fs[f].prev)
  BY <1>1, <1>2, EndIsAbove
<1>5. fs[f].prev # Nil
  BY <1>3, Constants
<1> QED
  BY <1>1, <1>2, <1>3, <1>4, <1>5

(* Two stacks that have the same frames up to x, except for the handlers   *)
(* in range.                                                               *)
Same(fs, gs, x) ==
    \A f \in Nat : f <= x =>
       /\ f \in DOMAIN fs <=> f \in DOMAIN gs
       /\ f \in DOMAIN fs =>
             /\ gs[f].mb = fs[f].mb /\ gs[f].lvars = fs[f].lvars /\ gs[f].prev = fs[f].prev
             /\ gs[f].sync = fs[f].sync /\ gs[f].next = fs[f].next

LEMMA SameFrameOK ==
    ASSUME NEW fs, NEW gs, FramesTyped(fs), DOMAIN gs \subseteq Nat, NEW f \in DOMAIN fs,
           Same(fs, gs, f), FrameOK(fs, f)
    PROVE  FrameOK(gs, f)
<1> DEFINE p == fs[f].prev
<1>1. f \in Nat /\ p \in DOMAIN fs /\ Ostack(p) <= f
  BY FrameFields DEF FrameOK
<1>2. p \in Nat /\ p < f /\ p <= f
  BY <1>1, EndIsAbove, FrameFields
<1>3. /\ f \in DOMAIN gs /\ gs[f].mb = fs[f].mb /\ gs[f].lvars = fs[f].lvars
      /\ gs[f].prev = p /\ gs[f].sync = fs[f].sync /\ gs[f].next = fs[f].next
  BY <1>1 DEF Same
<1>4. p \in DOMAIN gs /\ gs[p].mb = fs[p].mb
  BY <1>1, <1>2 DEF Same
<1>5. \A g \in DOMAIN gs : g < f => g \in DOMAIN fs
  BY <1>1 DEF Same
<1>6. End(gs, p) = End(fs, p)
  BY <1>4 DEF End
<1> HIDE DEF p
<1> QED
  BY <1>1, <1>3, <1>4, <1>5, <1>6 DEF FrameOK, p

LEMMA SameCallOK ==
    ASSUME NEW fs, NEW gs, FramesTyped(fs), DOMAIN gs \subseteq Nat, NEW c \in CallRecords,
           NEW b \in CallRecords, b.by = c.by, b.kind = c.kind, b.frame = c.frame,
           b.sync = c.sync, NEW l, NEW m, CallOK(fs, c, l, m), Same(fs, gs, l)
    PROVE  CallOK(gs, b, l, m)
<1>1. l \in DOMAIN fs /\ m \in DOMAIN fs /\ m < l /\ l \in Nat /\ m \in Nat /\ m <= l
  BY FrameFields DEF CallOK
<1>2. /\ l \in DOMAIN gs /\ gs[l].mb = fs[l].mb /\ gs[l].prev = fs[l].prev
      /\ gs[l].sync = fs[l].sync /\ m \in DOMAIN gs
  BY <1>1 DEF Same
<1>3. ASSUME c.by = "execute" PROVE \E d \in DOMAIN gs : ExecutedFrom(gs, b, l, m, d)
  <2>1. PICK d \in DOMAIN fs : ExecutedFrom(fs, c, l, m, d)
    BY <1>3 DEF CallOK
  <2>2. d \in Nat /\ d < l /\ d <= l
    BY <1>1, <2>1, FrameFields DEF ExecutedFrom
  <2>3. d \in DOMAIN gs /\ gs[d].prev = fs[d].prev /\ gs[d].mb = fs[d].mb
    BY <2>2, <1>1 DEF Same
  <2>4. \A g \in DOMAIN gs : g <= l => /\ g \in DOMAIN fs /\ gs[g].mb = fs[g].mb
                                       /\ gs[g].prev = fs[g].prev /\ gs[g].sync = fs[g].sync
    BY DEF Same
  <2>5. ExecutedFrom(gs, b, l, m, d)
    BY <2>1, <2>2, <2>3, <2>4, <1>2 DEF ExecutedFrom
  <2> QED
    BY <2>3, <2>5
<1>4. c.kind = "java" => c.frame \in DOMAIN gs
  BY <1>1, CallFields DEF CallOK, Same
<1> QED
  BY <1>1, <1>2, <1>3, <1>4 DEF CallOK

(* The frames are the same, word for word, but for the handlers.           *)
SameFrames(fs, gs) ==
    /\ DOMAIN gs = DOMAIN fs
    /\ \A f \in DOMAIN fs : /\ gs[f].mb = fs[f].mb /\ gs[f].lvars = fs[f].lvars
                            /\ gs[f].prev = fs[f].prev /\ gs[f].sync = fs[f].sync
                            /\ gs[f].next = fs[f].next

LEMMA AtInstructionKeeps ==
    ASSUME NEW fs, FramesOK(fs), NEW f \in DOMAIN fs, NEW gs \in AtInstruction(fs, f)
    PROVE  FramesOK(gs) /\ SameFrames(fs, gs)
<1>1. PICK c \in (IF fs[f].mb \in Handlers THEN BOOLEAN ELSE {FALSE}) :
          gs = [fs EXCEPT ![f].caught = c]
  BY DEF AtInstruction
<1>2. FramesTyped(fs)
  BY DEF FramesOK
<1>3. DOMAIN gs = DOMAIN fs
  BY <1>1
<1>4. ASSUME NEW g \in DOMAIN fs
      PROVE  /\ gs[g] \in FrameRecords
             /\ gs[g].mb = fs[g].mb /\ gs[g].lvars = fs[g].lvars /\ gs[g].prev = fs[g].prev
             /\ gs[g].sync = fs[g].sync /\ gs[g].next = fs[g].next
             /\ gs[g].local0 = fs[g].local0
             /\ gs[g].caught => gs[g].mb \in Handlers
  <2>1. fs[g] \in FrameRecords /\ (fs[g].caught => fs[g].mb \in Handlers)
    BY <1>2, FrameFields DEF FramesTyped
  <2>2. CASE g = f
    <3>1. gs[g] = [fs[f] EXCEPT !.caught = c]
      BY <1>1, <2>2
    <3>2. c \in BOOLEAN /\ (c => fs[f].mb \in Handlers)
      BY <1>1
    <3> QED
      BY <2>1, <2>2, <3>1, <3>2 DEF FrameRecords
  <2>3. CASE g # f
    BY <1>1, <2>1, <2>3
  <2> QED
    BY <2>2, <2>3
<1>5. gs \in [DOMAIN gs -> FrameRecords]
  <2>1. gs = [g \in DOMAIN fs |-> gs[g]]
    BY <1>1, <1>3
  <2> QED
    BY <1>3, <1>4, <2>1
<1>6. SameFrames(fs, gs)
  BY <1>3, <1>4 DEF SameFrames
<1>7. FramesTyped(gs)
  <2>1. \A g \in DOMAIN gs : SyncOK(gs[g])
    BY <1>2, <1>3, <1>4 DEF FramesTyped, SyncOK
  <2> QED
    BY <1>2, <1>3, <1>4, <1>5, <2>1 DEF FramesTyped
<1>8. ASSUME NEW x \in Nat PROVE Same(fs, gs, x)
  BY <1>3, <1>4 DEF Same
<1>9. ASSUME NEW g \in DOMAIN gs \ {Base} PROVE FrameOK(gs, g)
  BY <1>2, <1>3, <1>8, SameFrameOK, FrameFields DEF FramesOK, FramesTyped
<1> QED
  BY <1>6, <1>7, <1>9 DEF FramesOK

LEMMA SameUpTo ==
    ASSUME NEW fs, NEW gs, SameFrames(fs, gs), NEW x
    PROVE  Same(fs, gs, x)
BY DEF Same, SameFrames

(* The frames above f are popped.                                          *)
LEMMA UpToKeeps ==
    ASSUME FramesOK(frames), NEW f \in DOMAIN frames
    PROVE  /\ FramesOK(UpTo(f)) /\ IsLast(UpTo(f), f) /\ Same(frames, UpTo(f), f)
           /\ \A h : h \in DOMAIN UpTo(f) <=> h \in DOMAIN frames /\ h <= f
           /\ \A h \in DOMAIN UpTo(f) : UpTo(f)[h] = frames[h]
<1> DEFINE gs == UpTo(f)
<1>1. FramesTyped(frames) /\ f \in Nat /\ DOMAIN frames \subseteq Nat
  BY FrameFields DEF FramesOK, FramesTyped
<1>2. DOMAIN gs = {h \in DOMAIN frames : h <= f} /\ \A h \in DOMAIN gs : gs[h] = frames[h]
  BY DEF UpTo
<1>3. gs = [h \in DOMAIN gs |-> gs[h]]
  BY DEF UpTo
<1> HIDE DEF gs
<1>4. Same(frames, gs, f)
  BY <1>1, <1>2 DEF Same
<1>5. IsFiniteSet(DOMAIN gs)
  BY <1>1, <1>2, FS_Subset DEF FramesTyped
<1>6. gs \in [DOMAIN gs -> FrameRecords]
  BY <1>1, <1>2, <1>3, FrameFields
<1>7. Base \in DOMAIN gs
  BY <1>1, <1>2 DEF FramesTyped, Base
<1>8. FramesTyped(gs)
  BY <1>1, <1>2, <1>5, <1>6, <1>7 DEF FramesTyped
<1>9. ASSUME NEW h \in DOMAIN gs \ {Base} PROVE FrameOK(gs, h)
  <2>1. Same(frames, gs, h)
    BY <1>1, <1>2 DEF Same
  <2> QED
    BY <1>1, <1>2, <2>1, SameFrameOK DEF FramesOK
<1>10. IsLast(gs, f)
  BY <1>1, <1>2 DEF IsLast
<1> QED
  BY <1>2, <1>4, <1>8, <1>9, <1>10 DEF FramesOK, gs

-----------------------------------------------------------------------------
(* The sequence of calls: one is added, goes on with another record, or is *)
(* taken away.                                                             *)
LEMMA Pushed ==
    ASSUME NEW S, NEW s \in Seq(S), NEW x \in S
    PROVE  LET ds == <<x>> \o s IN
           /\ ds \in Seq(S) /\ Len(ds) = Len(s) + 1 /\ ds[1] = x
           /\ \A k \in 1..Len(s) : ds[k + 1] = s[k]
OBVIOUS

LEMMA Replaced ==
    ASSUME NEW S, NEW s \in Seq(S), Len(s) > 0, NEW x \in S
    PROVE  LET ds == <<x>> \o Tail(s) IN
           /\ ds \in Seq(S) /\ Len(ds) = Len(s) /\ ds[1] = x
           /\ \A k \in 2..Len(s) : ds[k] = s[k]
<1>1. s # << >> /\ Tail(s) \in Seq(S) /\ Len(Tail(s)) = Len(s) - 1
      /\ \A k \in 1..(Len(s) - 1) : Tail(s)[k] = s[k + 1]
  OBVIOUS
<1> DEFINE r == Tail(s)
<1> HIDE DEF r
<1>2. /\ <<x>> \o r \in Seq(S) /\ Len(<<x>> \o r) = Len(r) + 1 /\ (<<x>> \o r)[1] = x
      /\ \A k \in 1..Len(r) : (<<x>> \o r)[k + 1] = r[k]
  BY <1>1, Pushed DEF r
<1>3. ASSUME NEW k \in 2..Len(s) PROVE (<<x>> \o r)[k] = s[k]
  <2>1. k - 1 \in 1..Len(r) /\ (k - 1) + 1 = k /\ k - 1 \in 1..(Len(s) - 1)
    BY <1>1, <1>3 DEF r
  <2>2. (<<x>> \o r)[(k - 1) + 1] = r[k - 1]
    BY <1>2, <2>1
  <2>3. r[k - 1] = s[(k - 1) + 1]
    BY <1>1, <2>1 DEF r
  <2> QED
    BY <2>1, <2>2, <2>3
<1> QED
  BY <1>1, <1>2, <1>3 DEF r

LEMMA Popped ==
    ASSUME NEW S, NEW s \in Seq(S), Len(s) > 1, NEW x \in S
    PROVE  LET ds == <<x>> \o Tail(Tail(s)) IN
           /\ ds \in Seq(S) /\ Len(ds) = Len(s) - 1 /\ ds[1] = x
           /\ \A k \in 2..(Len(s) - 1) : ds[k] = s[k + 1]
<1>1. s # << >> /\ Tail(s) \in Seq(S) /\ Len(Tail(s)) = Len(s) - 1
      /\ \A k \in 1..(Len(s) - 1) : Tail(s)[k] = s[k + 1]
  OBVIOUS
<1> DEFINE r == Tail(s)
<1> HIDE DEF r
<1>2. r \in Seq(S) /\ Len(r) = Len(s) - 1 /\ Len(r) > 0 /\ Len(s) \in Nat
      /\ \A k \in 1..(Len(s) - 1) : r[k] = s[k + 1]
  BY <1>1 DEF r
<1>3. /\ <<x>> \o Tail(r) \in Seq(S) /\ Len(<<x>> \o Tail(r)) = Len(r)
      /\ (<<x>> \o Tail(r))[1] = x /\ \A k \in 2..Len(r) : (<<x>> \o Tail(r))[k] = r[k]
  BY <1>2, Replaced
<1>4. ASSUME NEW k \in 2..(Len(s) - 1) PROVE (<<x>> \o Tail(r))[k] = s[k + 1]
  <2>1. k \in 2..Len(r) /\ k \in 1..(Len(s) - 1)
    BY <1>2
  <2> QED
    BY <1>2, <1>3, <2>1
<1>5. /\ <<x>> \o Tail(r) \in Seq(S) /\ Len(<<x>> \o Tail(r)) = Len(s) - 1
      /\ (<<x>> \o Tail(r))[1] = x /\ \A k \in 2..(Len(s) - 1) : (<<x>> \o Tail(r))[k] = s[k + 1]
  BY <1>2, <1>3, <1>4
<1> QED
  BY <1>5 DEF r

(* The chain of last frames when executeMethod or a native method is added *)
(* to the calls.                                                           *)
LEMMA ChainPush ==
    ASSUME NEW fs, NEW gs, FramesTyped(fs), DOMAIN gs \subseteq Nat,
           NEW cs \in Seq(CallRecords), Len(cs) > 0, NEW t \in DOMAIN fs, IsLast(fs, t),
           NEW L, Chain(fs, cs, t, L), Same(fs, gs, t),
           NEW ds \in Seq(CallRecords), Len(ds) = Len(cs) + 1,
           \A k \in 1..Len(cs) : ds[k + 1] = cs[k],
           NEW u \in Nat, CallOK(gs, ds[1], u, t), StateOK(gs, ds[1], u),
           StateOK(gs, cs[1], t), PairOK(ds[1], cs[1])
    PROVE  CallsOK(gs, ds, u)
<1> DEFINE M == [k \in 1..Len(ds) |-> IF k = 1 THEN u ELSE L[k - 1]]
<1>1. Len(cs) \in Nat /\ t \in Nat /\ \A k \in 1..Len(cs) : L[k] \in Nat /\ L[k] <= t
      /\ (k > 1 => L[k] < t)
  <2>1. Len(cs) \in Nat /\ t \in Nat /\ 1 \in 1..Len(cs)
    BY FrameFields
  <2>2. L[1] = t /\ L \in [1..Len(cs) -> Nat]
        /\ \A j, k \in 1..Len(cs) : j < k => L[k] < L[j]
    BY DEF Chain
  <2>3. ASSUME NEW k \in 1..Len(cs) PROVE L[k] \in Nat /\ L[k] <= t /\ (k > 1 => L[k] < t)
    <3>1. L[k] \in Nat
      BY <2>2
    <3>2. CASE k = 1
      BY <2>1, <2>2, <3>2
    <3>3. CASE k # 1
      <4>1. 1 < k
        BY <2>1, <3>3
      <4>2. L[k] < t
        BY <2>1, <2>2, <4>1
      <4> QED
        BY <2>1, <3>1, <4>2
    <3> QED
      BY <3>2, <3>3
  <2> QED
    BY <2>1, <2>3
<1>2. M \in [1..Len(ds) -> Nat] /\ M[1] = u /\ \A k \in 1..Len(cs) : M[k + 1] = L[k]
  BY <1>1 DEF Chain
<1> HIDE DEF M
<1>3. t < u
  BY DEF CallOK
<1>4. M[Len(ds)] = Base /\ ds[Len(ds)] = ThreadCall
  BY <1>1, <1>2 DEF Chain
<1>5. ASSUME NEW j \in 1..Len(ds), NEW k \in 1..Len(ds), j < k PROVE M[k] < M[j]
  <2>1. k - 1 \in 1..Len(cs) /\ M[k] = L[k - 1]
    BY <1>1, <1>2, <1>5
  <2>2. CASE j = 1
    BY <1>1, <1>2, <1>3, <2>1, <2>2
  <2>3. CASE j # 1
    <3>1. j - 1 \in 1..Len(cs) /\ M[j] = L[j - 1] /\ j - 1 < k - 1
      BY <1>1, <1>2, <1>5, <2>3
    <3> QED
      BY <2>1, <3>1 DEF Chain
  <2> QED
    BY <2>2, <2>3
<1>6. ASSUME NEW k \in 1..(Len(ds) - 1)
      PROVE  /\ CallOK(gs, ds[k], M[k], M[k + 1]) /\ StateOK(gs, ds[k], M[k])
             /\ PairOK(ds[k], ds[k + 1])
  <2>1. CASE k = 1
    <3>1. M[1 + 1] = t /\ ds[1 + 1] = cs[1]
      BY <1>1, <1>2 DEF Chain
    <3> QED
      BY <2>1, <3>1, <1>2
  <2>2. CASE k # 1
    <3> DEFINE j == k - 1
    <3>1. j \in 1..(Len(cs) - 1) /\ j \in 1..Len(cs) /\ j + 1 \in 1..Len(cs)
          /\ j + 1 = k /\ (j + 1) + 1 = k + 1
      BY <1>1, <1>6, <2>2
    <3> HIDE DEF j
    <3>2. ds[k] = cs[j] /\ ds[k + 1] = cs[j + 1] /\ M[k] = L[j] /\ M[k + 1] = L[j + 1]
      BY <1>2, <3>1
    <3>3. CallOK(fs, cs[j], L[j], L[j + 1]) /\ StateOK(fs, cs[j], L[j]) /\ PairOK(cs[j], cs[j + 1])
      BY <3>1 DEF Chain
    <3>4. Same(fs, gs, L[j])
      BY <1>1, <3>1 DEF Same
    <3>5. cs[j] \in CallRecords
      BY <3>1
    <3>6. CallOK(gs, cs[j], L[j], L[j + 1])
      BY <3>3, <3>4, <3>5, SameCallOK
    <3>7. StateOK(gs, cs[j], L[j])
      <4>1. CASE j = 1
        BY <4>1 DEF Chain
      <4>2. CASE j # 1
        <5>1. L[j] < t /\ L[j] \in Nat /\ L[j] \in DOMAIN fs /\ L[j] <= t
          BY <1>1, <3>1, <3>3, <4>2 DEF CallOK
        <5>2. End(gs, L[j]) = End(fs, L[j])
          BY <5>1 DEF Same, End
        <5>3. ASSUME cs[j].kind = "java", cs[j].at \in {"run", "call", "signal"},
                     NEW h \in DOMAIN gs, h > L[j]
              PROVE  h >= cs[j].sp
          <6>1. \A i \in DOMAIN fs : i > L[j] => i >= cs[j].sp
            BY <3>3, <5>3 DEF StateOK
          <6>2. h \in Nat /\ cs[j].sp \in Nat
            BY <3>5, CallFields
          <6>3. CASE h <= t
            BY <5>3, <6>1, <6>2, <6>3 DEF Same
          <6>4. CASE h > t
            BY <1>1, <5>1, <6>1, <6>2, <6>4
          <6> QED
            BY <1>1, <6>2, <6>3, <6>4
        <5>4. ASSUME cs[j].kind = "java", cs[j].at \in {"run", "call", "signal"}
              PROVE  ThisOK(gs, cs[j], L[j])
          <6>1. gs[L[j]].mb = fs[L[j]].mb /\ gs[L[j]].sync = fs[L[j]].sync
            BY <3>4, <5>1 DEF Same
          <6> QED
            BY <3>3, <5>4, <6>1 DEF StateOK, ThisOK
        <5> QED
          BY <3>3, <5>2, <5>3, <5>4 DEF StateOK
      <4> QED
        BY <4>1, <4>2
    <3> QED
      BY <3>2, <3>3, <3>6, <3>7
  <2> QED
    BY <2>1, <2>2
<1>7. Chain(gs, ds, u, M)
  BY <1>2, <1>4, <1>5, <1>6 DEF Chain
<1> QED
  BY <1>7 DEF CallsOK

(* ... when the innermost call goes on, on the same frame or another.      *)
LEMMA ChainStep ==
    ASSUME NEW fs, NEW gs, FramesTyped(fs), DOMAIN gs \subseteq Nat,
           NEW cs \in Seq(CallRecords), Len(cs) > 1, NEW t \in DOMAIN fs,
           NEW L, Chain(fs, cs, t, L), Same(fs, gs, L[2]),
           NEW ds \in Seq(CallRecords), Len(ds) = Len(cs),
           \A k \in 2..Len(cs) : ds[k] = cs[k], ds[1].by = cs[1].by,
           NEW u \in Nat, CallOK(gs, ds[1], u, L[2]), StateOK(gs, ds[1], u),
           \A h \in DOMAIN gs : h \in DOMAIN fs \/ h > t
    PROVE  CallsOK(gs, ds, u)
<1> DEFINE M == [L EXCEPT ![1] = u]
<1>1. /\ Len(cs) \in Nat /\ t \in Nat /\ 1 \in 1..Len(cs) /\ 2 \in 1..Len(cs)
      /\ \A k \in 1..Len(cs) : L[k] \in Nat /\ (k > 1 => L[k] < t /\ L[k] <= L[2])
  <2>1. Len(cs) \in Nat /\ t \in Nat /\ 1 \in 1..Len(cs) /\ 2 \in 1..Len(cs)
    BY FrameFields
  <2>2. L[1] = t /\ L \in [1..Len(cs) -> Nat]
        /\ \A j, k \in 1..Len(cs) : j < k => L[k] < L[j]
    BY DEF Chain
  <2>3. ASSUME NEW k \in 1..Len(cs), k > 1 PROVE L[k] <= L[2]
    <3>1. L[k] \in Nat /\ L[2] \in Nat
      BY <2>1, <2>2
    <3>2. CASE k = 2
      BY <3>1, <3>2
    <3>3. CASE k # 2
      <4>1. 2 < k
        BY <2>1, <2>3, <3>3
      <4>2. L[k] < L[2]
        BY <2>1, <2>2, <4>1
      <4> QED
        BY <3>1, <4>2
    <3> QED
      BY <3>2, <3>3
  <2> QED
    BY <2>1, <2>2, <2>3
<1>2. M \in [1..Len(ds) -> Nat] /\ M[1] = u /\ \A k \in 2..Len(cs) : M[k] = L[k]
  BY <1>1 DEF Chain
<1> HIDE DEF M
<1>3. L[2] < u
  BY DEF CallOK
<1>4. M[Len(ds)] = Base /\ ds[Len(ds)] = ThreadCall
  BY <1>1, <1>2 DEF Chain
<1>5. ASSUME NEW j \in 1..Len(ds), NEW k \in 1..Len(ds), j < k PROVE M[k] < M[j]
  <2>1. k \in 2..Len(cs) /\ M[k] = L[k] /\ L[k] <= L[2] /\ L[k] \in Nat /\ L[2] \in Nat
    BY <1>1, <1>2, <1>5
  <2>2. CASE j = 1
    BY <1>2, <1>3, <2>1, <2>2
  <2>3. CASE j # 1
    <3>1. M[j] = L[j]
      BY <1>1, <1>2, <2>3
    <3> QED
      BY <1>5, <2>1, <3>1 DEF Chain
  <2> QED
    BY <2>2, <2>3
<1>6. ASSUME NEW k \in 1..(Len(ds) - 1)
      PROVE  /\ CallOK(gs, ds[k], M[k], M[k + 1]) /\ StateOK(gs, ds[k], M[k])
             /\ PairOK(ds[k], ds[k + 1])
  <2>1. /\ k \in 1..(Len(cs) - 1) /\ k \in 1..Len(cs) /\ k + 1 \in 2..Len(cs) /\ k \in Nat
        /\ M[k + 1] = L[k + 1] /\ ds[k + 1] = cs[k + 1] /\ PairOK(cs[k], cs[k + 1])
    BY <1>1, <1>2, <1>6 DEF Chain
  <2>2. CASE k = 1
    <3>1. M[k + 1] = L[2] /\ M[k] = u
      BY <1>2, <2>1, <2>2
    <3>2. PairOK(ds[k], ds[k + 1])
      BY <2>1, <2>2 DEF PairOK
    <3> QED
      BY <2>2, <3>1, <3>2
  <2>3. CASE k # 1
    <3>1. k \in 2..Len(cs) /\ k > 1
      BY <2>1, <2>3
    <3>2. ds[k] = cs[k] /\ M[k] = L[k] /\ cs[k] \in CallRecords
      BY <1>2, <3>1
    <3>3. CallOK(fs, cs[k], L[k], L[k + 1]) /\ StateOK(fs, cs[k], L[k])
      BY <2>1 DEF Chain
    <3>4. L[k] < t /\ L[k] <= L[2] /\ L[k] \in Nat /\ L[2] \in Nat
      BY <1>1, <2>1, <3>1
    <3>5. Same(fs, gs, L[k])
      BY <3>4 DEF Same
    <3>6. CallOK(gs, cs[k], L[k], L[k + 1])
      BY <3>2, <3>3, <3>5, SameCallOK
    <3>7. L[k] \in DOMAIN fs
      BY <3>3 DEF CallOK
    <3>8. End(gs, L[k]) = End(fs, L[k])
      BY <3>4, <3>7 DEF Same, End
    <3>9. ASSUME cs[k].kind = "java", cs[k].at \in {"run", "call", "signal"},
                 NEW h \in DOMAIN gs, h > L[k]
          PROVE  h >= cs[k].sp
      <4>1. \A i \in DOMAIN fs : i > L[k] => i >= cs[k].sp
        BY <3>3, <3>9 DEF StateOK
      <4>2. h \in Nat /\ cs[k].sp \in Nat
        BY <3>2, CallFields
      <4> QED
        BY <1>1, <3>4, <3>9, <4>1, <4>2
    <3>10. ASSUME cs[k].kind = "java", cs[k].at \in {"run", "call", "signal"}
           PROVE  ThisOK(gs, cs[k], L[k])
      <4>1. gs[L[k]].mb = fs[L[k]].mb /\ gs[L[k]].sync = fs[L[k]].sync
        BY <3>4, <3>5, <3>7 DEF Same
      <4> QED
        BY <3>3, <3>10, <4>1 DEF StateOK, ThisOK
    <3>11. StateOK(gs, cs[k], L[k])
      BY <3>3, <3>8, <3>9, <3>10 DEF StateOK
    <3> QED
      BY <2>1, <3>2, <3>6, <3>11
  <2> QED
    BY <2>2, <2>3
<1>7. Chain(gs, ds, u, M)
  BY <1>2, <1>4, <1>5, <1>6 DEF Chain
<1> QED
  BY <1>7 DEF CallsOK

(* ... when the innermost call returns, to c: a caller goes on with d.     *)
LEMMA ChainPop ==
    ASSUME NEW fs, NEW gs, FramesTyped(fs), DOMAIN gs \subseteq DOMAIN fs,
           NEW cs \in Seq(CallRecords), Len(cs) > 1, NEW t \in DOMAIN fs,
           NEW L, Chain(fs, cs, t, L), Same(fs, gs, L[2]),
           NEW ds \in Seq(CallRecords), Len(ds) = Len(cs) - 1,
           \A k \in 2..Len(ds) : ds[k] = cs[k + 1],
           ds[1].by = cs[2].by, ds[1].kind = cs[2].kind, ds[1].frame = cs[2].frame,
           ds[1].sync = cs[2].sync, cs[2].by = "thread" => ds[1] = cs[2],
           cs[2].by # "thread" => StateOK(gs, ds[1], L[2])
    PROVE  CallsOK(gs, ds, L[2])
<1> DEFINE M == [k \in 1..Len(ds) |-> L[k + 1]]
<1>1. /\ Len(cs) \in Nat /\ t \in Nat /\ 2 \in 1..Len(cs) /\ L[2] \in Nat
      /\ \A k \in 1..Len(cs) : L[k] \in Nat /\ (k > 1 => L[k] < t /\ L[k] <= L[2])
  <2>1. Len(cs) \in Nat /\ t \in Nat /\ 1 \in 1..Len(cs) /\ 2 \in 1..Len(cs)
    BY FrameFields
  <2>2. L[1] = t /\ L \in [1..Len(cs) -> Nat]
        /\ \A j, k \in 1..Len(cs) : j < k => L[k] < L[j]
    BY DEF Chain
  <2>3. ASSUME NEW k \in 1..Len(cs), k > 1 PROVE L[k] <= L[2]
    <3>1. L[k] \in Nat /\ L[2] \in Nat
      BY <2>1, <2>2
    <3>2. CASE k = 2
      BY <3>1, <3>2
    <3>3. CASE k # 2
      <4>1. 2 < k
        BY <2>1, <2>3, <3>3
      <4>2. L[k] < L[2]
        BY <2>1, <2>2, <4>1
      <4> QED
        BY <3>1, <4>2
    <3> QED
      BY <3>2, <3>3
  <2> QED
    BY <2>1, <2>2, <2>3
<1>2. M \in [1..Len(ds) -> Nat] /\ M[1] = L[2] /\ \A k \in 1..Len(ds) : M[k] = L[k + 1]
  BY <1>1 DEF Chain
<1> HIDE DEF M
<1>3. DOMAIN gs \subseteq Nat
  BY DEF FramesTyped
<1>4. M[Len(ds)] = Base /\ ds[Len(ds)] = ThreadCall
  <2>1. M[Len(ds)] = Base
    BY <1>1, <1>2 DEF Chain
  <2>2. CASE Len(ds) = 1
    <3>1. Len(cs) = 2
      <4>1. \A n \in Nat : n - 1 = 1 => n = 2
        OBVIOUS
      <4> QED
        BY <1>1, <2>2, <4>1
    <3>2. cs[Len(cs)] = ThreadCall
      BY DEF Chain
    <3>3. cs[2].by = "thread"
      BY <3>1, <3>2 DEF ThreadCall
    <3>4. ds[1] = ThreadCall
      BY <3>1, <3>2, <3>3
    <3> QED
      BY <2>1, <2>2, <3>4
  <2>3. CASE Len(ds) # 1
    <3>1. Len(ds) \in 2..Len(ds) /\ Len(ds) + 1 = Len(cs)
      BY <1>1, <2>3
    <3> QED
      BY <2>1, <3>1 DEF Chain
  <2> QED
    BY <2>1, <2>2, <2>3
<1>5. ASSUME NEW j \in 1..Len(ds), NEW k \in 1..Len(ds), j < k PROVE M[k] < M[j]
  <2>1. j + 1 \in 1..Len(cs) /\ k + 1 \in 1..Len(cs) /\ j + 1 < k + 1
    BY <1>1, <1>5
  <2> QED
    BY <1>2, <2>1 DEF Chain
<1>6. ASSUME NEW k \in 1..(Len(ds) - 1)
      PROVE  /\ CallOK(gs, ds[k], M[k], M[k + 1]) /\ StateOK(gs, ds[k], M[k])
             /\ PairOK(ds[k], ds[k + 1])
  <2> DEFINE j == k + 1
  <2>1. /\ j \in 1..(Len(cs) - 1) /\ j \in 1..Len(cs) /\ j > 1 /\ k \in 1..Len(ds)
        /\ k + 1 \in 1..Len(ds) /\ k + 1 \in 2..Len(ds)
    BY <1>1, <1>6
  <2> HIDE DEF j
  <2>2. M[k] = L[j] /\ M[k + 1] = L[j + 1] /\ ds[k + 1] = cs[j + 1]
    BY <1>2, <2>1 DEF j
  <2>3. /\ CallOK(fs, cs[j], L[j], L[j + 1]) /\ StateOK(fs, cs[j], L[j])
        /\ PairOK(cs[j], cs[j + 1]) /\ cs[j] \in CallRecords /\ ds[k] \in CallRecords
    BY <2>1 DEF Chain
  <2>4. L[j] <= L[2] /\ L[j] \in Nat /\ L[j] \in DOMAIN fs
    BY <1>1, <2>1, <2>3 DEF CallOK
  <2>5. Same(fs, gs, L[j])
    BY <1>1, <2>4 DEF Same
  <2>6. ds[k].by = cs[j].by /\ ds[k].kind = cs[j].kind /\ ds[k].frame = cs[j].frame
        /\ ds[k].sync = cs[j].sync /\ (k # 1 => ds[k] = cs[j])
    <3>1. CASE k = 1
      BY <3>1 DEF j
    <3>2. CASE k # 1
      BY <3>2, <1>6, <1>1 DEF j
    <3> QED
      BY <3>1, <3>2
  <2>7. CallOK(gs, ds[k], L[j], L[j + 1])
    BY <1>3, <2>3, <2>5, <2>6, SameCallOK
  <2>8. StateOK(gs, ds[k], L[j])
    <3>1. CASE k = 1
      <4>1. cs[j].by # "thread"
        BY <2>3 DEF CallOK
      <4> QED
        BY <3>1, <4>1 DEF j
    <3>2. CASE k # 1
      <4>1. End(gs, L[j]) = End(fs, L[j])
        BY <2>4, <2>5 DEF Same, End
      <4>2. gs[L[j]].mb = fs[L[j]].mb /\ gs[L[j]].sync = fs[L[j]].sync
        BY <2>4, <2>5 DEF Same
      <4> QED
        BY <2>3, <2>6, <3>2, <4>1, <4>2 DEF StateOK, ThisOK
    <3> QED
      BY <3>1, <3>2
  <2>9. PairOK(ds[k], ds[k + 1])
    BY <2>2, <2>3, <2>6 DEF PairOK
  <2> QED
    BY <2>2, <2>7, <2>8, <2>9
<1>7. Chain(gs, ds, L[2], M)
  BY <1>2, <1>4, <1>5, <1>6 DEF Chain
<1> QED
  BY <1>1, <1>7 DEF CallsOK

-----------------------------------------------------------------------------
(* The locks that are counted.                                             *)
LEMMA HeldIsFinite ==
    ASSUME NEW fs, FramesTyped(fs), NEW t, NEW o
    PROVE  IsFiniteSet(Held(fs, t, o)) /\ Cardinality(Held(fs, t, o)) \in Nat
BY FS_Subset, FS_CardinalityType DEF Held, FramesTyped

(* From fs up to t to gs up to u, frame f is added, and b locked.          *)
Adds(fs, t, lk, gs, u, kl, b, f) ==
    /\ LocksOK(fs, t, lk) /\ b \in Lockable \cup {Nil} /\ f \notin DOMAIN fs
    /\ \A o \in Lockable : Held(gs, u, o) = IF o = b THEN Held(fs, t, o) \cup {f}
                                             ELSE Held(fs, t, o)
    /\ kl = IF b = Nil THEN lk ELSE [lk EXCEPT ![b] = @ + 1]

LEMMA LocksAdd ==
    ASSUME NEW fs, NEW gs, NEW t, NEW u, NEW lk, NEW kl, NEW b, NEW new, FramesTyped(fs),
           Adds(fs, t, lk, gs, u, kl, b, new)
    PROVE  LocksOK(gs, u, kl)
<1> USE DEF Adds
<1>1. ASSUME ThisIsKept, NEW o \in Lockable PROVE kl[o] = Cardinality(Held(gs, u, o))
  <2>1. Cardinality(Held(fs, t, o)) \in Nat /\ lk[o] = Cardinality(Held(fs, t, o))
    BY <1>1, HeldIsFinite DEF LocksOK
  <2>2. CASE o = b
    <3>1. kl[o] = lk[o] + 1
      BY <2>2, Constants DEF LocksOK
    <3>2. new \notin Held(fs, t, o)
      BY DEF Held
    <3>3. Cardinality(Held(fs, t, o) \cup {new}) = Cardinality(Held(fs, t, o)) + 1
      BY <3>2, HeldIsFinite, FS_AddElement
    <3>4. Held(gs, u, o) = Held(fs, t, o) \cup {new}
      BY <2>2
    <3> QED
      BY <2>1, <3>1, <3>3, <3>4
  <2>3. CASE o # b
    BY <1>1, <2>1, <2>3 DEF LocksOK
  <2> QED
    BY <2>2, <2>3
<1>2. kl \in [Lockable -> Nat]
  BY DEF LocksOK
<1> QED
  BY <1>1, <1>2 DEF LocksOK

(* ... frame f is left, and b unlocked.                                    *)
Drops(fs, t, lk, gs, u, kl, b, f) ==
    /\ LocksOK(fs, t, lk) /\ b \in Lockable \cup {Nil}
    /\ ThisIsKept => /\ b # Nil => f \in Held(fs, t, b)
                     /\ \A o \in Lockable : Held(gs, u, o) = IF o = b THEN Held(fs, t, o) \ {f}
                                                              ELSE Held(fs, t, o)
    /\ kl = IF b = Nil THEN lk ELSE [lk EXCEPT ![b] = IF @ = 0 THEN 0 ELSE @ - 1]

LEMMA LocksDrop ==
    ASSUME NEW fs, NEW gs, NEW t, NEW u, NEW lk, NEW kl, NEW b, NEW f, FramesTyped(fs),
           Drops(fs, t, lk, gs, u, kl, b, f)
    PROVE  LocksOK(gs, u, kl)
<1> USE DEF Drops
<1>1. ASSUME ThisIsKept, NEW o \in Lockable PROVE kl[o] = Cardinality(Held(gs, u, o))
  <2>1. Cardinality(Held(fs, t, o)) \in Nat /\ lk[o] = Cardinality(Held(fs, t, o))
    BY <1>1, HeldIsFinite DEF LocksOK
  <2>2. CASE o = b
    <3>1. kl[o] = IF lk[o] = 0 THEN 0 ELSE lk[o] - 1
      BY <2>2, Constants DEF LocksOK
    <3>2. f \in Held(fs, t, o)
      BY <1>1, <2>2, Constants
    <3>3. /\ IsFiniteSet(Held(fs, t, o) \ {f})
          /\ Cardinality(Held(fs, t, o) \ {f}) = Cardinality(Held(fs, t, o)) - 1
      BY <3>2, HeldIsFinite, FS_RemoveElement
    <3>4. Cardinality(Held(fs, t, o) \ {f}) \in Nat
      BY <3>3, FS_CardinalityType
    <3>5. Held(gs, u, o) = Held(fs, t, o) \ {f}
      BY <1>1, <2>2
    <3> QED
      BY <2>1, <3>1, <3>3, <3>4, <3>5
  <2>3. CASE o # b
    BY <1>1, <2>1, <2>3 DEF LocksOK
  <2> QED
    BY <2>2, <2>3
<1>2. kl \in [Lockable -> Nat]
  BY DEF LocksOK
<1> QED
  BY <1>1, <1>2 DEF LocksOK

LEMMA LocksSame ==
    ASSUME NEW fs, NEW gs, NEW t, NEW u, NEW lk, LocksOK(fs, t, lk),
           \A o \in Lockable : Held(gs, u, o) = Held(fs, t, o)
    PROVE  LocksOK(gs, u, lk)
BY DEF LocksOK

(* ... and the dummy frames and calls of executeMethod.                    *)
LEMMA ExecutionsShift ==
    ASSUME NEW cs \in Seq(CallRecords), NEW ds \in Seq(CallRecords), Len(ds) = Len(cs) + 1,
           \A k \in 1..Len(cs) : ds[k + 1].by = cs[k].by
    PROVE  /\ Cardinality(Executions(cs)) \in Nat
           /\ Cardinality(Executions(ds))
                 = Cardinality(Executions(cs)) + IF ds[1].by = "execute" THEN 1 ELSE 0
<1> DEFINE S == Executions(cs)
           T == Executions(ds) \ {1}
           f == [k \in S |-> k + 1]
<1>1. Len(cs) \in Nat /\ Len(ds) \in Nat
  OBVIOUS
<1>2. IsFiniteSet(1..Len(cs)) /\ IsFiniteSet(1..Len(ds))
  BY <1>1, FS_Interval
<1>3. IsFiniteSet(S) /\ IsFiniteSet(Executions(ds)) /\ IsFiniteSet(T)
  BY <1>2, FS_Subset DEF Executions
<1>4. \A k \in S : k \in 1..Len(cs) /\ k + 1 \in T
  BY <1>1 DEF Executions
<1>5. \A j \in T : j - 1 \in S /\ (j - 1) + 1 = j
  <2> SUFFICES ASSUME NEW j \in T PROVE j - 1 \in S /\ (j - 1) + 1 = j
    OBVIOUS
  <2>1. j \in 1..Len(ds) /\ j # 1 /\ ds[j].by = "execute"
    BY DEF Executions
  <2>2. j - 1 \in 1..Len(cs) /\ (j - 1) + 1 = j
    BY <1>1, <2>1
  <2>3. cs[j - 1].by = ds[(j - 1) + 1].by
    BY <2>2
  <2> QED
    BY <2>1, <2>2, <2>3 DEF Executions
<1>6. f \in [S -> T]
  BY <1>4
<1>7. \A a, b \in S : f[a] = f[b] => a = b
  BY <1>1, <1>4
<1>8. \A j \in T : \E k \in S : f[k] = j
  BY <1>5
<1>9. ExistsBijection(S, T)
  <2>1. f \in Bijection(S, T)
    BY <1>6, <1>7, <1>8 DEF Bijection, Injection, Surjection, IsInjective
  <2> QED
    BY <2>1 DEF ExistsBijection
<1>10. Cardinality(T) = Cardinality(S)
  BY <1>3, <1>9, FS_Bijection
<1>11. 1 \in Executions(ds) <=> ds[1].by = "execute"
  BY <1>1 DEF Executions
<1>12. Cardinality(T) = IF 1 \in Executions(ds) THEN Cardinality(Executions(ds)) - 1
                        ELSE Cardinality(Executions(ds))
  BY <1>3, FS_RemoveElement
<1>13. Cardinality(S) \in Nat /\ Cardinality(Executions(ds)) \in Nat
  BY <1>3, FS_CardinalityType
<1> QED
  BY <1>10, <1>11, <1>12, <1>13

LEMMA ExecutionsSame ==
    ASSUME NEW cs \in Seq(CallRecords), NEW ds \in Seq(CallRecords), Len(ds) = Len(cs),
           \A k \in 1..Len(cs) : ds[k].by = cs[k].by
    PROVE  Executions(ds) = Executions(cs)
BY DEF Executions

LEMMA DummiesAreFinite ==
    ASSUME NEW fs, FramesTyped(fs)
    PROVE  IsFiniteSet(Dummies(fs)) /\ Cardinality(Dummies(fs)) \in Nat
BY FS_Subset, FS_CardinalityType DEF Dummies, FramesTyped

-----------------------------------------------------------------------------
(* What the invariant says of the frame and the call on top.               *)

(* The frames of a call of Java code are above those of its caller.        *)
LEMMA TopChain ==
    ASSUME NEW fs, NEW cs, NEW t, NEW L, FramesOK(fs), cs \in Seq(CallRecords), Len(cs) > 0,
           Chain(fs, cs, t, L), cs[1].by # "thread"
    PROVE  /\ Len(cs) > 1 /\ L[1] = t /\ CallOK(fs, cs[1], t, L[2]) /\ StateOK(fs, cs[1], t)
           /\ PairOK(cs[1], cs[2]) /\ cs[2] \in CallRecords /\ cs[1] \in CallRecords
           /\ L[2] \in Nat /\ L[2] \in DOMAIN fs
           /\ cs[2].by # "thread" => /\ Len(cs) > 2 /\ StateOK(fs, cs[2], L[2])
                                     /\ CallOK(fs, cs[2], L[2], L[3])
           /\ cs[2].by = "thread" => Len(cs) = 2 /\ L[2] = Base /\ cs[2] = ThreadCall
<1>1. Len(cs) \in Nat
  OBVIOUS
<1>2. Len(cs) # 1
  <2> SUFFICES ASSUME Len(cs) = 1 PROVE FALSE
    OBVIOUS
  <2>1. cs[1] = ThreadCall
    BY DEF Chain
  <2> QED
    BY <2>1 DEF ThreadCall
<1>3. Len(cs) > 1 /\ 1 \in 1..(Len(cs) - 1) /\ 2 \in 1..Len(cs) /\ 1 + 1 = 2
      /\ 1 \in 1..Len(cs)
  <2>1. \A n \in Nat : n > 0 /\ n # 1 =>
            n > 1 /\ 1 \in 1..(n - 1) /\ 2 \in 1..n /\ 1 + 1 = 2 /\ 1 \in 1..n
    OBVIOUS
  <2> QED
    BY <1>1, <1>2, <2>1
<1>4. /\ CallOK(fs, cs[1], L[1], L[1 + 1]) /\ StateOK(fs, cs[1], L[1])
      /\ PairOK(cs[1], cs[1 + 1])
  BY <1>3 DEF Chain
<1>5. L[1] = t /\ L[2] \in Nat /\ L[2] \in DOMAIN fs
  BY <1>3, <1>4 DEF Chain, CallOK
<1>6. cs[Len(cs)] = ThreadCall /\ L[Len(cs)] = Base
  BY DEF Chain
<1>7. ASSUME cs[2].by # "thread"
      PROVE  Len(cs) > 2 /\ StateOK(fs, cs[2], L[2]) /\ CallOK(fs, cs[2], L[2], L[3])
  <2>1. Len(cs) # 2
    BY <1>6, <1>7 DEF ThreadCall
  <2>2. Len(cs) > 2 /\ 2 \in 1..(Len(cs) - 1) /\ 2 + 1 = 3
    <3>1. \A n \in Nat : n > 1 /\ n # 2 => n > 2 /\ 2 \in 1..(n - 1) /\ 2 + 1 = 3
      OBVIOUS
    <3> QED
      BY <1>1, <1>3, <2>1, <3>1
  <2>3. CallOK(fs, cs[2], L[2], L[2 + 1]) /\ StateOK(fs, cs[2], L[2])
    BY <2>2 DEF Chain
  <2> QED
    BY <2>2, <2>3
<1>8. ASSUME cs[2].by = "thread" PROVE Len(cs) = 2 /\ L[2] = Base /\ cs[2] = ThreadCall
  <2>1. Len(cs) = 2
    <3> SUFFICES ASSUME Len(cs) # 2 PROVE FALSE
      OBVIOUS
    <3>1. 2 \in 1..(Len(cs) - 1)
      <4>1. \A n \in Nat : n > 1 /\ n # 2 => 2 \in 1..(n - 1)
        OBVIOUS
      <4> QED
        BY <1>1, <1>3, <4>1
    <3>2. CallOK(fs, cs[2], L[2], L[2 + 1])
      BY <3>1 DEF Chain
    <3> QED
      BY <1>8, <3>2 DEF CallOK
  <2> QED
    BY <1>6, <2>1
<1> QED
  BY <1>3, <1>4, <1>5, <1>7, <1>8

(* The interpreter: executeMethod called it, from dummy frame d, and every *)
(* frame above d is one of a Java method.                                  *)
LEMMA JavaTop ==
    ASSUME NEW fs, NEW cs, NEW t, NEW L, FramesOK(fs), cs \in Seq(CallRecords), Len(cs) > 0,
           Chain(fs, cs, t, L), IsLast(fs, t), cs[1].kind = "java"
    PROVE  /\ cs[1].by = "execute"
           /\ \E d \in DOMAIN fs : ExecutedFrom(fs, cs[1], t, L[2], d)
           /\ cs[1].frame \in DOMAIN fs /\ cs[1].frame <= t
           /\ cs[1].frame # Base
           /\ fs[cs[1].frame].mb \in Methods \ NativeMethods
<1>1. cs[1].by # "thread"
  <2> SUFFICES ASSUME cs[1].by = "thread" PROVE FALSE
    OBVIOUS
  <2>1. Len(cs) = 1
    <3> SUFFICES ASSUME Len(cs) # 1 PROVE FALSE
      OBVIOUS
    <3>1. 1 \in 1..(Len(cs) - 1)
      <4>1. \A n \in Nat : n > 0 /\ n # 1 => 1 \in 1..(n - 1)
        OBVIOUS
      <4>2. Len(cs) \in Nat
        OBVIOUS
      <4> QED
        BY <4>1, <4>2
    <3>2. CallOK(fs, cs[1], L[1], L[1 + 1])
      BY <3>1 DEF Chain
    <3> QED
      BY <3>2 DEF CallOK
  <2>2. cs[1] = ThreadCall
    BY <2>1 DEF Chain
  <2> QED
    BY <2>2 DEF ThreadCall
<1>2. CallOK(fs, cs[1], t, L[2]) /\ cs[1] \in CallRecords
  BY <1>1, TopChain
<1>3. cs[1].by = "execute"
  BY <1>2 DEF CallOK
<1>4. PICK d \in DOMAIN fs : ExecutedFrom(fs, cs[1], t, L[2], d)
  BY <1>2, <1>3 DEF CallOK
<1>5. cs[1].frame \in DOMAIN fs /\ cs[1].frame <= t /\ d < cs[1].frame
  BY <1>2, <1>4 DEF CallOK, ExecutedFrom
<1>6. fs[cs[1].frame].mb \in Methods \ NativeMethods
  BY <1>4, <1>5 DEF ExecutedFrom
<1>7. cs[1].frame # Base
  BY <1>6, Constants DEF FramesOK, FramesTyped
<1> QED
  BY <1>3, <1>4, <1>5, <1>6, <1>7

(* A frame the interpreter has, or one it goes back to, that follows a     *)
(* dummy frame follows the one its executeMethod pushed.                   *)
LEMMA JavaBefore ==
    ASSUME NEW fs, FramesOK(fs), NEW c \in CallRecords, c.kind = "java", NEW l \in DOMAIN fs,
           NEW m \in DOMAIN fs, NEW d \in DOMAIN fs, ExecutedFrom(fs, c, l, m, d),
           NEW f \in DOMAIN fs, d < f, f <= l
    PROVE  /\ f # Base /\ fs[f].mb \in Methods \ NativeMethods
           /\ fs[fs[f].prev].mb = Nil => fs[f].prev = d /\ fs[f].sync = c.sync
           /\ fs[fs[f].prev].mb # Nil => d < fs[f].prev
<1>1. FramesTyped(fs) /\ fs[f].mb \in Methods \ NativeMethods
      /\ (fs[f].prev = d => fs[f].sync = c.sync)
  BY DEF ExecutedFrom, FramesOK
<1>2. f # Base
  BY <1>1, Constants DEF FramesTyped
<1>3. d \in Nat /\ f \in Nat /\ l \in Nat
  BY <1>1, FrameFields
<1>4. fs[f].prev \in DOMAIN fs /\ fs[f].prev \in Nat /\ fs[f].prev < f /\ d <= fs[f].prev
  BY <1>2, <1>3, Before
<1>5. ASSUME fs[fs[f].prev].mb = Nil PROVE fs[f].prev = d
  <2> SUFFICES ASSUME d < fs[f].prev PROVE FALSE
    BY <1>3, <1>4
  <2>1. fs[f].prev <= l
    BY <1>3, <1>4
  <2>2. fs[fs[f].prev].mb \in Methods
    BY <1>4, <2>1 DEF ExecutedFrom
  <2> QED
    BY <1>5, <2>2, Constants
<1>6. ASSUME fs[fs[f].prev].mb # Nil PROVE d < fs[f].prev
  BY <1>3, <1>4, <1>6 DEF ExecutedFrom
<1> QED
  BY <1>1, <1>2, <1>5, <1>6

-----------------------------------------------------------------------------
(* What the actions do, in their common parts.                             *)

(* A frame is put above the last one.                                      *)
Fits(fs, t, f, r) ==
    /\ FramesOK(fs) /\ t \in DOMAIN fs /\ IsLast(fs, t) /\ f \in Nat
    /\ r \in FrameRecords /\ r.prev = t /\ Ostack(t) <= f /\ ~r.caught /\ SyncOK(r)
    /\ r.mb = Nil => fs[t].mb # Nil /\ f = End(fs, t) /\ r.sync = Nil
    /\ r.mb # Nil =>
          /\ r.mb \in Methods /\ fs[t].mb \in (Methods \ NativeMethods) \cup {Nil}
          /\ Ostack(t) <= r.lvars /\ r.lvars <= f
          /\ fs[t].mb # Nil => r.lvars <= End(fs, t)
          /\ r.mb \notin NativeMethods => r.lvars + MaxLocals[r.mb] <= f
          /\ r.mb \in NativeMethods => r.next \in Nat /\ r.next <= f

LEMMA PutKeeps ==
    ASSUME NEW fs, NEW t, NEW f, NEW r, Fits(fs, t, f, r), NEW gs, gs = Put(fs, f, r)
    PROVE  /\ FramesOK(gs) /\ IsLast(gs, f) /\ f \notin DOMAIN fs
           /\ gs[f] = r /\ \A g \in DOMAIN fs : gs[g] = fs[g]
           /\ \A g : g \in DOMAIN gs <=> g \in DOMAIN fs \/ g = f
<1> USE DEF Fits
<1>1. FramesTyped(fs) /\ t \in Nat /\ t < f /\ DOMAIN fs \subseteq Nat
      /\ \A g \in DOMAIN fs : g <= t
  BY EndIsAbove, FrameFields DEF FramesOK, FramesTyped, IsLast
<1>2. f \notin DOMAIN fs
  BY <1>1
<1>3. DOMAIN gs = DOMAIN fs \cup {f} /\ gs[f] = r /\ \A g \in DOMAIN fs : gs[g] = fs[g]
  BY <1>2 DEF Put
<1>4. gs = [g \in DOMAIN gs |-> gs[g]]
  BY DEF Put
<1>5. IsFiniteSet(DOMAIN gs)
  BY <1>1, <1>3, FS_AddElement DEF FramesTyped
<1>6. gs \in [DOMAIN gs -> FrameRecords]
  BY <1>1, <1>3, <1>4, FrameFields
<1>7. FramesTyped(gs)
  BY <1>1, <1>3, <1>5, <1>6 DEF FramesTyped
<1>8. ASSUME NEW g \in DOMAIN fs \ {Base} PROVE FrameOK(gs, g)
  <2>1. Same(fs, gs, g)
    BY <1>1, <1>3 DEF Same
  <2> QED
    BY <1>1, <1>3, <1>7, <2>1, SameFrameOK DEF FramesOK, FramesTyped
<1>9. FrameOK(gs, f)
  <2>1. gs[f] = r /\ gs[f].prev = t /\ t \in DOMAIN gs /\ gs[t] = fs[t]
        /\ \A g \in DOMAIN gs : g < f => g <= t
    BY <1>1, <1>3
  <2>2. End(gs, t) = End(fs, t)
    BY <2>1 DEF End
  <2> QED
    BY <2>1, <2>2 DEF FrameOK
<1>10. IsLast(gs, f)
  BY <1>1, <1>3 DEF IsLast
<1> QED
  BY <1>1, <1>2, <1>3, <1>7, <1>8, <1>9, <1>10 DEF FramesOK

(* The record the interpreter goes on with is all that changes in calls.   *)
LEMMA NowReplaces ==
    ASSUME calls \in Seq(CallRecords), Len(calls) > 0, NEW r \in CallRecords
    PROVE  /\ Now(r) \in Seq(CallRecords) /\ Len(Now(r)) = Len(calls) /\ Now(r)[1] = r
           /\ \A k \in 2..Len(calls) : Now(r)[k] = calls[k]
           /\ Top = calls[1] /\ calls[1] \in CallRecords
<1>1. Top = calls[1] /\ calls[1] \in CallRecords
  BY DEF Top
<1>2. /\ <<r>> \o Tail(calls) \in Seq(CallRecords) /\ Len(<<r>> \o Tail(calls)) = Len(calls)
      /\ (<<r>> \o Tail(calls))[1] = r
      /\ \A k \in 2..Len(calls) : (<<r>> \o Tail(calls))[k] = calls[k]
  BY Replaced
<1> QED
  BY <1>1, <1>2 DEF Now

(* The innermost call goes on, on another frame or the same.               *)
LEMMA TopStep ==
    ASSUME NEW fs, NEW t, NEW cs, NEW lk, StackOK(fs, t, cs, lk), Len(cs) > 1,
           NEW L, Chain(fs, cs, t, L), NEW gs, FramesOK(gs), NEW u, IsLast(gs, u),
           Same(fs, gs, L[2]), \A h \in DOMAIN gs : h \in DOMAIN fs \/ h > t,
           NEW ds \in Seq(CallRecords), Len(ds) = Len(cs),
           \A k \in 2..Len(cs) : ds[k] = cs[k], ds[1].by = cs[1].by,
           CallOK(gs, ds[1], u, L[2]), StateOK(gs, ds[1], u),
           NEW kl, LocksOK(gs, LockTop(ds, u), kl),
           Cardinality(Dummies(gs)) = Cardinality(Dummies(fs))
    PROVE  StackOK(gs, u, ds, kl)
<1>1. FramesTyped(fs) /\ FramesTyped(gs) /\ t \in DOMAIN fs /\ u \in Nat /\ cs \in Seq(CallRecords)
      /\ DOMAIN gs \subseteq Nat
  BY FrameFields DEF StackOK, FramesOK, IsLast, CallsOK, FramesTyped
<1>2. CallsOK(gs, ds, u)
  BY <1>1, ChainStep
<1>3. Executions(ds) = Executions(cs)
  <2>1. \A k \in 1..Len(cs) : ds[k].by = cs[k].by
    <3>1. \A k \in 1..Len(cs) : k = 1 \/ k \in 2..Len(cs)
      BY <1>1
    <3> QED
      BY <3>1
  <2> QED
    BY <1>1, <2>1, ExecutionsSame
<1> QED
  BY <1>2, <1>3 DEF StackOK, Counted

(* ... and is the interpreter: its frames are still above the dummy one.   *)
LEMMA JavaCallOK ==
    ASSUME NEW fs, FramesOK(fs), NEW c \in CallRecords, c.kind = "java", NEW l \in DOMAIN fs,
           NEW m \in DOMAIN fs, m < l, NEW d \in DOMAIN fs, ExecutedFrom(fs, c, l, m, d),
           NEW gs, FramesOK(gs), NEW u \in DOMAIN gs, d < u,
           d \in DOMAIN gs, m \in DOMAIN gs, gs[d].prev = fs[d].prev, gs[d].mb = fs[d].mb,
           \A g \in DOMAIN gs : d < g /\ g <= u =>
              \/ /\ g \in DOMAIN fs /\ g <= l /\ gs[g].mb = fs[g].mb
                 /\ gs[g].prev = fs[g].prev /\ gs[g].sync = fs[g].sync
              \/ gs[g].mb \in Methods \ NativeMethods /\ gs[g].prev # d,
           NEW r \in CallRecords, r.kind = "java", r.by = "execute", r.sync = c.sync,
           r.frame \in DOMAIN gs, d < r.frame, r.frame <= u
    PROVE  CallOK(gs, r, u, m)
<1>1. /\ d \in Nat /\ m \in Nat /\ u \in Nat /\ d # Base /\ fs[d].prev = m /\ fs[d].mb = Nil
  BY FrameFields, Constants DEF FramesOK, FramesTyped, ExecutedFrom
<1>2. m < d
  BY <1>1, Before
<1>3. ExecutedFrom(gs, r, u, m, d)
  <2>1. ASSUME NEW g \in DOMAIN gs, d < g, g <= u
        PROVE  gs[g].mb \in Methods \ NativeMethods /\ (gs[g].prev = d => gs[g].sync = r.sync)
    BY <2>1 DEF ExecutedFrom
  <2> QED
    BY <1>1, <2>1 DEF ExecutedFrom
<1>4. m < u
  BY <1>1, <1>2
<1> QED
  BY <1>3, <1>4 DEF CallOK

(* executeMethod pushes a dummy frame and that of the method; fs are the   *)
(* frames, and callers the calls, as the caller has left them.             *)
LEMMA ExecuteStep ==
    ASSUME FramesOK(frames), IsLast(frames, last), NEW fs, SameFrames(frames, fs), NEW callers,
           StackOK(fs, last, callers, locked),
           callers[1].kind = "java" => callers[1].at \in {"call", "signal"},
           NEW m \in Methods, NEW o \in Objects \cup {Nil}, ExecuteMethod(m, o, callers, fs)
    PROVE  StackOK(frames, last, calls, locked)'
<1> DEFINE ob == sync_ob(m, o)
           dummy == Dummy(last)
           sp == Ostack(dummy)
           new == sp + MaxLocals[m]
           one == Frame(Nil, sp, last)
           two == [Frame(m, sp, dummy) EXCEPT !.local0 = o, !.sync = ob,
                       !.next = IF m \in NativeMethods THEN new ELSE Nil]
           hs == Put(fs, dummy, one)
           gs == Put(hs, new, two)
           x == [kind |-> IF m \in NativeMethods THEN "native" ELSE "java", at |-> "run",
                 frame |-> new, sp |-> Ostack(new), this |-> o, by |-> "execute", sync |-> ob]
<1>1. /\ frames' = gs /\ last' = new /\ locked' = Enter(ob) /\ calls' = <<x>> \o callers
  BY DEF ExecuteMethod
<1> ob \in Lockable \cup {Nil}
  BY SyncObType
<1> HIDE DEF ob
<1>2. PICK L : Chain(fs, callers, last, L)
  BY DEF StackOK, CallsOK
<1>3. /\ FramesOK(fs) /\ FramesTyped(fs) /\ last \in DOMAIN fs /\ last \in Nat /\ IsLast(fs, last)
      /\ callers \in Seq(CallRecords) /\ Len(callers) > 0 /\ Len(callers) \in Nat
      /\ callers[1] \in CallRecords /\ DOMAIN fs \subseteq Nat
  BY FrameFields DEF StackOK, FramesOK, FramesTyped, IsLast, CallsOK
<1>4. fs[last].mb # Nil /\ StateOK(fs, callers[1], last)
  <2>1. CASE callers[1].by = "thread"
    <3>1. Len(callers) = 1
      <4> SUFFICES ASSUME Len(callers) # 1 PROVE FALSE
        OBVIOUS
      <4>1. 1 \in 1..(Len(callers) - 1)
        <5>1. \A n \in Nat : n > 0 /\ n # 1 => 1 \in 1..(n - 1)
          OBVIOUS
        <5> QED
          BY <1>3, <5>1
      <4>2. CallOK(fs, callers[1], L[1], L[1 + 1])
        BY <1>2, <4>1 DEF Chain
      <4> QED
        BY <2>1, <4>2 DEF CallOK
    <3>2. last = Base /\ callers[1] = ThreadCall
      BY <1>2, <3>1 DEF Chain
    <3> QED
      BY <1>3, <3>2, Constants DEF FramesTyped, ThreadCall, StateOK
  <2>2. CASE callers[1].by # "thread"
    <3>1. CallOK(fs, callers[1], last, L[2]) /\ StateOK(fs, callers[1], last)
      BY <1>2, <1>3, <2>2, TopChain
    <3>2. fs[last].mb \in Methods
      <4>1. CASE callers[1].by = "execute"
        <5>1. PICK d \in DOMAIN fs : ExecutedFrom(fs, callers[1], last, L[2], d)
          BY <3>1, <4>1 DEF CallOK
        <5> QED
          BY <1>3, <5>1 DEF ExecutedFrom
      <4>2. CASE callers[1].by = "invoke"
        BY <3>1, <4>2, Constants DEF CallOK
      <4> QED
        BY <3>1, <4>1, <4>2 DEF CallOK
    <3> QED
      BY <3>1, <3>2, Constants
  <2> QED
    BY <2>1, <2>2
<1>5. dummy = End(fs, last)
  BY <1>3 DEF SameFrames, Dummy, End
<1>6. /\ dummy \in Nat /\ sp \in Nat /\ new \in Nat /\ last < Ostack(last) /\ Ostack(last) <= dummy
      /\ Ostack(last) \in Nat /\ dummy < sp /\ sp <= new /\ MaxLocals[m] \in Nat /\ new < Ostack(new)
      /\ Ostack(new) \in Nat
  <2>1. dummy \in Nat /\ last < Ostack(last) /\ Ostack(last) <= dummy /\ Ostack(last) \in Nat
    BY <1>3, <1>5, EndIsAbove
  <2> HIDE DEF dummy
  <2> QED
    BY <2>1, Constants DEF Ostack
<1> HIDE DEF dummy, sp, new
<1>7. one \in FrameRecords /\ one.prev = last /\ ~one.caught /\ one.mb = Nil /\ one.sync = Nil
      /\ SyncOK(one)
  BY <1>3, <1>6, Constants DEF Frame, FrameRecords, SyncOK
<1>8. /\ two \in FrameRecords /\ two.prev = dummy /\ ~two.caught /\ two.mb = m /\ two.sync = ob /\ two.local0 = o
      /\ two.lvars = sp /\ (m \in NativeMethods => two.next = new)
  BY <1>6 DEF Frame, FrameRecords
<1>9. SyncOK(two)
  BY <1>8 DEF SyncOK, ob
<1> HIDE DEF one, two
<1>10. /\ FramesOK(hs) /\ IsLast(hs, dummy) /\ dummy \notin DOMAIN fs
      /\ DOMAIN hs = DOMAIN fs \cup {dummy} /\ hs[dummy] = one
      /\ \A g \in DOMAIN fs : hs[g] = fs[g]
  <2>1. one.mb # Nil => FALSE
    BY <1>7
  <2> HIDE DEF hs
  <2>2. Fits(fs, last, dummy, one)
    BY <1>3, <1>4, <1>5, <1>6, <1>7, <2>1 DEF Fits
  <2>3. hs = Put(fs, dummy, one)
    BY DEF hs
  <2> QED
    BY <2>2, <2>3, PutKeeps
<1> HIDE DEF hs
<1>11. /\ FramesOK(gs) /\ IsLast(gs, new) /\ new \notin DOMAIN hs
       /\ DOMAIN gs = DOMAIN hs \cup {new} /\ gs[new] = two
       /\ \A g \in DOMAIN hs : gs[g] = hs[g]
  <2>1. m # Nil /\ two.mb \in Methods /\ sp + MaxLocals[m] <= new
    <3>1. m # Nil
      BY Constants
    <3>2. sp + MaxLocals[m] <= new
      BY <1>6 DEF new
    <3> QED
      BY <1>8, <3>1, <3>2
  <2>2. Ostack(dummy) <= new /\ Ostack(dummy) <= sp /\ dummy \in DOMAIN hs /\ hs[dummy].mb = Nil
    BY <1>6, <1>7, <1>10 DEF sp
  <2>3. ~(two.mb = Nil) /\ (two.mb \in NativeMethods => two.next \in Nat /\ two.next <= new)
    BY <1>6, <1>8, <2>1
  <2>4. two.lvars <= new /\ Ostack(dummy) <= two.lvars /\ two.lvars + MaxLocals[two.mb] <= new
    BY <1>6, <1>8, <2>1, <2>2
  <2> HIDE DEF gs
  <2>5. Fits(hs, dummy, new, two)
    BY <1>6, <1>8, <1>10, <1>9, <2>1, <2>2, <2>3, <2>4 DEF Fits
  <2>6. gs = Put(hs, new, two)
    BY DEF gs
  <2> QED
    BY <2>5, <2>6, PutKeeps
<1> HIDE DEF gs
<1>12. /\ DOMAIN gs = DOMAIN fs \cup {dummy, new} /\ gs[dummy] = one /\ gs[new] = two
       /\ \A g \in DOMAIN fs : gs[g] = fs[g] /\ g <= last
  BY <1>3, <1>10, <1>11 DEF IsLast
<1>13. Same(fs, gs, last) /\ DOMAIN gs \subseteq Nat
  BY <1>3, <1>6, <1>12 DEF Same
<1>14. x \in CallRecords
  BY <1>6 DEF CallRecords
<1>15. CallOK(gs, x, new, last)
  <2>1. ExecutedFrom(gs, x, new, last, dummy)
    <3>1. ASSUME NEW g \in DOMAIN gs, dummy < g, g <= new
          PROVE  g = new
      BY <1>3, <1>6, <1>12, <3>1
    <3> QED
      BY <1>6, <1>7, <1>8, <1>11, <1>12, <3>1 DEF ExecutedFrom
  <2>2. dummy \in DOMAIN gs /\ new \in DOMAIN gs /\ last \in DOMAIN gs /\ last < new
    BY <1>3, <1>6, <1>12
  <2> QED
    BY <1>6, <1>8, <1>11, <1>12, <2>1, <2>2 DEF CallOK
<1>16. StateOK(gs, x, new)
  <2>1. Ostack(new) <= End(gs, new)
    BY <1>11, <1>12, EndIsAbove DEF FramesOK
  <2>2. \A h \in DOMAIN gs : ~(h > new)
    BY <1>11, <1>13, <1>6 DEF IsLast
  <2>3. ThisOK(gs, x, new)
    BY <1>8, <1>12 DEF ThisOK, ob
  <2> QED
    BY <1>6, <2>1, <2>2, <2>3 DEF StateOK
<1>17. StateOK(gs, callers[1], last)
  <2>1. End(gs, last) = End(fs, last)
    BY <1>3, <1>12 DEF End
  <2>2. ASSUME callers[1].kind = "java", NEW h \in DOMAIN gs, h > last PROVE h >= callers[1].sp
    <3>1. callers[1].sp <= dummy /\ callers[1].sp \in Nat
      BY <1>3, <1>4, <1>5, <2>2, CallFields DEF StateOK
    <3>2. h = dummy \/ h = new
      BY <1>3, <1>12, <1>13, <2>2
    <3> QED
      BY <1>6, <3>1, <3>2
  <2>3. gs[last] = fs[last]
    BY <1>3, <1>12
  <2> QED
    BY <1>4, <2>1, <2>2, <2>3 DEF StateOK, ThisOK
<1>18. PairOK(x, callers[1])
  BY DEF PairOK
<1> DEFINE ds == <<x>> \o callers
<1>19. ds \in Seq(CallRecords) /\ Len(ds) = Len(callers) + 1 /\ ds[1] = x
       /\ \A k \in 1..Len(callers) : ds[k + 1] = callers[k]
  BY <1>3, <1>14, Pushed
<1> HIDE DEF ds, x
<1>20. CallsOK(gs, ds, new)
  BY <1>2, <1>3, <1>6, <1>13, <1>15, <1>16, <1>17, <1>18, <1>19, ChainPush
<1>21. LockTop(ds, new) = new /\ LockTop(callers, last) = last
  BY <1>19 DEF LockTop, x
<1>22. LocksOK(gs, new, Enter(ob))
  <2>1. LocksOK(fs, last, locked)
    BY <1>21 DEF StackOK
  <2>2. ASSUME NEW b \in Lockable
        PROVE  Held(gs, new, b) = IF b = ob THEN Held(fs, last, b) \cup {new} ELSE Held(fs, last, b)
    <3>1. /\ \A g \in DOMAIN fs : g \in Held(gs, new, b) <=> g \in Held(fs, last, b)
          /\ dummy \notin Held(gs, new, b)
          /\ new \in Held(gs, new, b) <=> b = ob
      BY <1>3, <1>6, <1>7, <1>8, <1>12, Constants DEF Held
    <3>2. Held(gs, new, b) \subseteq DOMAIN fs \cup {dummy, new} /\ Held(fs, last, b) \subseteq DOMAIN fs
          /\ new \notin DOMAIN fs
      BY <1>10, <1>11, <1>12 DEF Held
    <3> QED
      BY <3>1, <3>2
  <2>3. new \notin DOMAIN fs
    BY <1>10, <1>11
  <2>4. Enter(ob) = IF ob = Nil THEN locked ELSE [locked EXCEPT ![ob] = @ + 1]
    BY DEF Enter
  <2> QED
    <3> DEFINE kl == Enter(ob)
    <3> HIDE DEF kl
    <3>1. kl = IF ob = Nil THEN locked ELSE [locked EXCEPT ![ob] = @ + 1]
      BY <2>4 DEF kl
    <3>2. LocksOK(gs, new, kl)
      <4>1. Adds(fs, last, locked, gs, new, kl, ob, new)
        BY <2>1, <2>2, <2>3, <3>1 DEF Adds
      <4> QED
        BY <1>3, <4>1, LocksAdd
    <3> QED
      BY <3>2 DEF kl
<1>23. Counted(gs, ds)
  <2>1. Dummies(gs) = Dummies(fs) \cup {dummy}
    BY <1>7, <1>8, <1>12, Constants DEF Dummies
  <2>2. Cardinality(Dummies(gs)) = Cardinality(Dummies(fs)) + 1
    <3>1. dummy \notin Dummies(fs)
      BY <1>10 DEF Dummies
    <3> QED
      BY <1>3, <2>1, <3>1, DummiesAreFinite, FS_AddElement
  <2>3. Cardinality(Executions(ds)) = Cardinality(Executions(callers)) + 1
    <3>1. ds[1].by = "execute"
      BY <1>19 DEF x
    <3> QED
      BY <1>3, <1>19, <3>1, ExecutionsShift
  <2> QED
    BY <2>2, <2>3 DEF Counted, StackOK
<1>24. frames' = gs /\ last' = new /\ locked' = Enter(ob) /\ calls' = ds
  BY <1>1 DEF ds, gs, hs, x, one, two, new, sp, dummy, ob
<1> QED
  BY <1>11, <1>20, <1>21, <1>22, <1>23, <1>24 DEF StackOK

(* executeMethod returns to its caller, by a return or an exception: f is  *)
(* the frame of the method it called, or the last of those the exception   *)
(* has left, and d its dummy frame.                                        *)
Returns(f, d, L) ==
    /\ StackOK(frames, last, calls, locked) /\ Len(calls) > 1 /\ Chain(frames, calls, last, L)
    /\ calls[1].by = "execute" /\ d \in DOMAIN frames
    /\ ExecutedFrom(frames, calls[1], last, L[2], d)
    /\ f \in DOMAIN frames /\ frames[f].prev = d /\ LockTop(calls, last) = f

LEMMA EndStep ==
    ASSUME NEW f, NEW d, NEW L, Returns(f, d, L), NEW thrown \in BOOLEAN,
           EndOfExecuteMethod(f, thrown)
    PROVE  StackOK(frames, last, calls, locked)' /\ exception' \in BOOLEAN
<1> DEFINE caller == frames[frames[f].prev].prev
           c == calls[2]
           r == Resumed(c, thrown)
           gs == UpTo(caller)
           ds == <<r>> \o Tail(Tail(calls))
           kl == Exit(calls[1].sync)
<1>1. /\ FramesOK(frames) /\ FramesTyped(frames) /\ IsLast(frames, last)
      /\ last \in DOMAIN frames /\ last \in Nat /\ DOMAIN frames \subseteq Nat
      /\ calls \in Seq(CallRecords) /\ Len(calls) > 1 /\ Len(calls) > 0 /\ Len(calls) \in Nat
      /\ Chain(frames, calls, last, L) /\ LocksOK(frames, f, locked)
      /\ d \in DOMAIN frames /\ f \in DOMAIN frames /\ d \in Nat /\ f \in Nat /\ f <= last
      /\ frames[d].mb = Nil /\ frames[d].prev = L[2] /\ frames[f].prev = d
  BY FrameFields DEF Returns, StackOK, FramesOK, FramesTyped, IsLast, CallsOK, ExecutedFrom
<1>2. Top = calls[1]
  BY <1>1 DEF Top
<1>3. /\ locked' = kl /\ last' = caller /\ frames' = gs /\ calls' = ds
      /\ exception' = (thrown \/ (c.kind = "java" /\ c.at = "signal"))
  BY <1>2 DEF EndOfExecuteMethod
<1>4. caller = L[2]
  BY <1>1
<1>5. /\ c \in CallRecords /\ L[2] \in DOMAIN frames /\ L[2] \in Nat
      /\ PairOK(calls[1], c) /\ calls[1] \in CallRecords
      /\ c.by # "thread" => /\ Len(calls) > 2 /\ StateOK(frames, c, L[2])
                            /\ CallOK(frames, c, L[2], L[3])
      /\ c.by = "thread" => Len(calls) = 2 /\ L[2] = Base /\ c = ThreadCall
  <2>1. calls[1].by # "thread"
    BY DEF Returns
  <2> QED
    BY <1>1, <2>1, TopChain
<1> HIDE DEF c
<1>6. d # Base /\ f # Base /\ d < f /\ L[2] < d
  <2>1. d # Base
    BY <1>1, Constants DEF FramesTyped
  <2>2. f # Base
    BY <1>1, Constants DEF FramesTyped
  <2> QED
    BY <1>1, <2>1, <2>2, Before
<1>7. c.kind = "java" => c.at \in {"call", "signal"}
  BY <1>5 DEF PairOK, Returns
<1>8. /\ r \in CallRecords /\ r.by = c.by /\ r.kind = c.kind /\ r.frame = c.frame
      /\ r.sync = c.sync /\ r.sp = c.sp /\ r.this = c.this /\ r.at # "unwind"
      /\ c.kind = "native" => r = c
      /\ c.kind = "java" => r.at \in {"run", "throw"}
  <2>1. CASE c.kind = "java"
    <3> DEFINE a == IF thrown \/ c.at = "signal" THEN "throw" ELSE "run"
    <3>1. r = [c EXCEPT !.at = a]
      BY <2>1 DEF Resumed
    <3>2. a \in {"run", "throw"}
      OBVIOUS
    <3> HIDE DEF a, r
    <3> QED
      BY <1>5, <2>1, <3>1, <3>2 DEF CallRecords
  <2>2. CASE c.kind = "native"
    <3>1. r = c
      BY <2>2 DEF Resumed
    <3>2. c.at # "unwind"
      <4>1. CASE c.by = "thread"
        BY <1>5, <4>1 DEF ThreadCall
      <4>2. CASE c.by # "thread"
        BY <1>5, <2>2, <4>2 DEF StateOK
      <4> QED
        BY <4>1, <4>2
    <3> QED
      BY <1>5, <2>2, <3>1, <3>2
  <2> QED
    BY <1>5, <2>1, <2>2, CallFields
<1>9. /\ FramesOK(gs) /\ IsLast(gs, L[2]) /\ Same(frames, gs, L[2])
      /\ \A h : h \in DOMAIN gs <=> h \in DOMAIN frames /\ h <= L[2]
      /\ \A h \in DOMAIN gs : gs[h] = frames[h]
  BY <1>1, <1>4, <1>5, UpToKeeps
<1>10. /\ ds \in Seq(CallRecords) /\ Len(ds) = Len(calls) - 1 /\ ds[1] = r
       /\ \A k \in 2..(Len(calls) - 1) : ds[k] = calls[k + 1]
  BY <1>1, <1>8, Popped
<1> HIDE DEF gs, ds, r, caller
<1>11. c.by # "thread" => StateOK(gs, r, L[2])
  <2> SUFFICES ASSUME c.by # "thread" PROVE StateOK(gs, r, L[2])
    OBVIOUS
  <2>1. StateOK(frames, c, L[2])
    BY <1>5
  <2>2. End(gs, L[2]) = End(frames, L[2])
    BY <1>5, <1>9 DEF End
  <2>3. \A h \in DOMAIN gs : h \in DOMAIN frames
    BY <1>9
  <2>4. CASE c.kind = "native"
    BY <1>8, <2>1, <2>4 DEF StateOK
  <2>5. CASE c.kind = "java"
    <3>1. gs[L[2]] = frames[L[2]]
      BY <1>5, <1>9
    <3> QED
      BY <1>7, <1>8, <2>1, <2>2, <2>3, <2>5, <3>1 DEF StateOK, ThisOK
  <2> QED
    BY <1>5, <2>4, <2>5, CallFields
<1>12. CallsOK(gs, ds, L[2])
  <2>1. DOMAIN gs \subseteq DOMAIN frames
    BY <1>9
  <2>2. \A k \in 2..Len(ds) : ds[k] = calls[k + 1]
    BY <1>10
  <2>3. c.by = "thread" => r = c
    BY <1>5, <1>8 DEF ThreadCall
  <2> QED
    BY <1>1, <1>8, <1>9, <1>10, <1>11, <2>1, <2>2, <2>3, ChainPop DEF c
<1>13. LockTop(ds, L[2]) = L[2]
  BY <1>8, <1>10 DEF LockTop
<1>14. LocksOK(gs, L[2], kl)
  <2> DEFINE b == calls[1].sync
  <2>1. b \in Lockable \cup {Nil} /\ frames[f].sync = b /\ frames[d].sync = Nil
    <3>1. frames[d].sync = Nil
      BY <1>1, <1>6, Before DEF FrameOK
    <3>2. frames[f].sync = b
      BY <1>1, <1>6 DEF Returns, ExecutedFrom
    <3> QED
      BY <1>5, <3>1, <3>2, CallFields
  <2> HIDE DEF b
  <2>2. ASSUME NEW o \in Lockable
        PROVE  Held(gs, L[2], o) = IF o = b THEN Held(frames, f, o) \ {f} ELSE Held(frames, f, o)
    <3>1. ASSUME NEW h \in DOMAIN frames, h <= f, frames[h].sync = o
          PROVE  h = f \/ h <= L[2]
      <4>1. h \in Nat
        BY <1>1
      <4>2. h < f => h <= d
        BY <1>1, <1>6, Before
      <4>3. h < d => h <= L[2]
        BY <1>1, <1>6, Before
      <4>4. h # d
        BY <2>1, <3>1, Constants
      <4> QED
        BY <1>1, <3>1, <4>1, <4>2, <4>3, <4>4
    <3>2. \A h : h \in Held(gs, L[2], o)
                   <=> h \in DOMAIN frames /\ h <= L[2] /\ frames[h].sync = o
      BY <1>9 DEF Held
    <3>3. \A h : h \in Held(frames, f, o)
                   <=> h \in DOMAIN frames /\ h <= f /\ frames[h].sync = o
      BY DEF Held
    <3>4. \A h \in DOMAIN frames : h <= L[2] => h <= f /\ h # f
      BY <1>1, <1>5, <1>6
    <3>5. \A h : h \in Held(gs, L[2], o) <=> h \in Held(frames, f, o) /\ h # f
      BY <3>1, <3>2, <3>3, <3>4
    <3>6. f \in Held(frames, f, o) => o = b
      BY <2>1, <3>3
    <3> QED
      BY <3>5, <3>6
  <2>3. b # Nil => f \in Held(frames, f, b)
    BY <1>1, <2>1 DEF Held
  <2>4. kl = IF b = Nil THEN locked ELSE [locked EXCEPT ![b] = IF @ = 0 THEN 0 ELSE @ - 1]
    BY DEF Exit, b
  <2> HIDE DEF kl
  <2>5. Drops(frames, f, locked, gs, L[2], kl, b, f)
    BY <1>1, <2>1, <2>2, <2>3, <2>4 DEF Drops
  <2> QED
    BY <1>1, <2>5, LocksDrop
<1>15. Counted(gs, ds)
  <2>1. Dummies(gs) = Dummies(frames) \ {d}
    <3>1. ASSUME NEW h \in DOMAIN frames, frames[h].mb = Nil PROVE h = d \/ h <= L[2]
      <4>1. h \in Nat /\ h <= last
        BY <1>1 DEF IsLast
      <4>2. ~(d < h)
        BY <1>1, <3>1, <4>1, Constants DEF Returns, ExecutedFrom
      <4>3. h < d => h <= L[2]
        BY <1>1, <1>6, Before
      <4> QED
        BY <1>1, <4>1, <4>2, <4>3
    <3>2. \A h \in DOMAIN frames : h <= L[2] => h # d
      BY <1>1, <1>5, <1>6
    <3>3. \A h : h \in Dummies(gs) <=> h \in Dummies(frames) /\ h # d
      BY <1>9, <3>1, <3>2 DEF Dummies
    <3> QED
      BY <3>3
  <2>2. Cardinality(Dummies(gs)) = Cardinality(Dummies(frames)) - 1
    <3>1. d \in Dummies(frames)
      BY <1>1 DEF Dummies
    <3>2. Cardinality(Dummies(frames) \ {d}) = Cardinality(Dummies(frames)) - 1
      BY <1>1, <3>1, DummiesAreFinite, FS_RemoveElement
    <3> QED
      BY <2>1, <3>2
  <2>3. /\ Cardinality(Executions(ds)) \in Nat
        /\ Cardinality(Executions(calls)) = Cardinality(Executions(ds)) + 1
    <3>1. Len(calls) = Len(ds) + 1
      BY <1>1, <1>10
    <3>2. \A k \in 1..Len(ds) : calls[k + 1].by = ds[k].by
      <4>1. \A k \in 1..Len(ds) : k = 1 \/ k \in 2..(Len(calls) - 1)
        BY <1>1, <1>10
      <4> QED
        BY <1>8, <1>10, <4>1 DEF c
    <3>3. calls[1].by = "execute"
      BY DEF Returns
    <3> QED
      BY <1>1, <1>10, <3>1, <3>2, <3>3, ExecutionsShift
  <2>4. Cardinality(Dummies(frames)) = Cardinality(Executions(calls))
    BY DEF Returns, StackOK, Counted
  <2>5. Cardinality(Dummies(frames)) \in Nat
    BY <1>1, DummiesAreFinite
  <2> QED
    BY <2>2, <2>3, <2>4, <2>5 DEF Counted
<1>16. StackOK(gs, L[2], ds, kl)
  BY <1>9, <1>12, <1>13, <1>14, <1>15 DEF StackOK
<1>17. frames' = gs /\ last' = L[2] /\ calls' = ds /\ locked' = kl
  BY <1>3, <1>4 DEF gs, ds, r, caller, c
<1>18. exception' \in BOOLEAN
  BY <1>3
<1> HIDE DEF kl
<1> QED
  BY <1>16, <1>17, <1>18

-----------------------------------------------------------------------------
(* The actions of the interpreter.                                         *)

(* The interpreter runs, or looks for a handler.                           *)
AtJava(L, d) ==
    /\ StackOK(frames, last, calls, locked)
    /\ FramesOK(frames) /\ FramesTyped(frames) /\ IsLast(frames, last)
    /\ last \in DOMAIN frames /\ last \in Nat /\ DOMAIN frames \subseteq Nat
    /\ calls \in Seq(CallRecords) /\ Len(calls) > 1 /\ Len(calls) \in Nat
    /\ Chain(frames, calls, last, L)
    /\ L[2] \in DOMAIN frames /\ L[2] \in Nat /\ L[2] < last
    /\ calls[1] \in CallRecords /\ Top = calls[1]
    /\ calls[1].kind = "java" /\ calls[1].by = "execute"
    /\ CallOK(frames, calls[1], last, L[2]) /\ StateOK(frames, calls[1], last)
    /\ d \in DOMAIN frames /\ d \in Nat /\ ExecutedFrom(frames, calls[1], last, L[2], d)
    /\ calls[1].frame \in DOMAIN frames /\ calls[1].frame \in Nat /\ calls[1].frame <= last
    /\ d < calls[1].frame /\ L[2] < d
    /\ stackEnd \in Nat /\ exception \in BOOLEAN

LEMMA JavaState ==
    ASSUME JInv, Top.kind = "java"
    PROVE  \E L, d : AtJava(L, d)
<1>1. PICK L : Chain(frames, calls, last, L)
  BY DEF JInv, StackOK, CallsOK
<1>2. /\ StackOK(frames, last, calls, locked) /\ FramesOK(frames) /\ FramesTyped(frames)
      /\ IsLast(frames, last) /\ last \in DOMAIN frames /\ last \in Nat
      /\ DOMAIN frames \subseteq Nat /\ calls \in Seq(CallRecords) /\ Len(calls) > 0
      /\ Len(calls) \in Nat /\ stackEnd \in Nat /\ exception \in BOOLEAN
  BY FrameFields DEF JInv, StackOK, CallsOK, IsLast, FramesOK, FramesTyped
<1>3. calls[1].kind = "java" /\ Top = calls[1]
  BY <1>2 DEF Top
<1>4. /\ calls[1].by = "execute"
      /\ \E d \in DOMAIN frames : ExecutedFrom(frames, calls[1], last, L[2], d)
      /\ calls[1].frame \in DOMAIN frames /\ calls[1].frame <= last
  BY <1>1, <1>2, <1>3, JavaTop
<1>5. PICK d \in DOMAIN frames : ExecutedFrom(frames, calls[1], last, L[2], d)
  BY <1>4
<1>6. /\ Len(calls) > 1 /\ CallOK(frames, calls[1], last, L[2])
      /\ StateOK(frames, calls[1], last)
      /\ calls[1] \in CallRecords /\ L[2] \in Nat /\ L[2] \in DOMAIN frames
  <2>1. calls[1].by # "thread"
    BY <1>4
  <2> QED
    BY <1>1, <1>2, <2>1, TopChain
<1>7. d \in Nat /\ calls[1].frame \in Nat /\ d < calls[1].frame /\ L[2] < last
  BY <1>2, <1>3, <1>4, <1>5, <1>6 DEF ExecutedFrom, CallOK
<1>8. L[2] < d
  <2>1. d # Base
    BY <1>2, <1>5, Constants DEF FramesTyped, ExecutedFrom
  <2> QED
    BY <1>2, <1>5, <2>1, Before DEF ExecutedFrom
<1> QED
  BY <1>1, <1>2, <1>3, <1>4, <1>5, <1>6, <1>7, <1>8 DEF AtJava

LEMMA SameCounts ==
    ASSUME NEW fs, NEW gs, SameFrames(fs, gs)
    PROVE  Dummies(gs) = Dummies(fs) /\ \A t, o : Held(gs, t, o) = Held(fs, t, o)
BY DEF SameFrames, Dummies, Held

(* The interpreter goes on with another record on the same frame.          *)
LEMMA SameTop ==
    ASSUME NEW L, NEW d, AtJava(L, d), NEW gs, FramesOK(gs), SameFrames(frames, gs),
           NEW r \in CallRecords, r.kind = "java", r.by = "execute", r.sync = calls[1].sync,
           r.frame \in DOMAIN frames, d < r.frame, r.frame <= last, StateOK(gs, r, last),
           NEW kl, LocksOK(frames, IF r.at = "unwind" THEN r.frame ELSE last, kl)
    PROVE  StackOK(gs, last, Now(r), kl)
<1> USE DEF AtJava
<1>1. /\ DOMAIN gs = DOMAIN frames
      /\ \A f \in DOMAIN frames : /\ gs[f].mb = frames[f].mb /\ gs[f].prev = frames[f].prev
                                  /\ gs[f].sync = frames[f].sync
  BY DEF SameFrames
<1>2. /\ Now(r) \in Seq(CallRecords) /\ Len(Now(r)) = Len(calls) /\ Now(r)[1] = r
      /\ \A k \in 2..Len(calls) : Now(r)[k] = calls[k]
  BY NowReplaces
<1>3. IsLast(gs, last) /\ Same(frames, gs, L[2])
  BY <1>1, SameUpTo DEF IsLast
<1>4. CallOK(gs, r, last, L[2])
  <2>1. d < last
    BY DEF ExecutedFrom
  <2>2. \A g \in DOMAIN gs : d < g /\ g <= last =>
           /\ g \in DOMAIN frames /\ g <= last /\ gs[g].mb = frames[g].mb
           /\ gs[g].prev = frames[g].prev /\ gs[g].sync = frames[g].sync
    BY <1>1
  <2>3. /\ d \in DOMAIN gs /\ L[2] \in DOMAIN gs /\ gs[d].prev = frames[d].prev
        /\ gs[d].mb = frames[d].mb /\ last \in DOMAIN gs /\ r.frame \in DOMAIN gs
    BY <1>1
  <2> HIDE DEF AtJava
  <2>4. /\ FramesOK(frames) /\ calls[1] \in CallRecords /\ calls[1].kind = "java"
        /\ last \in DOMAIN frames /\ L[2] \in DOMAIN frames /\ L[2] < last
        /\ d \in DOMAIN frames /\ ExecutedFrom(frames, calls[1], last, L[2], d)
    BY DEF AtJava
  <2> QED
    BY <2>1, <2>2, <2>3, <2>4, JavaCallOK
<1>5. LocksOK(gs, LockTop(Now(r), last), kl)
  <2>1. LockTop(Now(r), last) = IF r.at = "unwind" THEN r.frame ELSE last
    BY <1>2 DEF LockTop
  <2> QED
    BY <2>1, SameCounts, LocksSame
<1>6. Cardinality(Dummies(gs)) = Cardinality(Dummies(frames))
  BY SameCounts
<1>7. \A h \in DOMAIN gs : h \in DOMAIN frames
  BY <1>1
<1> DEFINE ds == Now(r)
<1> HIDE DEF ds
<1>8. /\ ds \in Seq(CallRecords) /\ Len(ds) = Len(calls) /\ ds[1].by = calls[1].by
      /\ \A k \in 2..Len(calls) : ds[k] = calls[k]
      /\ CallOK(gs, ds[1], last, L[2]) /\ StateOK(gs, ds[1], last)
      /\ LocksOK(gs, LockTop(ds, last), kl)
  BY <1>2, <1>4, <1>5 DEF ds
<1>9. StackOK(gs, last, ds, kl)
  BY <1>3, <1>6, <1>7, <1>8, TopStep
<1> QED
  BY <1>9 DEF ds

LEMMA SameFramesRefl ==
    ASSUME NEW fs
    PROVE  SameFrames(fs, fs)
BY DEF SameFrames

LEMMA pushStep ==
    ASSUME JInv, push
    PROVE  JInv'
<1>1. PICK L, d : AtJava(L, d)
  BY JavaState DEF push, Running
<1> DEFINE r == [Top EXCEPT !.sp = @ + 1]
<1>2. /\ r \in CallRecords /\ r.kind = "java" /\ r.by = "execute" /\ r.sync = calls[1].sync
      /\ r.frame = calls[1].frame /\ r.at = "run" /\ r.sp = calls[1].sp + 1
      /\ r.this = calls[1].this
  <2>1. Top = calls[1] /\ calls[1] \in CallRecords /\ calls[1].at = "run"
        /\ calls[1].kind = "java" /\ calls[1].by = "execute"
    BY <1>1 DEF AtJava, push, Running
  <2>2. calls[1].sp + 1 \in Nat
    BY <2>1, CallFields
  <2>3. r = [calls[1] EXCEPT !.sp = calls[1].sp + 1]
    BY <2>1
  <2> HIDE DEF r
  <2> QED
    BY <2>1, <2>2, <2>3 DEF CallRecords
<1>3. /\ calls' = Now(r) /\ frames' = frames /\ last' = last /\ locked' = locked
      /\ stackEnd' = stackEnd /\ exception' = exception
      /\ calls[1].sp < Ostack(calls[1].frame) + MaxStackOf(frames[calls[1].frame].mb)
      /\ calls[1].at = "run"
  BY <1>1 DEF push, AtJava, Running
<1> HIDE DEF r
<1>4. StateOK(frames, r, last)
  <2>1. calls[1].frame = last /\ Ostack(last) <= calls[1].sp /\ calls[1].sp \in Nat
        /\ Ostack(last) \in Nat /\ End(frames, last) \in Nat
    BY <1>1, <1>3, CallFields, EndIsAbove DEF AtJava, StateOK
  <2>2. r.sp \in Nat /\ Ostack(last) <= r.sp /\ r.sp <= End(frames, last)
    BY <1>2, <1>3, <2>1 DEF End
  <2>3. \A h \in DOMAIN frames : ~(h > last)
    BY <1>1 DEF AtJava, IsLast
  <2>4. ThisOK(frames, r, last)
    BY <1>1, <1>2, <1>3 DEF AtJava, StateOK, ThisOK
  <2> QED
    BY <1>2, <2>1, <2>2, <2>3, <2>4 DEF StateOK
<1>5. LocksOK(frames, last, locked)
  BY <1>1, <1>3 DEF AtJava, StackOK, LockTop
<1>6. StackOK(frames, last, Now(r), locked)
  <2>1. r.frame \in DOMAIN frames /\ d < r.frame /\ r.frame <= last
    BY <1>1, <1>2 DEF AtJava
  <2>2. LocksOK(frames, IF r.at = "unwind" THEN r.frame ELSE last, locked)
    BY <1>2, <1>5
  <2>3. FramesOK(frames) /\ SameFrames(frames, frames)
    BY <1>1, SameFramesRefl DEF AtJava
  <2> QED
    BY <1>1, <1>2, <1>4, <2>1, <2>2, <2>3, SameTop
<1> QED
  BY <1>1, <1>3, <1>6 DEF JInv, AtJava

(* Local variable 0 of the frame on top gets another value, which sync_ob  *)
(* does not ask for: if this is kept, the method is not one of those that  *)
(* are synchronized on it.                                                 *)
LEMMA astore_0Step ==
    ASSUME JInv, astore_0
    PROVE  JInv'
<1>1. PICK L, d : AtJava(L, d)
  BY JavaState DEF astore_0, Running
<1>2. /\ calls[1].frame = last /\ Top = calls[1] /\ calls[1] \in CallRecords
      /\ calls[1].at = "run" /\ calls[1].kind = "java" /\ calls[1].by = "execute"
      /\ FramesOK(frames) /\ FramesTyped(frames) /\ last \in DOMAIN frames /\ last \in Nat
      /\ StateOK(frames, calls[1], last) /\ IsLast(frames, last)
      /\ frames[last].mb \in Overwrites /\ frames[last].mb \in Methods /\ calls[1].sp > Ostack(last)
  BY <1>1, Constants DEF AtJava, StateOK, astore_0, Running
<1>3. PICK o \in Objects : frames' = [frames EXCEPT ![last].local0 = o]
  BY <1>2 DEF astore_0
<1> DEFINE gs == [frames EXCEPT ![last].local0 = o]
           two == [frames[last] EXCEPT !.local0 = o]
           r == [Top EXCEPT !.sp = @ - 1]
<1>4. /\ DOMAIN gs = DOMAIN frames /\ gs[last] = two /\ gs = [g \in DOMAIN gs |-> gs[g]]
      /\ \A g \in DOMAIN frames : g # last => gs[g] = frames[g]
  BY <1>2
<1>5. /\ two \in FrameRecords /\ two.mb = frames[last].mb /\ two.lvars = frames[last].lvars
      /\ two.prev = frames[last].prev /\ two.sync = frames[last].sync
      /\ two.next = frames[last].next /\ two.caught = frames[last].caught /\ two.local0 = o
  <2>1. frames[last] \in FrameRecords
    BY <1>2, FrameFields
  <2> QED
    BY <2>1 DEF FrameRecords
<1> HIDE DEF gs, two
<1>6. SyncOK(two)
  <2> SUFFICES ASSUME ThisIsKept PROVE two.sync = sync_ob(two.mb, two.local0)
    BY DEF SyncOK
  <2>1. Synchronized[frames[last].mb] # "instance"
    BY <1>2 DEF ThisIsKept
  <2>2. frames[last].sync = sync_ob(frames[last].mb, frames[last].local0)
    BY <1>2 DEF FramesTyped, SyncOK
  <2>3. frames[last].local0 \in Objects \cup {Nil}
    BY <1>2, FrameFields
  <2>4. sync_ob(frames[last].mb, o) = sync_ob(frames[last].mb, frames[last].local0)
    BY <1>2, <2>1, <2>3, SyncObType
  <2> QED
    BY <1>5, <2>2, <2>4
<1>7. SameFrames(frames, gs)
  BY <1>4, <1>5 DEF SameFrames
<1>8. FramesTyped(gs)
  <2>1. ASSUME NEW g \in DOMAIN gs
        PROVE  gs[g] \in FrameRecords /\ SyncOK(gs[g]) /\ (gs[g].caught => gs[g].mb \in Handlers)
    <3>1. frames[g] \in FrameRecords /\ SyncOK(frames[g])
          /\ (frames[g].caught => frames[g].mb \in Handlers)
      BY <1>2, <1>4, FrameFields DEF FramesTyped
    <3>2. CASE g = last
      BY <1>4, <1>5, <1>6, <3>1, <3>2
    <3>3. CASE g # last
      BY <1>4, <3>1, <3>3
    <3> QED
      BY <3>2, <3>3
  <2>2. gs \in [DOMAIN gs -> FrameRecords]
    BY <1>4, <2>1
  <2>3. gs[Base].mb = "thread" /\ gs[Base].prev = Nil /\ gs[Base].sync = Nil
    BY <1>2, <1>7 DEF FramesTyped, SameFrames
  <2> QED
    BY <1>2, <1>4, <2>1, <2>2, <2>3 DEF FramesTyped
<1>9. FramesOK(gs)
  <2>1. ASSUME NEW g \in DOMAIN gs \ {Base} PROVE FrameOK(gs, g)
    <3>1. g \in DOMAIN frames \ {Base} /\ Same(frames, gs, g) /\ DOMAIN gs \subseteq Nat
      BY <1>4, <1>7, <1>8, SameUpTo DEF FramesTyped
    <3> QED
      BY <1>2, <3>1, SameFrameOK DEF FramesOK
  <2> QED
    BY <1>8, <2>1 DEF FramesOK
<1>10. /\ r \in CallRecords /\ r.kind = "java" /\ r.by = "execute" /\ r.sync = calls[1].sync
       /\ r.frame = last /\ r.at = "run" /\ r.sp = calls[1].sp - 1 /\ r.this = calls[1].this
       /\ r.sp \in Nat /\ Ostack(last) <= r.sp /\ r.sp < calls[1].sp
  <2>1. Ostack(last) \in Nat /\ calls[1].sp \in Nat
    BY <1>2, EndIsAbove, CallFields
  <2>2. /\ calls[1].sp - 1 \in Nat /\ Ostack(last) <= calls[1].sp - 1
        /\ calls[1].sp - 1 < calls[1].sp
    BY <1>2, <2>1
  <2>3. r = [calls[1] EXCEPT !.sp = calls[1].sp - 1]
    BY <1>2
  <2> HIDE DEF r
  <2> QED
    BY <1>2, <2>2, <2>3 DEF CallRecords
<1> HIDE DEF r
<1>11. StateOK(gs, r, last)
  <2>1. End(gs, last) = End(frames, last) /\ End(frames, last) \in Nat
    BY <1>2, <1>7, EndIsAbove DEF SameFrames, End
  <2>2. calls[1].sp <= End(frames, last) /\ calls[1].sp \in Nat
    BY <1>2, CallFields DEF StateOK
  <2>3. r.sp <= End(gs, last)
    BY <1>10, <2>1, <2>2
  <2>4. \A h \in DOMAIN gs : ~(h > last)
    BY <1>2, <1>4 DEF IsLast, FramesTyped
  <2>5. ThisOK(gs, r, last)
    BY <1>2, <1>7, <1>10 DEF StateOK, ThisOK, SameFrames
  <2> QED
    BY <1>10, <2>3, <2>4, <2>5 DEF StateOK
<1>12. LocksOK(frames, last, locked)
  BY <1>1, <1>2 DEF AtJava, StackOK, LockTop
<1>13. StackOK(gs, last, Now(r), locked)
  <2>1. r.frame \in DOMAIN frames /\ d < r.frame /\ r.frame <= last
    BY <1>1, <1>2, <1>10 DEF AtJava
  <2>2. LocksOK(frames, IF r.at = "unwind" THEN r.frame ELSE last, locked)
    BY <1>10, <1>12
  <2> QED
    BY <1>1, <1>7, <1>9, <1>10, <1>11, <2>1, <2>2, SameTop
<1>14. /\ frames' = gs /\ calls' = Now(r) /\ last' = last /\ locked' = locked
       /\ stackEnd' = stackEnd /\ exception' = exception
  BY <1>3 DEF astore_0, gs, r
<1> QED
  BY <1>1, <1>13, <1>14 DEF JInv, AtJava

(* The program counter of a frame is that of an instruction that calls     *)
(* C code or throws.                                                       *)
LEMMA MarkStep ==
    ASSUME JInv, Running("java"), NEW fs \in AtInstruction(frames, Top.frame),
           NEW a \in {"call", "signal", "throw"}
    PROVE  /\ FramesOK(fs) /\ SameFrames(frames, fs)
           /\ StackOK(fs, last, Now([Top EXCEPT !.at = a]), locked)
           /\ FramesOK(frames) /\ IsLast(frames, last) /\ stackEnd \in Nat /\ exception \in BOOLEAN
           /\ Now([Top EXCEPT !.at = a])[1].at = a
<1>1. PICK L, d : AtJava(L, d)
  BY JavaState DEF Running
<1> DEFINE r == [Top EXCEPT !.at = a]
<1>2. /\ r \in CallRecords /\ r.kind = "java" /\ r.by = "execute" /\ r.sync = calls[1].sync
      /\ r.frame = calls[1].frame /\ r.at = a /\ r.sp = calls[1].sp /\ r.this = calls[1].this
  BY <1>1 DEF AtJava, CallRecords
<1> HIDE DEF r
<1>3. calls[1].at = "run" /\ calls[1].frame = last /\ Top.frame = last
  BY <1>1 DEF AtJava, Running, StateOK
<1>4. FramesOK(fs) /\ SameFrames(frames, fs)
  BY <1>1, <1>3, AtInstructionKeeps DEF AtJava
<1>5. StateOK(fs, r, last)
  <2>1. StateOK(frames, calls[1], last) /\ calls[1].kind = "java"
    BY <1>1 DEF AtJava
  <2>2. End(fs, last) = End(frames, last) /\ DOMAIN fs = DOMAIN frames
        /\ fs[last].mb = frames[last].mb /\ fs[last].sync = frames[last].sync
    BY <1>1, <1>4 DEF AtJava, SameFrames, End
  <2> QED
    BY <1>2, <1>3, <2>1, <2>2 DEF StateOK, ThisOK
<1>6. LocksOK(frames, last, locked)
  BY <1>1, <1>3 DEF AtJava, StackOK, LockTop
<1>7. StackOK(fs, last, Now(r), locked)
  <2>1. r.frame \in DOMAIN frames /\ d < r.frame /\ r.frame <= last
    BY <1>1, <1>2 DEF AtJava
  <2>2. LocksOK(frames, IF r.at = "unwind" THEN r.frame ELSE last, locked)
    BY <1>2, <1>6
  <2> QED
    BY <1>1, <1>2, <1>4, <1>5, <2>1, <2>2, SameTop
<1>8. Now(r)[1] = r
  BY <1>1, <1>2, NowReplaces DEF AtJava
<1> QED
  BY <1>1, <1>2, <1>4, <1>7, <1>8 DEF r, AtJava

LEMMA ReceiversType ==
    ASSUME NEW m \in Methods, NEW o \in Receivers(m)
    PROVE  o \in Objects \cup {Nil}
BY DEF Receivers

LEMMA callFromByteCodeStep ==
    ASSUME JInv, NEW m \in Methods, callFromByteCode(m)
    PROVE  JInv'
<1>1. PICK fs \in AtInstruction(frames, Top.frame) : \E o \in Receivers(m) :
          ExecuteMethod(m, o, Now([Top EXCEPT !.at = "call"]), fs)
  BY DEF callFromByteCode
<1>2. PICK o \in Receivers(m) : ExecuteMethod(m, o, Now([Top EXCEPT !.at = "call"]), fs)
  BY <1>1
<1> DEFINE callers == Now([Top EXCEPT !.at = "call"])
<1> HIDE DEF callers
<1>3. /\ SameFrames(frames, fs) /\ StackOK(fs, last, callers, locked)
      /\ FramesOK(frames) /\ IsLast(frames, last) /\ stackEnd \in Nat /\ exception \in BOOLEAN
      /\ callers[1].at = "call"
  BY MarkStep DEF callFromByteCode, callers
<1>4. o \in Objects \cup {Nil}
  BY ReceiversType
<1>5. ExecuteMethod(m, o, callers, fs)
  BY <1>2 DEF callers
<1>6. StackOK(frames, last, calls, locked)'
  BY <1>3, <1>4, <1>5, ExecuteStep
<1> QED
  BY <1>3, <1>6 DEF JInv, callFromByteCode

(* An exception is made and its constructor called.                        *)
LEMMA SignalStep ==
    ASSUME JInv, Running("java"), NEW fs \in AtInstruction(frames, Top.frame),
           ExecuteMethod(Constructor, Nil, Now([Top EXCEPT !.at = "signal"]), fs)
    PROVE  /\ StackOK(frames, last, calls, locked)'
           /\ stackEnd \in Nat /\ exception \in BOOLEAN
<1> DEFINE callers == Now([Top EXCEPT !.at = "signal"])
<1> HIDE DEF callers
<1>1. /\ SameFrames(frames, fs) /\ StackOK(fs, last, callers, locked)
      /\ FramesOK(frames) /\ IsLast(frames, last) /\ stackEnd \in Nat /\ exception \in BOOLEAN
      /\ callers[1].at = "signal"
  BY MarkStep DEF callers
<1>2. Constructor \in Methods
  BY StackAssumption DEF StackAssumption
<1>3. ExecuteMethod(Constructor, Nil, callers, fs)
  BY DEF callers
<1>4. StackOK(frames, last, calls, locked)'
  BY <1>1, <1>2, <1>3, ExecuteStep
<1> QED
  BY <1>1, <1>4

LEMMA throwNewStep ==
    ASSUME JInv, throwNew
    PROVE  JInv'
BY SignalStep DEF throwNew, JInv

LEMMA stackOverflowStep ==
    ASSUME JInv, NEW m \in Methods, stackOverflow(m)
    PROVE  JInv'
<1>1. RedZone \in Nat
  BY StackAssumption DEF StackAssumption
<1>2. StackOK(frames, last, calls, locked)' /\ stackEnd \in Nat /\ exception \in BOOLEAN
  BY SignalStep DEF stackOverflow, Invokes
<1> QED
  BY <1>1, <1>2 DEF JInv, stackOverflow

LEMMA athrowStep ==
    ASSUME JInv, athrow
    PROVE  JInv'
<1> DEFINE r == [Top EXCEPT !.at = "throw"]
<1>1. /\ StackOK(frames', last, Now(r), locked) /\ stackEnd \in Nat
  BY MarkStep DEF athrow
<1> QED
  BY <1>1 DEF JInv, athrow

(* The frame f is left, and its object unlocked.                           *)
LEMMA LockPop ==
    ASSUME FramesOK(frames), NEW f \in DOMAIN frames, f # Base, LocksOK(frames, f, locked),
           NEW p, p = frames[f].prev, NEW gs, Same(frames, gs, p), DOMAIN gs \subseteq Nat,
           NEW b \in Lockable \cup {Nil}, ThisIsKept => b = frames[f].sync
    PROVE  LocksOK(gs, p, Exit(b))
<1> DEFINE kl == Exit(b)
<1>1. FramesTyped(frames) /\ DOMAIN frames \subseteq Nat
  BY FrameFields DEF FramesOK, FramesTyped
<1>2. /\ p \in DOMAIN frames /\ p \in Nat /\ f \in Nat /\ p < f
      /\ \A g \in DOMAIN frames : g < f => g <= p
  BY Before
<1>3. kl = IF b = Nil THEN locked ELSE [locked EXCEPT ![b] = IF @ = 0 THEN 0 ELSE @ - 1]
  BY DEF Exit
<1>4. ThisIsKept => (b # Nil => f \in Held(frames, f, b))
  BY <1>2 DEF Held
<1>5. ASSUME ThisIsKept, NEW o \in Lockable
      PROVE  Held(gs, p, o) = IF o = b THEN Held(frames, f, o) \ {f} ELSE Held(frames, f, o)
  <2>1. \A h : h \in Held(gs, p, o) <=> h \in DOMAIN frames /\ h <= p /\ frames[h].sync = o
    BY <1>1 DEF Held, Same
  <2>2. \A h \in DOMAIN frames : h <= p <=> h <= f /\ h # f
    BY <1>1, <1>2
  <2>3. \A h : h \in Held(gs, p, o) <=> h \in Held(frames, f, o) /\ h # f
    BY <2>1, <2>2 DEF Held
  <2>4. f \in Held(frames, f, o) => o = b
    BY <1>5 DEF Held
  <2> QED
    BY <2>3, <2>4
<1> HIDE DEF kl
<1>6. Drops(frames, f, locked, gs, p, kl, b, f)
  BY <1>1, <1>3, <1>4, <1>5 DEF Drops
<1>7. LocksOK(gs, p, kl)
  BY <1>1, <1>6, LocksDrop
<1> QED
  BY <1>7 DEF kl

(* The interpreter goes back to frame f, and the frames above are popped.  *)
LEMMA PopTo ==
    ASSUME NEW L, NEW d, AtJava(L, d), NEW f \in DOMAIN frames, d < f,
           NEW r \in CallRecords, r.kind = "java", r.by = "execute", r.sync = calls[1].sync,
           r.frame = f, r.at = "run", Ostack(f) <= r.sp, r.sp <= End(frames, f),
           r.this = frames[f].local0,
           NEW kl, LocksOK(UpTo(f), f, kl)
    PROVE  StackOK(UpTo(f), f, Now(r), kl)
<1> DEFINE gs == UpTo(f)
           ds == Now(r)
<1>1. /\ FramesOK(gs) /\ IsLast(gs, f) /\ Same(frames, gs, f)
      /\ \A h : h \in DOMAIN gs <=> h \in DOMAIN frames /\ h <= f
      /\ \A h \in DOMAIN gs : gs[h] = frames[h]
  BY UpToKeeps DEF AtJava
<1>2. /\ ds \in Seq(CallRecords) /\ Len(ds) = Len(calls) /\ ds[1] = r
      /\ \A k \in 2..Len(calls) : ds[k] = calls[k]
  BY NowReplaces DEF AtJava
<1> HIDE DEF gs, ds
<1>3. /\ f \in Nat /\ d \in Nat /\ L[2] \in Nat /\ L[2] < d /\ last \in Nat /\ f <= last
      /\ DOMAIN gs \subseteq Nat
  BY <1>1 DEF AtJava, IsLast
<1>4. CallOK(gs, r, f, L[2])
  <2>1. \A g \in DOMAIN gs : d < g /\ g <= f =>
           /\ g \in DOMAIN frames /\ g <= last /\ gs[g].mb = frames[g].mb
           /\ gs[g].prev = frames[g].prev /\ gs[g].sync = frames[g].sync
    BY <1>1 DEF AtJava, IsLast
  <2>2. /\ d \in DOMAIN gs /\ L[2] \in DOMAIN gs /\ gs[d].prev = frames[d].prev
        /\ gs[d].mb = frames[d].mb /\ f \in DOMAIN gs /\ f <= f
    BY <1>1, <1>3 DEF AtJava
  <2>3. /\ FramesOK(frames) /\ calls[1] \in CallRecords /\ calls[1].kind = "java"
        /\ last \in DOMAIN frames /\ L[2] \in DOMAIN frames /\ L[2] < last
        /\ d \in DOMAIN frames /\ ExecutedFrom(frames, calls[1], last, L[2], d)
    BY DEF AtJava
  <2> QED
    BY <1>1, <2>1, <2>2, <2>3, JavaCallOK
<1>5. StateOK(gs, r, f)
  <2>1. End(gs, f) = End(frames, f)
    BY <1>1, <1>3 DEF End
  <2>2. \A h \in DOMAIN gs : ~(h > f)
    BY <1>1, <1>3
  <2>3. ThisOK(gs, r, f)
    <3>1. gs[f] = frames[f] /\ SyncOK(frames[f]) /\ frames[f].mb \in Methods
      BY <1>1, <1>3 DEF AtJava, FramesTyped, ExecutedFrom
    <3> QED
      BY <3>1 DEF ThisOK, SyncOK
  <2> QED
    BY <2>1, <2>2, <2>3 DEF StateOK
<1>6. Cardinality(Dummies(gs)) = Cardinality(Dummies(frames))
  <2>1. ASSUME NEW h \in DOMAIN frames, frames[h].mb = Nil PROVE h <= f
    <3> SUFFICES ASSUME ~(h <= f) PROVE FALSE
      OBVIOUS
    <3>1. h \in Nat /\ d < h /\ h <= last
      BY <1>3 DEF AtJava, IsLast
    <3>2. frames[h].mb \in Methods
      BY <3>1 DEF AtJava, ExecutedFrom
    <3> QED
      BY <2>1, <3>2, Constants
  <2>2. \A h : h \in Dummies(gs) <=> h \in Dummies(frames)
    BY <1>1, <2>1 DEF Dummies
  <2>3. Dummies(gs) = Dummies(frames)
    BY <2>2
  <2> QED
    BY <2>3
<1>7. LocksOK(gs, LockTop(ds, f), kl)
  <2>1. LockTop(ds, f) = f
    BY <1>2 DEF LockTop
  <2> QED
    BY <2>1 DEF gs
<1>8. Same(frames, gs, L[2])
  BY <1>1, <1>3 DEF Same
<1>9. StackOK(gs, f, ds, kl)
  <2>1. /\ StackOK(frames, last, calls, locked) /\ Len(calls) > 1
        /\ Chain(frames, calls, last, L) /\ calls[1].by = "execute"
    BY DEF AtJava
  <2>2. /\ ds[1].by = calls[1].by /\ CallOK(gs, ds[1], f, L[2]) /\ StateOK(gs, ds[1], f)
        /\ \A h \in DOMAIN gs : h \in DOMAIN frames
    BY <1>1, <1>2, <1>4, <1>5, <2>1
  <2> QED
    BY <1>1, <1>2, <1>6, <1>7, <1>8, <2>1, <2>2, TopStep
<1> QED
  BY <1>9 DEF gs, ds

LEMMA throwExceptionStep ==
    ASSUME JInv, throwException
    PROVE  JInv'
<1>1. PICK L, d : AtJava(L, d)
  BY JavaState DEF throwException
<1> DEFINE r == [Top EXCEPT !.at = "unwind", !.frame = last]
<1>2. /\ r \in CallRecords /\ r.kind = "java" /\ r.by = "execute" /\ r.sync = calls[1].sync
      /\ r.frame = last /\ r.at = "unwind"
  BY <1>1 DEF AtJava, CallRecords
<1>3. /\ calls' = Now(r) /\ frames' = frames /\ last' = last /\ locked' = locked
      /\ stackEnd' = stackEnd /\ exception' = FALSE /\ calls[1].at = "throw"
  BY <1>1 DEF throwException, AtJava
<1> HIDE DEF r
<1>4. LocksOK(frames, last, locked)
  BY <1>1, <1>3 DEF AtJava, StackOK, LockTop
<1>5. StackOK(frames, last, Now(r), locked)
  <2>1. r.frame \in DOMAIN frames /\ d < r.frame /\ r.frame <= last
    BY <1>1, <1>2 DEF AtJava, ExecutedFrom
  <2>2. LocksOK(frames, IF r.at = "unwind" THEN r.frame ELSE last, locked)
    BY <1>2, <1>4
  <2>3. FramesOK(frames) /\ SameFrames(frames, frames)
    BY <1>1, SameFramesRefl DEF AtJava
  <2>4. StateOK(frames, r, last)
    BY <1>2 DEF StateOK
  <2> QED
    BY <1>1, <1>2, <2>1, <2>2, <2>3, <2>4, SameTop
<1> QED
  BY <1>1, <1>3, <1>5 DEF JInv, AtJava

LEMMA findCatchBlockStep ==
    ASSUME JInv, findCatchBlock
    PROVE  JInv'
<1>1. PICK L, d : AtJava(L, d)
  BY JavaState DEF findCatchBlock
<1> DEFINE f == calls[1].frame
           prev == frames[f].prev
<1>2. /\ f \in DOMAIN frames /\ f \in Nat /\ d < f /\ f <= last /\ calls[1].at = "unwind"
      /\ Top = calls[1] /\ Top.frame = f /\ calls[1] \in CallRecords /\ stackEnd' = stackEnd
      /\ stackEnd \in Nat /\ exception \in BOOLEAN /\ FramesOK(frames) /\ FramesTyped(frames)
      /\ calls[1].kind = "java" /\ calls[1].by = "execute"
  BY <1>1 DEF AtJava, findCatchBlock
<1> HIDE DEF f, prev
<1>3. /\ f # Base /\ frames[f].mb \in Methods \ NativeMethods
      /\ frames[prev].mb = Nil => prev = d
      /\ frames[prev].mb # Nil => d < prev
      /\ prev \in DOMAIN frames /\ prev \in Nat /\ prev < f
  <2>1. /\ f # Base /\ frames[f].mb \in Methods \ NativeMethods
        /\ frames[frames[f].prev].mb = Nil => frames[f].prev = d
        /\ frames[frames[f].prev].mb # Nil => d < frames[f].prev
    <3>1. /\ FramesOK(frames) /\ calls[1] \in CallRecords /\ calls[1].kind = "java"
          /\ last \in DOMAIN frames /\ L[2] \in DOMAIN frames
          /\ d \in DOMAIN frames /\ ExecutedFrom(frames, calls[1], last, L[2], d)
      BY <1>1 DEF AtJava
    <3> QED
      BY <1>2, <3>1, JavaBefore
  <2> QED
    BY <1>2, <2>1, Before DEF prev
<1>4. LocksOK(frames, f, locked) /\ LockTop(calls, last) = f
  BY <1>1, <1>2 DEF AtJava, StackOK, LockTop, f
<1>5. CASE /\ frames[f].caught /\ last' = f /\ frames' = UpTo(f)
           /\ calls' = Now([Top EXCEPT !.at = "run", !.sp = Ostack(f) + 1,
                                      !.this = frames[f].local0])
           /\ UNCHANGED <<locked, exception>>
  <2> DEFINE r == [Top EXCEPT !.at = "run", !.sp = Ostack(f) + 1, !.this = frames[f].local0]
  <2>1. Ostack(f) + 1 \in Nat /\ Ostack(f) \in Nat /\ Ostack(f) <= Ostack(f) + 1
        /\ Ostack(f) + 1 <= End(frames, f)
    <3>1. frames[f].mb \in Handlers
      BY <1>2, <1>5 DEF FramesTyped
    <3>2. MaxStackOf(frames[f].mb) \in Nat /\ MaxStackOf(frames[f].mb) > 0
      BY <3>1, Constants DEF MaxStackOf
    <3>3. Ostack(f) \in Nat
      BY <1>2, EndIsAbove
    <3> QED
      BY <3>2, <3>3 DEF End
  <2>2. /\ r \in CallRecords /\ r.kind = "java" /\ r.by = "execute" /\ r.sync = calls[1].sync
        /\ r.at = "run" /\ r.frame = f /\ r.sp = Ostack(f) + 1 /\ r.this = frames[f].local0
    <3>1. r = [calls[1] EXCEPT !.at = "run", !.sp = Ostack(f) + 1, !.this = frames[f].local0]
          /\ frames[f].local0 \in Objects \cup {Nil}
      BY <1>2, FrameFields
    <3> HIDE DEF r
    <3> QED
      BY <1>2, <2>1, <3>1 DEF CallRecords
  <2>3. LocksOK(UpTo(f), f, locked)
    <3>1. /\ DOMAIN UpTo(f) = {h \in DOMAIN frames : h <= f}
          /\ \A h \in DOMAIN UpTo(f) : UpTo(f)[h] = frames[h]
      BY DEF UpTo
    <3>2. \A o \in Lockable : Held(UpTo(f), f, o) = Held(frames, f, o)
      BY <3>1 DEF Held
    <3> QED
      BY <1>4, <3>2, LocksSame
  <2>4. calls' = Now(r)
    BY <1>5
  <2> HIDE DEF r
  <2>5. StackOK(UpTo(f), f, Now(r), locked)
    BY <1>1, <1>2, <2>1, <2>2, <2>3, PopTo
  <2>6. frames' = UpTo(f) /\ last' = f /\ locked' = locked /\ exception' = exception
    BY <1>5
  <2> QED
    BY <1>2, <2>4, <2>5, <2>6 DEF JInv
<1>6. CASE /\ ~frames[f].caught /\ frames[prev].mb # Nil
           /\ calls' = Now([Top EXCEPT !.frame = prev])
           /\ locked' = Exit(sync_ob(frames[f].mb, frames[f].local0))
           /\ UNCHANGED <<frames, last, exception>>
  <2> DEFINE r == [Top EXCEPT !.frame = prev]
             b == sync_ob(frames[f].mb, frames[f].local0)
             kl == Exit(b)
  <2>1. /\ r \in CallRecords /\ r.kind = "java" /\ r.by = "execute" /\ r.sync = calls[1].sync
        /\ r.at = "unwind" /\ r.frame = prev
    <3>1. r = [calls[1] EXCEPT !.frame = prev]
      BY <1>2
    <3> HIDE DEF r
    <3> QED
      BY <1>2, <1>3, <3>1 DEF CallRecords
  <2>2. calls' = Now(r) /\ locked' = kl /\ frames' = frames /\ last' = last
        /\ exception' = exception
    BY <1>6
  <2>3. b \in Lockable \cup {Nil} /\ (ThisIsKept => b = frames[f].sync)
    BY <1>2, <1>3, SyncObType, FrameFields DEF FramesTyped, SyncOK
  <2> HIDE DEF r, b, kl
  <2>4. LocksOK(frames, prev, kl)
    <3>1. Same(frames, frames, prev) /\ DOMAIN frames \subseteq Nat
      BY <1>2 DEF Same, FramesTyped
    <3> QED
      BY <1>2, <1>3, <1>4, <2>3, <3>1, LockPop DEF prev, kl
  <2>5. StackOK(frames, last, Now(r), kl)
    <3>1. r.frame \in DOMAIN frames /\ d < r.frame /\ r.frame <= last
      BY <1>1, <1>2, <1>3, <1>6, <2>1 DEF AtJava
    <3>2. LocksOK(frames, IF r.at = "unwind" THEN r.frame ELSE last, kl)
      BY <2>1, <2>4
    <3>3. FramesOK(frames) /\ SameFrames(frames, frames)
      BY <1>2, SameFramesRefl
    <3>4. StateOK(frames, r, last)
      BY <2>1 DEF StateOK
    <3> QED
      BY <1>1, <2>1, <3>1, <3>2, <3>3, <3>4, SameTop
  <2> QED
    BY <1>2, <2>2, <2>5 DEF JInv
<1>7. CASE ~frames[f].caught /\ frames[prev].mb = Nil /\ EndOfExecuteMethod(f, TRUE)
  <2>1. Returns(f, d, L)
    BY <1>1, <1>2, <1>3, <1>4, <1>7 DEF AtJava, Returns, prev
  <2>2. StackOK(frames, last, calls, locked)' /\ exception' \in BOOLEAN
    BY <1>7, <2>1, EndStep
  <2> QED
    BY <1>2, <2>2 DEF JInv
<1> QED
  BY <1>2, <1>5, <1>6, <1>7 DEF findCatchBlock, prev

LEMMA methodReturnStep ==
    ASSUME JInv, methodReturn
    PROVE  JInv'
<1>1. PICK L, d : AtJava(L, d)
  BY JavaState DEF methodReturn, Running
<1> DEFINE prev == frames[last].prev
<1>2. /\ last \in DOMAIN frames /\ last \in Nat /\ d < last /\ calls[1].at = "run"
      /\ Top = calls[1] /\ Top.frame = last /\ calls[1] \in CallRecords /\ stackEnd' = stackEnd
      /\ stackEnd \in Nat /\ exception \in BOOLEAN /\ FramesOK(frames) /\ FramesTyped(frames)
      /\ calls[1].kind = "java" /\ calls[1].by = "execute" /\ calls[1].frame = last
  BY <1>1 DEF AtJava, methodReturn, Running, StateOK, ExecutedFrom
<1> HIDE DEF prev
<1>3. /\ last # Base /\ frames[last].mb \in Methods \ NativeMethods
      /\ frames[prev].mb = Nil => prev = d
      /\ frames[prev].mb # Nil => d < prev
      /\ prev \in DOMAIN frames /\ prev \in Nat /\ prev < last /\ FrameOK(frames, last)
  <2>1. /\ last # Base /\ frames[last].mb \in Methods \ NativeMethods
        /\ frames[frames[last].prev].mb = Nil => frames[last].prev = d
        /\ frames[frames[last].prev].mb # Nil => d < frames[last].prev
    <3>1. /\ FramesOK(frames) /\ calls[1] \in CallRecords /\ calls[1].kind = "java"
          /\ last \in DOMAIN frames /\ L[2] \in DOMAIN frames /\ last <= last
          /\ d \in DOMAIN frames /\ ExecutedFrom(frames, calls[1], last, L[2], d)
      BY <1>1 DEF AtJava
    <3> QED
      BY <1>2, <3>1, JavaBefore
  <2> QED
    BY <1>2, <2>1, Before DEF prev
<1>4. LocksOK(frames, last, locked) /\ LockTop(calls, last) = last
  BY <1>1, <1>2 DEF AtJava, StackOK, LockTop
<1>5. CASE frames[prev].mb = Nil
  <2>1. EndOfExecuteMethod(last, FALSE)
    BY <1>2, <1>5 DEF methodReturn, prev
  <2>2. Returns(last, d, L)
    BY <1>1, <1>2, <1>3, <1>4, <1>5 DEF AtJava, Returns, prev
  <2>3. StackOK(frames, last, calls, locked)' /\ exception' \in BOOLEAN
    BY <2>1, <2>2, EndStep
  <2> QED
    BY <1>2, <2>3 DEF JInv
<1>6. CASE frames[prev].mb # Nil
  <2>1. /\ \E words \in 0..1 :
              /\ frames[last].lvars + words <= Ostack(prev) + MaxStackOf(frames[prev].mb)
              /\ calls' = Now([Top EXCEPT !.frame = prev, !.sp = frames[last].lvars + words,
                                          !.this = frames[prev].local0])
        /\ locked' = Exit(sync_ob(frames[last].mb, calls[1].this)) /\ last' = prev /\ frames' = UpTo(prev)
        /\ exception' = exception
    BY <1>2, <1>6 DEF methodReturn, prev
  <2>2. PICK words \in 0..1 :
           /\ frames[last].lvars + words <= Ostack(prev) + MaxStackOf(frames[prev].mb)
           /\ calls' = Now([Top EXCEPT !.frame = prev, !.sp = frames[last].lvars + words,
                                          !.this = frames[prev].local0])
    BY <2>1
  <2> DEFINE s == frames[last].lvars + words
             r == [Top EXCEPT !.frame = prev, !.sp = s, !.this = frames[prev].local0]
             b == sync_ob(frames[last].mb, calls[1].this)
             kl == Exit(b)
  <2>3. s \in Nat /\ Ostack(prev) <= s /\ s <= End(frames, prev)
    <3>1. frames[last].lvars \in Nat /\ Ostack(prev) <= frames[last].lvars /\ Ostack(prev) \in Nat
      BY <1>2, <1>3, FrameFields, EndIsAbove, Constants DEF FrameOK, prev
    <3>2. words \in Nat
      OBVIOUS
    <3> QED
      BY <2>2, <3>1, <3>2 DEF End
  <2>4. calls' = Now(r) /\ locked' = kl
    BY <2>1, <2>2
  <2> HIDE DEF s
  <2>5. /\ r \in CallRecords /\ r.kind = "java" /\ r.by = "execute" /\ r.sync = calls[1].sync
        /\ r.at = "run" /\ r.frame = prev /\ r.sp = s /\ r.this = frames[prev].local0
    <3>1. r = [calls[1] EXCEPT !.frame = prev, !.sp = s, !.this = frames[prev].local0]
          /\ frames[prev].local0 \in Objects \cup {Nil}
      BY <1>2, <1>3, FrameFields
    <3> HIDE DEF r
    <3> QED
      BY <1>2, <1>3, <2>3, <3>1 DEF CallRecords
  <2>6. b \in Lockable \cup {Nil} /\ (ThisIsKept => b = frames[last].sync)
    BY <1>1, <1>2, <1>3, SyncObType, CallFields DEF AtJava, StateOK, ThisOK
  <2> HIDE DEF r, b, kl
  <2>7. LocksOK(UpTo(prev), prev, kl)
    <3>1. Same(frames, UpTo(prev), prev) /\ DOMAIN UpTo(prev) \subseteq Nat
      BY <1>2, <1>3, UpToKeeps DEF FramesOK, FramesTyped
    <3> QED
      BY <1>2, <1>3, <1>4, <2>6, <3>1, LockPop DEF prev, kl
  <2>8. StackOK(UpTo(prev), prev, Now(r), kl)
    BY <1>1, <1>3, <1>6, <2>3, <2>5, <2>7, PopTo
  <2> QED
    BY <1>2, <2>1, <2>4, <2>8 DEF JInv
<1> QED
  BY <1>5, <1>6

(* The arguments are on top of the operands of the caller: its frame, if   *)
(* the method is native, waits for a call that is pushed, and stays the    *)
(* interpreter's caller if it is not.                                      *)
LEMMA invokeMethodStep ==
    ASSUME JInv, NEW m \in Methods, invokeMethod(m)
    PROVE  JInv'
<1>1. PICK L, d : AtJava(L, d)
  BY JavaState DEF invokeMethod, Invokes, Running
<1> DEFINE inC == m \in NativeMethods
           new == NewFrame(m)
           args == Top.sp - ArgsCount[m]
<1>2. PICK fs \in AtInstruction(frames, Top.frame), o \in Receivers(m) :
          /\ frames' = Put(fs, new, [Frame(m, args, Top.frame) EXCEPT
                          !.local0 = o, !.sync = sync_ob(m, o), !.next = IF inC THEN new ELSE Nil])
          /\ locked' = Enter(sync_ob(m, o))
          /\ last' = new
          /\ IF inC
             THEN /\ Len(calls) < MaxCalls
                  /\ calls' = <<[kind |-> "native", at |-> "run", frame |-> new,
                                 sp |-> Ostack(new), this |-> Nil, by |-> "invoke",
                                 sync |-> sync_ob(m, o)]>> \o calls
             ELSE calls' = Now([Top EXCEPT !.frame = new, !.sp = Ostack(new), !.this = o])
  BY DEF invokeMethod
<1> DEFINE ob == sync_ob(m, o)
           two == [Frame(m, args, last) EXCEPT !.local0 = o, !.sync = ob, !.next = IF inC THEN new ELSE Nil]
           gs == Put(fs, new, two)
           kl == Enter(ob)
<1>3. /\ StackOK(frames, last, calls, locked) /\ FramesOK(frames) /\ FramesTyped(frames)
      /\ IsLast(frames, last) /\ last \in DOMAIN frames /\ last \in Nat /\ DOMAIN frames \subseteq Nat
      /\ calls \in Seq(CallRecords) /\ Len(calls) > 1 /\ Len(calls) > 0 /\ Len(calls) \in Nat
      /\ Chain(frames, calls, last, L) /\ L[2] \in DOMAIN frames /\ L[2] \in Nat /\ L[2] < last
      /\ calls[1] \in CallRecords /\ Top = calls[1] /\ calls[1].kind = "java"
      /\ calls[1].by = "execute" /\ calls[1].at = "run" /\ calls[1].frame = last /\ Top.frame = last
      /\ StateOK(frames, calls[1], last) /\ d \in DOMAIN frames /\ d \in Nat /\ d < last
      /\ ExecutedFrom(frames, calls[1], last, L[2], d)
      /\ stackEnd \in Nat /\ exception \in BOOLEAN /\ stackEnd' = stackEnd /\ exception' = exception
  BY <1>1 DEF AtJava, invokeMethod, Invokes, Running, StateOK
<1>4. FramesOK(fs) /\ SameFrames(frames, fs)
  BY <1>3, AtInstructionKeeps
<1>5. /\ DOMAIN fs = DOMAIN frames /\ FramesTyped(fs) /\ IsLast(fs, last)
      /\ \A f \in DOMAIN frames : /\ fs[f].mb = frames[f].mb /\ fs[f].prev = frames[f].prev
                                  /\ fs[f].sync = frames[f].sync
      /\ End(fs, last) = End(frames, last)
  BY <1>3, <1>4 DEF SameFrames, IsLast, FramesOK, End
<1>6. frames[last].mb \in Methods \ NativeMethods
  BY <1>3 DEF ExecutedFrom
<1>7. /\ calls[1].sp \in Nat /\ calls[1].sp <= End(frames, last) /\ End(frames, last) \in Nat
      /\ Ostack(last) \in Nat /\ last < Ostack(last) /\ Ostack(last) + ArgsCount[m] <= calls[1].sp
  BY <1>3, CallFields, EndIsAbove DEF StateOK, invokeMethod, Invokes
<1>8. /\ args \in Nat /\ Ostack(last) <= args /\ args <= End(frames, last) /\ new \in Nat
      /\ new = args + MaxLocals[m] /\ args <= new /\ calls[1].sp <= new /\ last < new
      /\ Ostack(last) <= new /\ Ostack(new) \in Nat /\ new < Ostack(new)
      /\ MaxLocals[m] \in Nat
  <2>1. /\ ArgsCount[m] \in Nat /\ MaxLocals[m] \in Nat /\ ArgsCount[m] <= MaxLocals[m]
        /\ HeaderSize \in Nat /\ HeaderSize > 0
    BY Constants
  <2>2. args = calls[1].sp - ArgsCount[m] /\ new = calls[1].sp - ArgsCount[m] + MaxLocals[m]
    BY <1>3 DEF NewFrame
  <2> HIDE DEF args, new
  <2>3. args \in Nat /\ Ostack(last) <= args /\ args <= calls[1].sp
    BY <1>7, <2>1, <2>2
  <2>4. /\ new \in Nat /\ new = args + MaxLocals[m] /\ args <= new /\ calls[1].sp <= new
    BY <1>7, <2>1, <2>2, <2>3
  <2>5. Ostack(new) \in Nat /\ new < Ostack(new)
    BY <2>1, <2>4 DEF Ostack
  <2>6. args <= End(frames, last) /\ Ostack(last) <= new /\ last < new
    BY <1>3, <1>7, <2>3, <2>4
  <2> QED
    BY <2>1, <2>3, <2>4, <2>5, <2>6
<1> HIDE DEF args, new
<1>9. o \in Objects \cup {Nil} /\ ob \in Lockable \cup {Nil}
  BY ReceiversType, SyncObType
<1> HIDE DEF ob
<1>10. /\ two \in FrameRecords /\ two.prev = last /\ ~two.caught /\ two.mb = m /\ two.sync = ob
       /\ two.local0 = o
       /\ two.lvars = args /\ (inC => two.next = new)
  BY <1>3, <1>8, <1>9 DEF Frame, FrameRecords
<1>11. SyncOK(two)
  BY <1>10 DEF SyncOK, ob
<1> HIDE DEF two
<1>12. /\ FramesOK(gs) /\ IsLast(gs, new) /\ new \notin DOMAIN fs
       /\ gs[new] = two /\ \A g \in DOMAIN fs : gs[g] = fs[g]
       /\ \A g : g \in DOMAIN gs <=> g \in DOMAIN fs \/ g = new
  <2>1. m # Nil /\ (two.mb = Nil => FALSE)
    BY <1>10, Constants
  <2>2. fs[last].mb \in Methods \ NativeMethods /\ last \in DOMAIN fs
    BY <1>3, <1>5, <1>6
  <2>3. /\ Ostack(last) <= two.lvars /\ two.lvars <= new /\ two.lvars <= End(fs, last)
        /\ two.lvars + MaxLocals[two.mb] <= new
        /\ two.mb \in NativeMethods => two.next \in Nat /\ two.next <= new
    BY <1>5, <1>8, <1>10
  <2>4. Fits(fs, last, new, two)
    BY <1>4, <1>5, <1>8, <1>10, <1>11, <2>1, <2>2, <2>3 DEF Fits
  <2>5. gs = Put(fs, new, two)
    OBVIOUS
  <2> HIDE DEF gs
  <2> QED
    BY <2>4, <2>5, PutKeeps
<1>13. frames' = gs /\ last' = new /\ locked' = kl
  BY <1>2, <1>3 DEF two, ob
<1> HIDE DEF gs
<1>14. /\ \A g : g \in DOMAIN gs <=> g \in DOMAIN frames \/ g = new
       /\ new \notin DOMAIN frames /\ DOMAIN gs \subseteq Nat
       /\ \A g \in DOMAIN frames : /\ gs[g].mb = frames[g].mb /\ gs[g].prev = frames[g].prev
                                   /\ gs[g].sync = frames[g].sync /\ g <= last
       /\ gs[new].mb = m /\ gs[new].prev = last /\ gs[new].sync = ob
       /\ Same(frames, gs, last)
  <2>1. ASSUME NEW f \in Nat, f <= last
        PROVE  /\ f \in DOMAIN frames <=> f \in DOMAIN gs
               /\ f \in DOMAIN frames => gs[f] = fs[f]
    <3>1. f # new
      <4>1. last \in Nat /\ new \in Nat /\ last < new
        BY <1>3, <1>8
      <4> QED
        BY <2>1, <4>1
    <3> QED
      BY <1>4, <1>12, <3>1 DEF SameFrames
  <2>2. Same(frames, gs, last)
    BY <1>4, <2>1 DEF Same, SameFrames
  <2> QED
    BY <1>3, <1>5, <1>8, <1>10, <1>12, <2>2 DEF IsLast
<1>15. LocksOK(gs, new, kl)
  <2>1. LocksOK(frames, last, locked)
    BY <1>3 DEF StackOK, LockTop
  <2>2. ASSUME NEW b \in Lockable
        PROVE  Held(gs, new, b) = IF b = ob THEN Held(frames, last, b) \cup {new}
                                  ELSE Held(frames, last, b)
    <3>1. \A g \in DOMAIN frames : g <= new /\ g <= last
      BY <1>3, <1>8, <1>14
    <3>2. \A g : g \in Held(gs, new, b) <=> g \in Held(frames, last, b) \/ (g = new /\ b = ob)
      BY <1>8, <1>14, <3>1 DEF Held
    <3> QED
      BY <3>2
  <2>3. kl = IF ob = Nil THEN locked ELSE [locked EXCEPT ![ob] = @ + 1]
    BY DEF Enter
  <2> HIDE DEF kl
  <2>4. Adds(frames, last, locked, gs, new, kl, ob, new)
    BY <1>9, <1>14, <2>1, <2>2, <2>3 DEF Adds
  <2> QED
    BY <1>3, <2>4, LocksAdd
<1> HIDE DEF kl
<1>16. Cardinality(Dummies(gs)) = Cardinality(Dummies(frames))
  <2>1. \A g : g \in Dummies(gs) <=> g \in Dummies(frames)
    BY <1>14, Constants DEF Dummies
  <2>2. Dummies(gs) = Dummies(frames)
    BY <2>1
  <2> QED
    BY <2>2
<1>17. CASE ~inC
  <2> DEFINE r == [Top EXCEPT !.frame = new, !.sp = Ostack(new), !.this = o]
             ds == Now(r)
  <2>1. /\ r \in CallRecords /\ r.kind = "java" /\ r.by = "execute" /\ r.sync = calls[1].sync
        /\ r.at = "run" /\ r.frame = new /\ r.sp = Ostack(new) /\ r.this = o
    <3>1. r = [calls[1] EXCEPT !.frame = new, !.sp = Ostack(new), !.this = o]
      BY <1>3
    <3> HIDE DEF r
    <3> QED
      BY <1>3, <1>8, <1>9, <3>1 DEF CallRecords
  <2>2. calls' = ds
    BY <1>2, <1>17
  <2> HIDE DEF r
  <2>3. /\ ds \in Seq(CallRecords) /\ Len(ds) = Len(calls) /\ ds[1] = r
        /\ \A k \in 2..Len(calls) : ds[k] = calls[k]
    BY <1>3, <2>1, NowReplaces
  <2> HIDE DEF ds
  <2>4. CallOK(gs, r, new, L[2])
    <3>1. \A g \in DOMAIN gs : d < g /\ g <= new =>
             \/ /\ g \in DOMAIN frames /\ g <= last /\ gs[g].mb = frames[g].mb
                /\ gs[g].prev = frames[g].prev /\ gs[g].sync = frames[g].sync
             \/ gs[g].mb \in Methods \ NativeMethods /\ gs[g].prev # d
      BY <1>3, <1>14, <1>17
    <3>2. /\ d \in DOMAIN gs /\ L[2] \in DOMAIN gs /\ gs[d].prev = frames[d].prev
          /\ gs[d].mb = frames[d].mb /\ new \in DOMAIN gs /\ d < new /\ new <= new
      BY <1>3, <1>8, <1>14
    <3>3. /\ FramesOK(frames) /\ calls[1] \in CallRecords /\ calls[1].kind = "java"
          /\ last \in DOMAIN frames /\ L[2] \in DOMAIN frames /\ L[2] < last
          /\ d \in DOMAIN frames /\ ExecutedFrom(frames, calls[1], last, L[2], d)
      BY <1>3
    <3>4. FramesOK(gs)
      BY <1>12
    <3> QED
      BY <2>1, <3>1, <3>2, <3>3, <3>4, JavaCallOK
  <2>5. StateOK(gs, r, new)
    <3>1. Ostack(new) <= End(gs, new)
      BY <1>12, EndIsAbove DEF FramesOK, IsLast
    <3>2. \A h \in DOMAIN gs : ~(h > new)
      BY <1>8, <1>12, <1>14 DEF IsLast
    <3>3. ThisOK(gs, r, new)
      BY <1>14, <2>1 DEF ThisOK, ob
    <3> QED
      BY <1>8, <2>1, <3>1, <3>2, <3>3 DEF StateOK
  <2>6. LockTop(ds, new) = new
    BY <2>1, <2>3 DEF LockTop
  <2>7. Same(frames, gs, L[2])
    BY <1>3, <1>14 DEF Same
  <2>8. StackOK(gs, new, ds, kl)
    <3>1. /\ ds[1].by = calls[1].by /\ CallOK(gs, ds[1], new, L[2]) /\ StateOK(gs, ds[1], new)
          /\ LocksOK(gs, LockTop(ds, new), kl)
          /\ \A h \in DOMAIN gs : h \in DOMAIN frames \/ h > last
      BY <1>3, <1>8, <1>14, <1>15, <2>1, <2>3, <2>4, <2>5, <2>6
    <3> QED
      BY <1>3, <1>12, <1>16, <2>3, <2>7, <3>1, TopStep
  <2> QED
    BY <1>3, <1>13, <2>2, <2>8 DEF JInv
<1>18. CASE inC
  <2> DEFINE x == [kind |-> "native", at |-> "run", frame |-> new,
                   sp |-> Ostack(new), this |-> Nil, by |-> "invoke", sync |-> ob]
             ds == <<x>> \o calls
  <2>1. calls' = ds
    BY <1>2, <1>18 DEF ob
  <2>2. x \in CallRecords
    BY <1>8, <1>9 DEF CallRecords
  <2>3. /\ ds \in Seq(CallRecords) /\ Len(ds) = Len(calls) + 1 /\ ds[1] = x
        /\ \A k \in 1..Len(calls) : ds[k + 1] = calls[k]
    BY <1>3, <2>2, Pushed
  <2> HIDE DEF ds
  <2>4. CallOK(gs, x, new, last) /\ StateOK(gs, x, new) /\ PairOK(x, calls[1])
    <3>1. new \in DOMAIN gs /\ last \in DOMAIN gs
      BY <1>3, <1>14
    <3> QED
      BY <1>3, <1>8, <1>14, <1>18, <3>1 DEF CallOK, StateOK, PairOK
  <2>5. StateOK(gs, calls[1], last)
    <3>1. End(gs, last) = End(frames, last)
      BY <1>3, <1>14 DEF End
    <3>2. \A h \in DOMAIN gs : h > last => h = new
      BY <1>3, <1>14
    <3>3. gs[last].mb = frames[last].mb /\ gs[last].sync = frames[last].sync
      BY <1>3, <1>14
    <3> QED
      BY <1>3, <1>7, <1>8, <3>1, <3>2, <3>3 DEF StateOK, ThisOK
  <2>6. ds[1].by = "invoke" /\ LockTop(ds, new) = new
    BY <2>3 DEF LockTop
  <2> HIDE DEF x
  <2>7. CallsOK(gs, ds, new)
    BY <1>3, <1>8, <1>14, <2>3, <2>4, <2>5, ChainPush
  <2>8. Cardinality(Executions(ds)) = Cardinality(Executions(calls))
    <3>1. \A k \in 1..Len(calls) : ds[k + 1].by = calls[k].by
      BY <2>3
    <3>2. calls \in Seq(CallRecords) /\ ds \in Seq(CallRecords) /\ Len(ds) = Len(calls) + 1
          /\ ds[1].by # "execute"
      BY <1>3, <2>3, <2>6
    <3>3. /\ Cardinality(Executions(calls)) \in Nat
          /\ Cardinality(Executions(ds))
                = Cardinality(Executions(calls)) + IF ds[1].by = "execute" THEN 1 ELSE 0
      BY <3>1, <3>2, ExecutionsShift
    <3> QED
      BY <3>2, <3>3
  <2>9. StackOK(gs, new, ds, kl)
    BY <1>3, <1>12, <1>15, <1>16, <2>6, <2>7, <2>8 DEF StackOK, Counted
  <2> QED
    BY <1>3, <1>13, <2>1, <2>9 DEF JInv
<1> QED
  BY <1>17, <1>18

-----------------------------------------------------------------------------
(* Native methods.                                                         *)
LEMMA callFromNativeStep ==
    ASSUME JInv, NEW m \in Methods, callFromNative(m)
    PROVE  JInv'
<1>1. PICK o \in Receivers(m) : ExecuteMethod(m, o, calls, frames)
  BY DEF callFromNative
<1>2. /\ StackOK(frames, last, calls, locked) /\ FramesOK(frames) /\ IsLast(frames, last)
      /\ stackEnd \in Nat /\ exception \in BOOLEAN /\ calls \in Seq(CallRecords) /\ Len(calls) > 0
  BY DEF JInv, StackOK, CallsOK
<1>3. calls[1].kind = "native"
  BY <1>2 DEF callFromNative, Running, Top
<1>4. o \in Objects \cup {Nil} /\ SameFrames(frames, frames)
  BY ReceiversType, SameFramesRefl
<1>5. StackOK(frames, last, calls, locked)'
  BY <1>1, <1>2, <1>3, <1>4, ExecuteStep
<1> QED
  BY <1>2, <1>5 DEF JInv, callFromNative

LEMMA setExceptionStep ==
    ASSUME JInv, setException \/ clearException
    PROVE  JInv'
<1>1. /\ frames' = frames /\ last' = last /\ calls' = calls /\ locked' = locked
      /\ stackEnd' = stackEnd /\ exception' \in BOOLEAN
  BY DEF setException, clearException
<1> QED
  BY <1>1 DEF JInv

(* A native method, or C code of the VM.                                   *)
LEMMA NativeState ==
    ASSUME JInv, Running("native"), Top.by # "thread"
    PROVE  \E L :
             /\ Chain(frames, calls, last, L) /\ Len(calls) > 1 /\ Len(calls) \in Nat
             /\ StackOK(frames, last, calls, locked) /\ FramesOK(frames) /\ FramesTyped(frames)
             /\ IsLast(frames, last) /\ last \in DOMAIN frames /\ last \in Nat
             /\ calls \in Seq(CallRecords) /\ calls[1] \in CallRecords /\ Top = calls[1]
             /\ calls[1].kind = "native" /\ calls[1].at = "run"
             /\ calls[1].by \in {"execute", "invoke"}
             /\ CallOK(frames, calls[1], last, L[2]) /\ PairOK(calls[1], calls[2])
             /\ L[2] \in DOMAIN frames /\ L[2] \in Nat /\ L[2] < last
             /\ last # Base /\ frames[last].mb \in NativeMethods
             /\ frames[last].prev \in DOMAIN frames /\ frames[last].sync = calls[1].sync
             /\ LocksOK(frames, last, locked) /\ LockTop(calls, last) = last
             /\ calls[2] \in CallRecords
             /\ calls[2].by # "thread" => StateOK(frames, calls[2], L[2])
<1>1. PICK L : Chain(frames, calls, last, L)
  BY DEF JInv, StackOK, CallsOK
<1>2. /\ StackOK(frames, last, calls, locked) /\ FramesOK(frames) /\ FramesTyped(frames)
      /\ IsLast(frames, last) /\ last \in DOMAIN frames /\ last \in Nat
      /\ calls \in Seq(CallRecords) /\ Len(calls) > 0 /\ Len(calls) \in Nat
  BY FrameFields DEF JInv, StackOK, CallsOK, IsLast, FramesOK
<1>3. Top = calls[1] /\ calls[1].kind = "native" /\ calls[1].at = "run" /\ calls[1].by # "thread"
  BY <1>2 DEF Top, Running
<1>4. /\ Len(calls) > 1 /\ CallOK(frames, calls[1], last, L[2]) /\ PairOK(calls[1], calls[2])
      /\ calls[1] \in CallRecords /\ calls[2] \in CallRecords /\ L[2] \in Nat
      /\ L[2] \in DOMAIN frames
      /\ calls[2].by # "thread" => StateOK(frames, calls[2], L[2])
  BY <1>1, <1>2, <1>3, TopChain
<1>5. calls[1].by \in {"execute", "invoke"} /\ L[2] < last
  BY <1>4 DEF CallOK
<1>6. frames[last].mb \in NativeMethods /\ frames[last].sync = calls[1].sync
  <2>1. CASE calls[1].by = "execute"
    <3>1. PICK d \in DOMAIN frames : ExecutedFrom(frames, calls[1], last, L[2], d)
      BY <1>4, <2>1 DEF CallOK
    <3>2. d < last /\ last <= last /\ frames[last].prev = d
      BY <1>2, <1>3, <3>1 DEF ExecutedFrom
    <3> QED
      BY <1>2, <1>3, <3>1, <3>2 DEF ExecutedFrom
  <2>2. CASE calls[1].by = "invoke"
    BY <1>4, <2>2 DEF CallOK
  <2> QED
    BY <1>5, <2>1, <2>2
<1>7. last # Base
  BY <1>2, <1>6, Constants DEF FramesTyped
<1>8. frames[last].prev \in DOMAIN frames
  BY <1>2, <1>7, Before
<1>9. LockTop(calls, last) = last /\ LocksOK(frames, last, locked)
  BY <1>2, <1>3 DEF LockTop, StackOK
<1> QED
  BY <1>1, <1>2, <1>3, <1>4, <1>5, <1>6, <1>7, <1>8, <1>9

LEMMA nativeReturnStep ==
    ASSUME JInv, nativeReturn
    PROVE  JInv'
<1>1. Running("native") /\ Top.by \in {"execute", "invoke"} /\ Top.by # "thread"
  BY DEF nativeReturn
<1>2. PICK L :
             /\ Chain(frames, calls, last, L) /\ Len(calls) > 1 /\ Len(calls) \in Nat
             /\ StackOK(frames, last, calls, locked) /\ FramesOK(frames) /\ FramesTyped(frames)
             /\ IsLast(frames, last) /\ last \in DOMAIN frames /\ last \in Nat
             /\ calls \in Seq(CallRecords) /\ calls[1] \in CallRecords /\ Top = calls[1]
             /\ calls[1].kind = "native" /\ calls[1].at = "run"
             /\ calls[1].by \in {"execute", "invoke"}
             /\ CallOK(frames, calls[1], last, L[2]) /\ PairOK(calls[1], calls[2])
             /\ L[2] \in DOMAIN frames /\ L[2] \in Nat /\ L[2] < last
             /\ last # Base /\ frames[last].mb \in NativeMethods
             /\ frames[last].prev \in DOMAIN frames /\ frames[last].sync = calls[1].sync
             /\ LocksOK(frames, last, locked) /\ LockTop(calls, last) = last
             /\ calls[2] \in CallRecords
             /\ calls[2].by # "thread" => StateOK(frames, calls[2], L[2])
  BY <1>1, NativeState
<1>3. stackEnd \in Nat /\ exception \in BOOLEAN /\ stackEnd' = stackEnd
  BY DEF JInv, nativeReturn
<1>4. CASE Top.by = "execute" /\ EndOfExecuteMethod(last, exception)
  <2>1. PICK d \in DOMAIN frames : ExecutedFrom(frames, calls[1], last, L[2], d)
    BY <1>2, <1>4 DEF CallOK
  <2>2. frames[last].prev = d
    BY <1>2, <2>1 DEF ExecutedFrom
  <2>3. Returns(last, d, L)
    BY <1>2, <1>4, <2>1, <2>2 DEF Returns
  <2>4. StackOK(frames, last, calls, locked)' /\ exception' \in BOOLEAN
    BY <1>3, <1>4, <2>3, EndStep
  <2> QED
    BY <1>3, <2>4 DEF JInv
<1>5. CASE /\ Top.by = "invoke" /\ locked' = Exit(Top.sync) /\ last' = calls[2].frame
           /\ frames' = UpTo(calls[2].frame)
           /\ \E words \in 0..1 :
                /\ frames[last].lvars + words <= Dummy(calls[2].frame)
                /\ calls' = <<[calls[2] EXCEPT !.at = IF exception THEN "throw" ELSE "run",
                                              !.sp = frames[last].lvars + words]>>
                             \o Tail(Tail(calls))
           /\ exception' = exception
  <2>1. PICK words \in 0..1 :
           /\ frames[last].lvars + words <= Dummy(calls[2].frame)
           /\ calls' = <<[calls[2] EXCEPT !.at = IF exception THEN "throw" ELSE "run",
                                         !.sp = frames[last].lvars + words]>>
                        \o Tail(Tail(calls))
    BY <1>5
  <2> DEFINE c == calls[2]
             p == L[2]
             s == frames[last].lvars + words
             a == IF exception THEN "throw" ELSE "run"
             r == [c EXCEPT !.at = a, !.sp = s]
             ds == <<r>> \o Tail(Tail(calls))
             gs == UpTo(p)
             kl == Exit(frames[last].sync)
  <2>2. /\ calls[1].by = "invoke" /\ c.kind = "java" /\ c.at = "run" /\ c \in CallRecords
        /\ frames[last].prev = p /\ c.by # "thread"
    <3>1. calls[1].by = "invoke"
      BY <1>2, <1>5
    <3>2. c.kind = "java" /\ c.at = "run" /\ frames[last].prev = p
      BY <1>2, <3>1 DEF PairOK, CallOK
    <3>3. c.by # "thread"
      <4> SUFFICES ASSUME c.by = "thread" PROVE FALSE
        OBVIOUS
      <4>1. calls[1].by # "thread"
        BY <3>1
      <4>2. c = ThreadCall
        BY <1>2, <4>1, TopChain
      <4> QED
        BY <3>2, <4>2 DEF ThreadCall
    <3> QED
      BY <1>2, <3>1, <3>2, <3>3
  <2>3. StateOK(frames, c, p) /\ c.frame = p
    BY <1>2, <2>2 DEF StateOK
  <2> HIDE DEF c
  <2>4. s \in Nat /\ Ostack(p) <= s /\ s <= End(frames, p)
    <3>1. FrameOK(frames, last)
      BY <1>2, Before
    <3>2. frames[last].mb # Nil
      BY <1>2, Constants
    <3>3. Ostack(p) <= frames[last].lvars /\ frames[last].lvars \in Nat /\ Ostack(p) \in Nat
      BY <1>2, <2>2, <3>1, <3>2, FrameFields, EndIsAbove DEF FrameOK
    <3>4. Dummy(calls[2].frame) = End(frames, p) /\ words \in Nat
      BY <2>3 DEF Dummy, End, c
    <3> QED
      BY <2>1, <3>3, <3>4
  <2>5. a \in {"throw", "run"}
    OBVIOUS
  <2> HIDE DEF s, a
  <2>6. /\ r \in CallRecords /\ r.kind = "java" /\ r.by = c.by /\ r.frame = c.frame
        /\ r.sync = c.sync /\ r.at = a /\ r.sp = s /\ r.this = c.this
    BY <2>2, <2>4, <2>5 DEF CallRecords
  <2>7. calls' = ds /\ frames' = gs /\ last' = p /\ locked' = kl /\ exception' = exception
    <3>1. calls' = ds
      BY <2>1 DEF c, a, s
    <3> QED
      BY <1>2, <1>5, <2>3, <3>1 DEF c
  <2> HIDE DEF r
  <2>8. /\ ds \in Seq(CallRecords) /\ Len(ds) = Len(calls) - 1 /\ ds[1] = r
        /\ \A k \in 2..(Len(calls) - 1) : ds[k] = calls[k + 1]
    BY <1>2, <2>6, Popped
  <2>9. /\ FramesOK(gs) /\ IsLast(gs, p) /\ Same(frames, gs, p)
        /\ \A h : h \in DOMAIN gs <=> h \in DOMAIN frames /\ h <= p
        /\ \A h \in DOMAIN gs : gs[h] = frames[h]
    BY <1>2, UpToKeeps
  <2> HIDE DEF ds, gs
  <2>10. StateOK(gs, r, p)
    <3>1. End(gs, p) = End(frames, p) /\ \A h \in DOMAIN gs : ~(h > p)
      BY <1>2, <2>9 DEF End, FramesTyped
    <3>2. gs[p] = frames[p]
      BY <1>2, <2>9
    <3> QED
      BY <2>2, <2>3, <2>4, <2>5, <2>6, <3>1, <3>2 DEF StateOK, ThisOK
  <2>11. CallsOK(gs, ds, p)
    <3>1. DOMAIN gs \subseteq DOMAIN frames /\ \A k \in 2..Len(ds) : ds[k] = calls[k + 1]
      BY <2>8, <2>9
    <3>2. /\ ds[1].by = calls[2].by /\ ds[1].kind = calls[2].kind /\ ds[1].sync = calls[2].sync
          /\ ds[1].frame = calls[2].frame /\ calls[2].by # "thread" /\ StateOK(gs, ds[1], p)
      BY <2>2, <2>6, <2>8, <2>10 DEF c
    <3> QED
      BY <1>2, <2>8, <2>9, <3>1, <3>2, ChainPop
  <2>12. LocksOK(gs, p, kl)
    <3>1. DOMAIN gs \subseteq Nat /\ frames[last].sync \in Lockable \cup {Nil}
      BY <1>2, <2>9, FrameFields DEF FramesOK, FramesTyped
    <3> QED
      BY <1>2, <2>2, <2>9, <3>1, LockPop
  <2>13. LockTop(ds, p) = p
    BY <2>5, <2>6, <2>8 DEF LockTop
  <2>14. Counted(gs, ds)
    <3>1. \A h : h \in Dummies(gs) <=> h \in Dummies(frames)
      <4>1. \A h \in DOMAIN frames : h # last => h <= p
        BY <1>2, <2>2, Before DEF IsLast, FramesTyped
      <4>2. frames[last].mb # Nil
        BY <1>2, Constants
      <4> QED
        BY <2>9, <4>1, <4>2 DEF Dummies
    <3>2. Dummies(gs) = Dummies(frames)
      BY <3>1
    <3>3. Cardinality(Executions(calls)) = Cardinality(Executions(ds))
      <4>1. Len(calls) = Len(ds) + 1
        BY <1>2, <2>8
      <4>2. \A k \in 1..Len(ds) : calls[k + 1].by = ds[k].by
        <5>1. \A k \in 1..Len(ds) : k = 1 \/ k \in 2..(Len(calls) - 1)
          BY <1>2, <2>8
        <5> QED
          BY <2>6, <2>8, <5>1 DEF c
      <4>3. calls \in Seq(CallRecords) /\ ds \in Seq(CallRecords) /\ calls[1].by # "execute"
        BY <1>2, <2>2, <2>8
      <4> QED
        BY <4>1, <4>2, <4>3, ExecutionsShift
    <3> QED
      BY <1>2, <3>2, <3>3 DEF StackOK, Counted
  <2>15. StackOK(gs, p, ds, kl)
    BY <2>9, <2>11, <2>12, <2>13, <2>14 DEF StackOK
  <2> HIDE DEF kl, p
  <2> QED
    BY <1>3, <2>7, <2>15 DEF JInv
<1> QED
  BY <1>4, <1>5 DEF nativeReturn

(* The frame of a JNI method moves up with its local references.           *)
LEMMA addJNILrefStep ==
    ASSUME JInv, addJNILref
    PROVE  JInv'
<1>1. Running("native") /\ Top.by # "thread"
  BY DEF addJNILref, InJNIMethod
<1>2. PICK L :
             /\ Chain(frames, calls, last, L) /\ Len(calls) > 1 /\ Len(calls) \in Nat
             /\ StackOK(frames, last, calls, locked) /\ FramesOK(frames) /\ FramesTyped(frames)
             /\ IsLast(frames, last) /\ last \in DOMAIN frames /\ last \in Nat
             /\ calls \in Seq(CallRecords) /\ calls[1] \in CallRecords /\ Top = calls[1]
             /\ calls[1].kind = "native" /\ calls[1].at = "run"
             /\ calls[1].by \in {"execute", "invoke"}
             /\ CallOK(frames, calls[1], last, L[2]) /\ PairOK(calls[1], calls[2])
             /\ L[2] \in DOMAIN frames /\ L[2] \in Nat /\ L[2] < last
             /\ last # Base /\ frames[last].mb \in NativeMethods
             /\ frames[last].prev \in DOMAIN frames /\ frames[last].sync = calls[1].sync
             /\ LocksOK(frames, last, locked) /\ LockTop(calls, last) = last
             /\ calls[2] \in CallRecords
             /\ calls[2].by # "thread" => StateOK(frames, calls[2], L[2])
  BY <1>1, NativeState
<1> DEFINE full == frames[last].next = last
           u == IF full THEN last + LIST_INCR ELSE last
           fs == IF full THEN Expanded(LIST_INCR) ELSE frames
           gs == [fs EXCEPT ![u].next = @ + 1]
           p == frames[last].prev
<1>3. /\ frames' = gs /\ last' = u /\ calls' = calls /\ locked' = locked
      /\ stackEnd' = stackEnd /\ exception' = exception
      /\ stackEnd \in Nat /\ exception \in BOOLEAN
  BY DEF addJNILref, JInv
<1>4. /\ LIST_INCR \in Nat /\ LIST_INCR > 0 /\ frames[last].mb # Nil
      /\ frames[last].mb \in Methods
  BY <1>2, Constants
<1>5. /\ frames[last] \in FrameRecords /\ frames[last].next \in Nat /\ frames[last].next <= last
      /\ FrameOK(frames, last) /\ p \in DOMAIN frames /\ p \in Nat /\ p < last
      /\ Ostack(p) <= last /\ Ostack(p) \in Nat /\ frames[last].lvars \in Nat
      /\ frames[last].lvars <= last /\ DOMAIN frames \subseteq Nat
      /\ \A g \in DOMAIN frames : g < last => g <= p
      /\ \A g \in DOMAIN frames : g <= last
  <2>1. FrameOK(frames, last)
    BY <1>2, Before
  <2>2. frames[last].next \in Nat /\ frames[last].next <= last /\ frames[last].lvars <= last
    BY <1>2, <1>4, <2>1 DEF FrameOK
  <2> QED
    BY <1>2, <2>1, <2>2, FrameFields, Before DEF FramesTyped, IsLast
<1>6. /\ u \in Nat /\ last <= u /\ frames[last].next + 1 <= u
      /\ (u \in DOMAIN frames => u = last)
  <2>1. CASE full
    BY <1>2, <1>4, <1>5, <2>1
  <2>2. CASE ~full
    BY <1>2, <1>4, <1>5, <2>2
  <2> QED
    BY <2>1, <2>2
<1>7. /\ \A g : g \in DOMAIN fs <=> (g \in DOMAIN frames /\ g # last) \/ g = u
      /\ \A g \in DOMAIN frames : g # last => fs[g] = frames[g]
      /\ fs[u] = frames[last] /\ fs = [g \in DOMAIN fs |-> fs[g]]
  <2>1. CASE full
    <3>1. fs = Put([f \in DOMAIN frames \ {last} |-> frames[f]], u, frames[last])
      BY <2>1 DEF Expanded
    <3>2. u \notin DOMAIN frames \/ u = last
      BY <1>6
    <3> HIDE DEF fs, u
    <3> QED
      BY <3>1, <3>2 DEF Put
  <2>2. CASE ~full
    <3>1. fs = frames /\ u = last
      BY <2>2
    <3> HIDE DEF fs, u
    <3> QED
      BY <1>2, <3>1 DEF FramesTyped
  <2> QED
    BY <2>1, <2>2
<1> HIDE DEF fs, u
<1> DEFINE two == [frames[last] EXCEPT !.next = frames[last].next + 1]
<1>8. /\ \A g : g \in DOMAIN gs <=> (g \in DOMAIN frames /\ g # last) \/ g = u
      /\ \A g \in DOMAIN frames : g # last => gs[g] = frames[g]
      /\ gs[u] = two /\ gs = [g \in DOMAIN gs |-> gs[g]]
  <2>1. DOMAIN gs = DOMAIN fs
    BY <1>7
  <2>2. gs[u] = two
    BY <1>7
  <2>3. ASSUME NEW g \in DOMAIN frames, g # last PROVE gs[g] = frames[g]
    BY <1>6, <1>7, <2>3
  <2>4. gs = [g \in DOMAIN gs |-> gs[g]]
    BY <1>7
  <2> HIDE DEF gs, two
  <2> QED
    BY <1>7, <2>1, <2>2, <2>3, <2>4
<1>9. /\ two \in FrameRecords /\ two.mb = frames[last].mb /\ two.lvars = frames[last].lvars
      /\ two.prev = p /\ two.sync = frames[last].sync /\ two.caught = frames[last].caught
      /\ two.next = frames[last].next + 1 /\ two.local0 = frames[last].local0
  BY <1>5 DEF FrameRecords
<1> HIDE DEF gs, two, p
<1>10. FramesTyped(gs)
  <2>1. DOMAIN gs \subseteq Nat /\ Base \in DOMAIN gs /\ gs[Base] = frames[Base]
    BY <1>2, <1>5, <1>6, <1>8 DEF FramesTyped
  <2>2. IsFiniteSet(DOMAIN gs)
    <3>1. IsFiniteSet(DOMAIN frames \cup {u})
      BY <1>2, FS_AddElement DEF FramesTyped
    <3>2. DOMAIN gs \subseteq DOMAIN frames \cup {u}
      BY <1>8
    <3> QED
      BY <3>1, <3>2, FS_Subset
  <2>3. ASSUME NEW g \in DOMAIN gs
        PROVE  gs[g] \in FrameRecords /\ (gs[g].caught => gs[g].mb \in Handlers)
    BY <1>2, <1>8, <1>9, FrameFields DEF FramesTyped
  <2>4. ASSUME NEW g \in DOMAIN gs PROVE SyncOK(gs[g])
    BY <1>2, <1>8, <1>9 DEF FramesTyped, SyncOK
  <2>5. gs \in [DOMAIN gs -> FrameRecords]
    BY <1>8, <2>3
  <2> QED
    BY <1>2, <2>1, <2>2, <2>3, <2>5, <2>4 DEF FramesTyped
<1>11. IsLast(gs, u)
  BY <1>2, <1>5, <1>6, <1>8 DEF IsLast
<1>12. p \in DOMAIN gs /\ gs[p] = frames[p] /\ End(gs, p) = End(frames, p)
  BY <1>5, <1>8 DEF End
<1>13. FrameOK(gs, u)
  <2>1. ASSUME NEW g \in DOMAIN gs, g < u PROVE g <= p
    <3>1. g # u
      BY <1>6, <2>1
    <3>2. g \in DOMAIN frames /\ g # last
      BY <1>8, <3>1
    <3>3. g < last
      BY <1>2, <1>5, <3>2
    <3> QED
      BY <1>5, <3>2, <3>3
  <2>2. Ostack(p) <= u /\ frames[last].lvars <= u
    <3>1. \A n \in Nat : n <= last => n <= u
      BY <1>2, <1>6
    <3> QED
      BY <1>5, <3>1
  <2>3. /\ gs[u].prev = p /\ gs[u].mb = frames[last].mb /\ gs[u].lvars = frames[last].lvars
        /\ gs[u].next \in Nat /\ gs[u].next <= u
    BY <1>5, <1>6, <1>8, <1>9
  <2>4. FrameOK(frames, last) /\ frames[last].mb # Nil /\ frames[last].mb \in NativeMethods
        /\ frames[last].prev = p
    BY <1>2, <1>4, <1>5 DEF p
  <2> QED
    BY <1>4, <1>12, <2>1, <2>2, <2>3, <2>4 DEF FrameOK
<1>14. ASSUME NEW x \in Nat, x < last PROVE Same(frames, gs, x)
  <2>1. ASSUME NEW f \in Nat, f <= x
        PROVE  (f \in DOMAIN frames <=> f \in DOMAIN gs)
               /\ (f \in DOMAIN frames => gs[f] = frames[f])
    <3>1. f # last /\ f # u
      BY <1>2, <1>6, <1>14, <2>1
    <3> QED
      BY <1>8, <3>1
  <2> QED
    BY <2>1 DEF Same
<1>15. FramesOK(gs)
  <2>1. ASSUME NEW g \in DOMAIN gs, g # Base, g # u PROVE FrameOK(gs, g)
    <3>1. g \in DOMAIN frames /\ g < last /\ g \in Nat
      BY <1>2, <1>5, <1>8, <2>1
    <3>2. DOMAIN gs \subseteq Nat
      BY <1>10 DEF FramesTyped
    <3>3. Same(frames, gs, g) /\ FrameOK(frames, g)
      BY <1>2, <1>14, <2>1, <3>1 DEF FramesOK
    <3> QED
      BY <1>2, <3>1, <3>2, <3>3, SameFrameOK
  <2> QED
    BY <1>10, <1>13, <2>1 DEF FramesOK
<1>16. Same(frames, gs, L[2])
  BY <1>2, <1>14
<1>17. CallOK(gs, calls[1], u, L[2])
  <2>1. L[2] \in DOMAIN gs /\ u \in DOMAIN gs /\ L[2] < u
    BY <1>2, <1>6, <1>8
  <2>2. ASSUME calls[1].by = "execute"
        PROVE  \E d \in DOMAIN gs : ExecutedFrom(gs, calls[1], u, L[2], d)
    <3>1. PICK d \in DOMAIN frames : ExecutedFrom(frames, calls[1], last, L[2], d)
      BY <1>2, <2>2 DEF CallOK
    <3>2. d < last /\ d \in Nat /\ d # last /\ d < u /\ d \in DOMAIN gs /\ gs[d] = frames[d]
      BY <1>2, <1>5, <1>6, <1>8, <3>1 DEF ExecutedFrom
    <3>3. ASSUME NEW g \in DOMAIN gs, d < g, g <= u
          PROVE  /\ gs[g].mb \in Methods
                 /\ gs[g].mb \in NativeMethods <=> calls[1].kind = "native"
                 /\ gs[g].prev = d => gs[g].sync = calls[1].sync
      <4>1. CASE g = u
        BY <1>2, <1>4, <1>8, <1>9, <4>1
      <4>2. CASE g # u
        <5>1. g \in DOMAIN frames /\ g <= last /\ gs[g] = frames[g]
          BY <1>5, <1>8, <4>2
        <5> QED
          BY <3>1, <3>3, <5>1 DEF ExecutedFrom
      <4> QED
        BY <4>1, <4>2
    <3>4. gs[u].prev = d
      BY <1>2, <1>8, <1>9, <3>1 DEF ExecutedFrom, p
    <3>5. ExecutedFrom(gs, calls[1], u, L[2], d)
      BY <1>2, <3>1, <3>2, <3>3, <3>4 DEF ExecutedFrom
    <3> QED
      BY <3>2, <3>5
  <2>3. ASSUME calls[1].by = "invoke"
        PROVE  gs[u].mb \in NativeMethods /\ gs[u].prev = L[2] /\ gs[u].sync = calls[1].sync
    BY <1>2, <1>8, <1>9, <2>3 DEF CallOK, p
  <2>4. gs[u].prev < calls[1].frame /\ calls[1].frame <= u
    <3>1. p < calls[1].frame /\ calls[1].frame <= last /\ calls[1].frame \in Nat
      BY <1>2, CallFields DEF CallOK, p
    <3> QED
      BY <1>2, <1>6, <1>8, <1>9, <3>1
  <2> QED
    BY <1>2, <2>1, <2>2, <2>3, <2>4 DEF CallOK
<1>18. StateOK(gs, calls[1], u)
  BY <1>2 DEF StateOK
<1>19. LocksOK(gs, u, locked)
  <2>1. ASSUME NEW o \in Lockable
        PROVE  Cardinality(Held(gs, u, o)) = Cardinality(Held(frames, last, o))
    <3>1. \A g : g \in Held(frames, last, o) <=> g \in DOMAIN frames /\ frames[g].sync = o
      BY <1>5 DEF Held
    <3>2. \A g : g \in Held(gs, u, o) <=> g \in DOMAIN gs /\ gs[g].sync = o
      BY <1>11 DEF Held, IsLast
    <3>3. \A g \in DOMAIN frames : g # last => g # u
      BY <1>5, <1>6
    <3>4. CASE frames[last].sync # o
      <4>1. \A g : g \in Held(gs, u, o) <=> g \in Held(frames, last, o)
        BY <1>8, <1>9, <3>1, <3>2, <3>3, <3>4
      <4>2. Held(gs, u, o) = Held(frames, last, o)
        BY <4>1
      <4> QED
        BY <4>2
    <3>5. CASE frames[last].sync = o
      <4> DEFINE R == Held(frames, last, o) \ {last}
      <4>1. Held(gs, u, o) = R \cup {u} /\ Held(frames, last, o) = R \cup {last}
            /\ u \notin R /\ last \notin R
        <5>1. \A g : g \in Held(gs, u, o) <=> g \in R \/ g = u
          BY <1>8, <1>9, <3>1, <3>2, <3>3, <3>5
        <5>2. last \in Held(frames, last, o)
          BY <1>2, <3>1, <3>5
        <5>3. u \notin R
          BY <3>1, <3>3
        <5> QED
          BY <5>1, <5>2, <5>3
      <4>2. IsFiniteSet(R)
        BY <1>2, HeldIsFinite, FS_Subset
      <4> HIDE DEF R
      <4>3. /\ Cardinality(R \cup {u}) = Cardinality(R) + 1
            /\ Cardinality(R \cup {last}) = Cardinality(R) + 1
        BY <4>1, <4>2, FS_AddElement
      <4> QED
        BY <4>1, <4>3
    <3> QED
      BY <3>4, <3>5
  <2> QED
    BY <1>2, <2>1 DEF LocksOK
<1>20. Dummies(gs) = Dummies(frames)
  <2>1. \A g : g \in Dummies(gs) <=> g \in Dummies(frames)
    BY <1>4, <1>5, <1>6, <1>8, <1>9 DEF Dummies
  <2> QED
    BY <2>1
<1>21. LockTop(calls, u) = u
  BY <1>2 DEF LockTop
<1>22. StackOK(gs, u, calls, locked)
  <2>1. /\ \A h \in DOMAIN gs : h \in DOMAIN frames \/ h > last
        /\ LocksOK(gs, LockTop(calls, u), locked)
        /\ Cardinality(Dummies(gs)) = Cardinality(Dummies(frames))
    BY <1>2, <1>6, <1>8, <1>19, <1>20, <1>21
  <2> QED
    BY <1>2, <1>11, <1>15, <1>16, <1>17, <1>18, <2>1, TopStep
<1> QED
  BY <1>3, <1>22 DEF JInv

-----------------------------------------------------------------------------
(* The invariant.                                                          *)
LEMMA JInvInit ==
    ASSUME Init
    PROVE  JInv
<1>1. /\ DOMAIN frames = {Base} /\ frames[Base] = Frame("thread", Base, Nil)
      /\ frames = [f \in DOMAIN frames |-> frames[f]]
      /\ last = Base /\ stackEnd = StackSize /\ exception = FALSE /\ calls = <<ThreadCall>>
      /\ locked = [o \in Lockable |-> 0]
  BY DEF Init, ThreadCall, Lockable
<1>2. Base \in Nat /\ StackSize \in Nat
  BY StackAssumption DEF StackAssumption, Base
<1>3. /\ frames[Base] \in FrameRecords /\ frames[Base].mb = "thread" /\ frames[Base].prev = Nil
      /\ frames[Base].sync = Nil /\ frames[Base].caught = FALSE /\ SyncOK(frames[Base])
  BY <1>1, <1>2, Constants DEF Frame, FrameRecords, SyncOK
<1>4. FramesTyped(frames)
  <2>1. IsFiniteSet({Base})
    BY FS_Singleton
  <2>2. frames \in [DOMAIN frames -> FrameRecords]
    BY <1>1, <1>3
  <2> QED
    BY <1>1, <1>2, <1>3, <2>1, <2>2 DEF FramesTyped
<1>5. FramesOK(frames) /\ IsLast(frames, last)
  BY <1>1, <1>2, <1>4 DEF FramesOK, IsLast
<1>6. ThreadCall \in CallRecords
  BY <1>2 DEF ThreadCall, CallRecords
<1>7. calls \in Seq(CallRecords) /\ Len(calls) = 1 /\ calls[1] = ThreadCall
  BY <1>1, <1>6
<1>8. CallsOK(frames, calls, last)
  <2> DEFINE L == [k \in 1..1 |-> Base]
  <2>1. Chain(frames, calls, last, L)
    BY <1>1, <1>2, <1>7 DEF Chain
  <2> QED
    BY <1>7, <2>1 DEF CallsOK
<1>9. LocksOK(frames, LockTop(calls, last), locked)
  <2>1. LockTop(calls, last) = last
    BY <1>7 DEF LockTop, ThreadCall
  <2>2. ASSUME NEW o \in Lockable PROVE Held(frames, last, o) = {}
    BY <1>1, <1>3, Constants DEF Held
  <2>3. Cardinality({}) = 0
    BY FS_EmptySet
  <2>4. \A o \in Lockable : locked[o] = Cardinality(Held(frames, last, o))
    BY <1>1, <2>2, <2>3
  <2>5. locked \in [Lockable -> Nat]
    BY <1>1
  <2> QED
    BY <2>1, <2>4, <2>5 DEF LocksOK
<1>10. Counted(frames, calls)
  <2>1. Dummies(frames) = {}
    BY <1>1, <1>3, Constants DEF Dummies
  <2>2. Executions(calls) = {}
    BY <1>7 DEF Executions, ThreadCall
  <2> QED
    BY <2>1, <2>2 DEF Counted
<1> QED
  BY <1>1, <1>2, <1>5, <1>8, <1>9, <1>10 DEF JInv, StackOK

LEMMA JInvStep ==
    ASSUME JInv, [Next]_vars
    PROVE  JInv'
<1>1. CASE push
  BY <1>1, pushStep
<1>2. CASE throwNew
  BY <1>2, throwNewStep
<1>3. CASE athrow
  BY <1>3, athrowStep
<1>4. CASE methodReturn
  BY <1>4, methodReturnStep
<1>5. CASE throwException
  BY <1>5, throwExceptionStep
<1>6. CASE findCatchBlock
  BY <1>6, findCatchBlockStep
<1>7. ASSUME NEW m \in Methods,
             callFromByteCode(m) \/ stackOverflow(m) \/ invokeMethod(m) \/ callFromNative(m)
      PROVE  JInv'
  BY <1>7, callFromByteCodeStep, stackOverflowStep, invokeMethodStep, callFromNativeStep
<1>8. CASE setException \/ clearException
  BY <1>8, setExceptionStep
<1>9. CASE nativeReturn
  BY <1>9, nativeReturnStep
<1>10. CASE addJNILref
  BY <1>10, addJNILrefStep
<1>11. CASE astore_0
  BY <1>11, astore_0Step
<1>12. CASE UNCHANGED vars
  BY <1>12 DEF vars, JInv
<1> QED
  BY <1>1, <1>2, <1>3, <1>4, <1>5, <1>6, <1>7, <1>8, <1>9, <1>10, <1>12, <1>11 DEF Next

LEMMA JInvAlways == Spec => []JInv
<1>1. Init => JInv
  BY JInvInit
<1>2. JInv /\ [Next]_vars => JInv'
  BY JInvStep
<1> QED
  BY <1>1, <1>2, PTL DEF Spec

-----------------------------------------------------------------------------
(* What follows from it.                                                   *)

(* Locks are counted by frames.                                            *)
LEMMA JInvLocks ==
    ASSUME JInv
    PROVE  LocksMatchFrames
<1> DEFINE top == IF Top.kind = "java" /\ Top.at = "unwind" THEN Top.frame ELSE last
<1>1. Top = calls[1]
  BY DEF JInv, StackOK, CallsOK, Top
<1>2. top = LockTop(calls, last)
  BY <1>1 DEF LockTop
<1>3. ThisIsKept => \A o \in Lockable : locked[o] = Cardinality(Held(frames, top, o))
  BY <1>2 DEF JInv, StackOK, LocksOK
<1> HIDE DEF top
<1>4. ThisIsKept =>
        \A o \in Objects \cup {Class} :
           locked[o] = Cardinality({f \in DOMAIN frames : f <= top /\ frames[f].sync = o})
  BY <1>3 DEF Held, Lockable
<1> QED
  BY <1>4 DEF LocksMatchFrames, top

(* C functions and frames agree.                                           *)
LEMMA JInvCalls ==
    ASSUME JInv
    PROVE  CallsMatchFrames
<1>1. PICK L : Chain(frames, calls, last, L)
  BY DEF JInv, StackOK, CallsOK
<1>2. /\ FramesOK(frames) /\ FramesTyped(frames) /\ IsLast(frames, last) /\ last \in DOMAIN frames
      /\ last \in Nat /\ calls \in Seq(CallRecords) /\ Len(calls) > 0 /\ Len(calls) \in Nat
      /\ Top = calls[1]
  BY FrameFields DEF JInv, StackOK, CallsOK, FramesOK, IsLast, Top
<1>3. Cardinality({f \in DOMAIN frames : frames[f].mb = Nil})
         = Cardinality({k \in 1..Len(calls) : calls[k].by = "execute"})
  BY DEF JInv, StackOK, Counted, Dummies, Executions
<1>4. ASSUME Running("java")
      PROVE  last = Top.frame /\ frames[last].mb \in Methods \ NativeMethods
  <2>1. PICK M, d : AtJava(M, d)
    BY <1>4, JavaState DEF Running
  <2> QED
    BY <1>4, <2>1 DEF AtJava, StateOK, Running, ExecutedFrom
<1>5. ASSUME Running("native")
      PROVE  /\ frames[last].mb \in NativeMethods \cup {"thread"}
             /\ \A f \in DOMAIN frames : f < last => f < Top.frame
  <2>1. CASE Top.by # "thread"
    <3>1. PICK M :
             /\ CallOK(frames, calls[1], last, M[2]) /\ calls[1].kind = "native"
             /\ last # Base /\ frames[last].mb \in NativeMethods
             /\ frames[last].prev \in DOMAIN frames /\ calls[1] \in CallRecords
      BY <1>5, <2>1, NativeState
    <3>2. /\ frames[last].prev < calls[1].frame /\ calls[1].frame \in Nat
          /\ frames[last].prev \in Nat
          /\ \A f \in DOMAIN frames : f < last => f <= frames[last].prev
      BY <1>2, <3>1, CallFields, Before DEF CallOK
    <3>3. DOMAIN frames \subseteq Nat
      BY <1>2 DEF FramesTyped
    <3> QED
      BY <1>2, <3>1, <3>2, <3>3
  <2>2. CASE Top.by = "thread"
    <3>1. Len(calls) = 1
      <4> SUFFICES ASSUME Len(calls) # 1 PROVE FALSE
        OBVIOUS
      <4>1. 1 \in 1..(Len(calls) - 1)
        <5>1. \A n \in Nat : n > 0 /\ n # 1 => 1 \in 1..(n - 1)
          OBVIOUS
        <5> QED
          BY <1>2, <5>1
      <4>2. CallOK(frames, calls[1], L[1], L[1 + 1])
        BY <1>1, <4>1 DEF Chain
      <4> QED
        BY <1>2, <2>2, <4>2 DEF CallOK
    <3>2. last = Base
      BY <1>1, <3>1 DEF Chain
    <3> QED
      BY <1>2, <3>2 DEF FramesTyped, Base
  <2> QED
    BY <2>1, <2>2
<1> QED
  BY <1>3, <1>4, <1>5 DEF CallsMatchFrames

LEMMA JInvTypes ==
    ASSUME JInv
    PROVE  TypeOK
<1>1. FramesTyped(frames) /\ FramesOK(frames) /\ last \in DOMAIN frames
  BY DEF JInv, StackOK, FramesOK, IsLast
<1>2. ASSUME NEW f \in DOMAIN frames
      PROVE  /\ frames[f].mb \in Methods \cup {"thread", Nil}
             /\ frames[f].prev \in DOMAIN frames \cup {Nil}
             /\ frames[f].sync \in Objects \cup {Class, Nil} /\ frames[f].local0 \in Objects \cup {Nil}
  <2>1. /\ frames[f].mb \in Methods \cup {"thread", Nil}
        /\ frames[f].sync \in Objects \cup {Class, Nil} /\ frames[f].local0 \in Objects \cup {Nil}
    BY <1>1, FrameFields DEF Lockable
  <2>2. frames[f].prev \in DOMAIN frames \cup {Nil}
    BY <1>1, Before DEF FramesTyped
  <2> QED
    BY <2>1, <2>2
<1>3. calls \in Seq([kind : {"java", "native"}, at : {"run", "call", "signal", "throw", "unwind"},
                     frame : Nat, sp : Nat, this : Objects \cup {Nil},
                     by : {"thread", "execute", "invoke"}, sync : Objects \cup {Class, Nil}])
  <2>1. calls \in Seq(CallRecords)
    BY DEF JInv, StackOK, CallsOK
  <2>2. Lockable \cup {Nil} = Objects \cup {Class, Nil}
    BY DEF Lockable
  <2> QED
    BY <2>1, <2>2 DEF CallRecords
<1>4. locked \in [Objects \cup {Class} -> Nat]
  BY DEF JInv, StackOK, LocksOK, Lockable
<1> QED
  BY <1>1, <1>2, <1>3, <1>4 DEF TypeOK, JInv, FramesTyped


(* The header of a frame ends below the next one.                          *)
LEMMA HeadersApart ==
    ASSUME NEW fs, FramesOK(fs), NEW f \in DOMAIN fs, NEW g \in DOMAIN fs, f < g
    PROVE  f \in Nat /\ g \in Nat /\ Ostack(f) <= g
<1>1. FramesTyped(fs) /\ f \in Nat /\ g \in Nat /\ g # Base
  BY FrameFields DEF FramesOK, Base
<1>2. f <= fs[g].prev /\ Ostack(fs[g].prev) <= g /\ fs[g].prev \in Nat
  BY <1>1, Before
<1> QED
  BY <1>1, <1>2, Constants DEF Ostack

(* The local variables of a frame, and the operands they lie above.        *)
LEMMA WordsBelow ==
    ASSUME FramesOK(frames), NEW g \in DOMAIN frames, NEW w \in Locals(g) \cup OperandsBelow(g)
    PROVE  /\ g # Base /\ frames[g].prev \in DOMAIN frames /\ frames[g].prev # Base
           /\ w \in Ostack(frames[g].prev)..(g - 1)
<1>1. FramesTyped(frames) /\ g \in Nat /\ frames[g].lvars \in Nat
  BY FrameFields DEF FramesOK
<1>2. frames[g].mb \in Methods
  BY Constants DEF Locals, OperandsBelow
<1>3. g # Base
  BY <1>1, <1>2, Constants DEF FramesTyped
<1> DEFINE p == frames[g].prev
           m == frames[g].mb
           v == frames[g].lvars
<1>4. FrameOK(frames, g) /\ p \in DOMAIN frames /\ p \in Nat /\ Ostack(p) \in Nat
  BY <1>3, Before
<1>5. m # Nil
  BY <1>2, Constants
<1>6. /\ frames[p].mb \in (Methods \ NativeMethods) \cup {Nil} /\ Ostack(p) <= v /\ v <= g
      /\ m \notin NativeMethods => v + MaxLocals[m] <= g
      /\ m \in NativeMethods => frames[g].next \in Nat /\ frames[g].next <= g
  BY <1>4, <1>5 DEF FrameOK
<1>7. p # Base
  BY <1>1, <1>6, Constants DEF FramesTyped
<1>8. CASE w \in OperandsBelow(g)
  <2>1. w \in Ostack(p)..(v - 1)
    BY <1>8 DEF OperandsBelow
  <2> HIDE DEF p, v
  <2>2. v \in Nat
    BY <1>1 DEF v
  <2>3. w \in Ostack(p)..(g - 1)
    BY <1>1, <1>4, <1>6, <2>1, <2>2
  <2> QED
    BY <1>3, <1>4, <1>7, <2>3 DEF p
<1>9. CASE w \in Locals(g) /\ m \in NativeMethods
  <2>1. w \in v..(frames[g].next - 1)
    BY <1>9 DEF Locals
  <2> DEFINE n == frames[g].next
  <2>2. v \in Nat /\ n \in Nat /\ n <= g
    BY <1>1, <1>6, <1>9
  <2> HIDE DEF p, v, n
  <2>3. w \in v..(n - 1)
    BY <2>1 DEF n
  <2>4. w \in Ostack(p)..(g - 1)
    BY <1>1, <1>4, <1>6, <2>2, <2>3
  <2> QED
    BY <1>3, <1>4, <1>7, <2>4 DEF p
<1>10. CASE w \in Locals(g) /\ m \notin NativeMethods
  <2> DEFINE n == MaxLocals[m]
  <2>1. w \in v..(v + n - 1)
    BY <1>2, <1>10 DEF Locals
  <2>2. v \in Nat /\ n \in Nat /\ v + n <= g
    BY <1>1, <1>2, <1>6, <1>10, Constants
  <2> HIDE DEF p, v, n
  <2>3. w \in Ostack(p)..(g - 1)
    BY <1>1, <1>4, <1>6, <2>1, <2>2
  <2> QED
    BY <1>3, <1>4, <1>7, <2>3 DEF p
<1> QED
  BY <1>8, <1>9, <1>10

(* The operands of an interpreter: they end below the next frame, which, if another C *)
(* function was called since, is the first that this one owns.             *)
LEMMA OperandsOf ==
    ASSUME JInv, NEW k \in Computing, NEW w \in Ostack(calls[k].frame)..(calls[k].sp - 1)
    PROVE  \E l \in DOMAIN frames :
              /\ l # Base /\ w \in Ostack(l)..(End(frames, l) - 1)
              /\ \A h \in DOMAIN frames : h > l => w < h
              /\ l = last \/ \E g \in DOMAIN frames : frames[g].prev = l /\ l < g
<1>1. PICK L : Chain(frames, calls, last, L)
  BY DEF JInv, StackOK, CallsOK
<1>2. /\ FramesOK(frames) /\ FramesTyped(frames) /\ IsLast(frames, last)
      /\ calls \in Seq(CallRecords) /\ Len(calls) \in Nat /\ DOMAIN frames \subseteq Nat
  BY DEF JInv, StackOK, CallsOK, FramesOK, FramesTyped
<1>3. k \in 1..Len(calls) /\ calls[k].kind = "java" /\ calls[k].at \in {"run", "call", "signal"}
      /\ k \in Nat
  BY DEF Computing
<1>4. k \in 1..(Len(calls) - 1) /\ k + 1 \in 1..Len(calls) /\ (k # 1 => k - 1 \in 1..(Len(calls) - 1))
  <2>1. k # Len(calls)
    BY <1>1, <1>3 DEF Chain, ThreadCall
  <2>2. \A n \in Nat : k \in 1..n /\ k # n =>
            k \in 1..(n - 1) /\ k + 1 \in 1..n /\ (k # 1 => k - 1 \in 1..(n - 1))
    BY <1>3
  <2> QED
    BY <1>2, <1>3, <2>1, <2>2
<1>5. CallOK(frames, calls[k], L[k], L[k + 1]) /\ StateOK(frames, calls[k], L[k])
  BY <1>1, <1>4 DEF Chain
<1>6. L[k + 1] \in Nat /\ L[k] \in DOMAIN frames /\ L[k + 1] < L[k]
  BY <1>1, <1>4, <1>5 DEF Chain, CallOK
<1>7. calls[k].sp \in Nat /\ calls[k].frame = L[k] /\ Ostack(L[k]) <= calls[k].sp
      /\ calls[k].sp <= End(frames, L[k]) /\ \A h \in DOMAIN frames : h > L[k] => h >= calls[k].sp
  <2>1. calls[k] \in CallRecords
    BY <1>2, <1>3
  <2>2. calls[k].at # "unwind"
    BY <1>3
  <2> QED
    BY <1>3, <1>5, <2>1, <2>2, CallFields DEF StateOK
<1>8. L[k] # Base
  BY <1>2, <1>6 DEF Base
<1>9. L[k] \in Nat /\ Ostack(L[k]) \in Nat /\ End(frames, L[k]) \in Nat
  BY <1>2, <1>6, EndIsAbove
<1> DEFINE l == L[k]
           sp == calls[k].sp
<1>10. w \in Ostack(l)..(End(frames, l) - 1) /\ \A h \in DOMAIN frames : h > l => w < h
  <2>1. w \in Ostack(l)..(sp - 1)
    BY <1>7
  <2>2. /\ l \in Nat /\ sp \in Nat /\ Ostack(l) \in Nat /\ End(frames, l) \in Nat
        /\ sp <= End(frames, l) /\ \A h \in DOMAIN frames : h > l => h >= sp
    BY <1>7, <1>9
  <2> HIDE DEF l, sp
  <2>3. w \in Int /\ w < sp
    BY <2>1, <2>2
  <2>4. w \in Ostack(l)..(End(frames, l) - 1)
    BY <2>1, <2>2
  <2>5. ASSUME NEW h \in DOMAIN frames, h > l PROVE w < h
    BY <1>2, <2>2, <2>3, <2>5
  <2> QED
    BY <2>4, <2>5
<1>11. l = last \/ \E g \in DOMAIN frames : frames[g].prev = l /\ l < g
  <2>1. CASE k = 1
    BY <1>1, <2>1 DEF Chain
  <2>2. CASE k # 1
    <3> DEFINE j == k - 1
    <3>1. j \in 1..(Len(calls) - 1) /\ j + 1 = k
      BY <1>3, <1>4, <2>2
    <3> HIDE DEF j
    <3>2. CallOK(frames, calls[j], L[j], L[k])
      BY <1>1, <3>1 DEF Chain
    <3>3. CASE calls[j].by = "execute"
      <4>1. PICK d \in DOMAIN frames : ExecutedFrom(frames, calls[j], L[j], L[k], d)
        BY <3>2, <3>3 DEF CallOK
      <4>2. d # Base /\ frames[d].prev = L[k]
        BY <1>2, <1>6, <4>1, Constants DEF ExecutedFrom, FramesTyped
      <4>3. L[k] < d
        BY <1>2, <4>2, Before
      <4> QED
        BY <4>2, <4>3
    <3>4. CASE calls[j].by = "invoke"
      BY <3>2, <3>4 DEF CallOK
    <3> QED
      BY <3>2, <3>3, <3>4 DEF CallOK
  <2> QED
    BY <2>1, <2>2
<1> HIDE DEF l
<1>12. l \in DOMAIN frames /\ l # Base
  BY <1>6, <1>8 DEF l
<1> QED
  BY <1>10, <1>11, <1>12

(* The words in use, by where they lie.                                    *)
LEMMA LiveWords ==
    ASSUME NEW w \in Live
    PROVE  \/ \E g \in DOMAIN frames : w \in Locals(g) \cup OperandsBelow(g)
           \/ \E k \in Computing : w \in Ostack(calls[k].frame)..(calls[k].sp - 1)
<1> DEFINE A == UNION {Locals(f) \cup OperandsBelow(f) : f \in DOMAIN frames}
           B == UNION {Ostack(calls[k].frame)..(calls[k].sp - 1) : k \in Computing}
<1>1. Live = A \cup B
  BY DEF Live
<1>2. ASSUME w \in A PROVE \E g \in DOMAIN frames : w \in Locals(g) \cup OperandsBelow(g)
  BY <1>2, Zenon
<1>3. ASSUME w \in B PROVE \E k \in Computing : w \in Ostack(calls[k].frame)..(calls[k].sp - 1)
  BY <1>3, Zenon
<1> HIDE DEF A, B
<1> QED
  BY <1>1, <1>2, <1>3

(* Headers lie between the words in use.                                   *)
LEMMA JInvHeaders ==
    ASSUME JInv
    PROVE  HeadersAreIntact
<1>1. FramesOK(frames) /\ FramesTyped(frames) /\ DOMAIN frames \subseteq Nat
  BY DEF JInv, StackOK, FramesOK, FramesTyped
<1>2. ASSUME NEW f \in DOMAIN frames, NEW w \in Header(f)
      PROVE  w \in Nat /\ f \in Nat /\ f <= w /\ w < Ostack(f) /\ Ostack(f) \in Nat
  BY <1>1, Constants DEF Header, Ostack
<1>3. ASSUME NEW f \in DOMAIN frames, NEW w \in Header(f), w \in Live
      PROVE  FALSE
  <2>1. w \in Nat /\ f \in Nat /\ f <= w /\ w < Ostack(f) /\ Ostack(f) \in Nat
    BY <1>2
  <2>2. ASSUME NEW g \in DOMAIN frames, w \in Locals(g) \cup OperandsBelow(g) PROVE FALSE
    <3> DEFINE p == frames[g].prev
    <3>1. g # Base /\ w \in Ostack(p)..(g - 1)
      BY <1>1, <2>2, WordsBelow
    <3>2. g \in Nat /\ p \in Nat /\ \A h \in DOMAIN frames : h < g => h <= p
      BY <1>1, <3>1, Before
    <3> HIDE DEF p
    <3>3. w < g /\ Ostack(p) <= w
      BY <2>1, <3>1, <3>2, Constants DEF Ostack
    <3>4. f <= p
      BY <2>1, <3>2, <3>3
    <3> QED
      BY <2>1, <3>2, <3>3, <3>4, Constants DEF Ostack
  <2>3. ASSUME NEW k \in Computing, w \in Ostack(calls[k].frame)..(calls[k].sp - 1) PROVE FALSE
    <3>1. PICK l \in DOMAIN frames :
             /\ l # Base /\ w \in Ostack(l)..(End(frames, l) - 1)
             /\ \A h \in DOMAIN frames : h > l => w < h
      BY <2>3, OperandsOf
    <3>2. l \in Nat /\ Ostack(l) \in Nat /\ End(frames, l) \in Nat
      BY <1>1, EndIsAbove
    <3>3. Ostack(l) <= w
      BY <3>1, <3>2
    <3>4. ~ (f > l)
      BY <2>1, <3>1
    <3> QED
      BY <2>1, <3>2, <3>3, <3>4, Constants DEF Ostack
  <2> QED
    BY <1>3, <2>2, <2>3, LiveWords
<1>4. ASSUME NEW f \in DOMAIN frames, NEW g \in DOMAIN frames, NEW w \in Header(f),
             w \in Header(g), f < g
      PROVE  FALSE
  <2>1. Ostack(f) <= g
    BY <1>1, <1>4, HeadersApart
  <2> QED
    BY <1>2, <1>4, <2>1
<1>5. ASSUME NEW f \in DOMAIN frames, NEW g \in DOMAIN frames \ {f}
      PROVE  Header(f) \cap Header(g) = {}
  <2>1. f < g \/ g < f
    BY <1>1
  <2> QED
    BY <1>4, <2>1
<1> QED
  BY <1>3, <1>5, JInvTypes DEF HeadersAreIntact

(* The collector follows the frames to every word in use.                  *)
LEMMA JInvRoots ==
    ASSUME JInv
    PROVE  RootsAreScanned
<1>1. FramesOK(frames) /\ FramesTyped(frames) /\ DOMAIN frames \subseteq Nat
      /\ last \in DOMAIN frames
  BY DEF JInv, StackOK, FramesOK, FramesTyped, IsLast
<1>2. ASSUME NEW g \in DOMAIN frames, frames[g].prev \in DOMAIN frames, frames[g].prev # Base,
             NEW w \in Ostack(frames[g].prev)..(g - 1)
      PROVE  w \in Scanned
  <2>1. frames[g].prev # Nil
    BY <1>1, <1>2, Constants
  <2>2. frames[frames[g].prev].prev # Nil
    BY <1>1, <1>2, Before
  <2>3. g \in {h \in DOMAIN frames : frames[h].prev # Nil /\ frames[frames[h].prev].prev # Nil}
    BY <2>1, <2>2
  <2> QED
    BY <1>2, <2>3 DEF Scanned
<1>3. ASSUME NEW g \in DOMAIN frames, NEW w \in Locals(g) \cup OperandsBelow(g)
      PROVE  w \in Scanned
  <2>1. /\ frames[g].prev \in DOMAIN frames /\ frames[g].prev # Base
        /\ w \in Ostack(frames[g].prev)..(g - 1)
    BY <1>1, WordsBelow
  <2> QED
    BY <1>2, <2>1
<1>4. ASSUME NEW k \in Computing, NEW w \in Ostack(calls[k].frame)..(calls[k].sp - 1)
      PROVE  w \in Scanned
  <2>1. PICK l \in DOMAIN frames :
           /\ l # Base /\ w \in Ostack(l)..(End(frames, l) - 1)
           /\ \A h \in DOMAIN frames : h > l => w < h
           /\ l = last \/ \E g \in DOMAIN frames : frames[g].prev = l /\ l < g
    BY OperandsOf
  <2>2. Ostack(l) \in Nat /\ End(frames, l) \in Nat /\ l \in Nat
    BY <1>1, EndIsAbove
  <2>3. CASE l = last
    <3>1. frames[last].prev # Nil
      BY <1>1, <2>1, <2>3, Before
    <3>2. Dummy(last) = End(frames, last)
      BY DEF Dummy, End
    <3>3. w \in Ostack(last)..End(frames, last)
      BY <2>1, <2>2, <2>3
    <3> QED
      BY <3>1, <3>2, <3>3 DEF Scanned
  <2>4. ASSUME NEW g \in DOMAIN frames, frames[g].prev = l, l < g PROVE w \in Scanned
    <3>1. w < g /\ g \in Nat
      BY <1>1, <2>1, <2>2, <2>4
    <3>2. w \in Ostack(l)..(g - 1)
      BY <2>1, <2>2, <3>1
    <3> QED
      BY <1>2, <2>1, <2>4, <3>2
  <2> QED
    BY <2>1, <2>3, <2>4
<1>5. ASSUME NEW w \in Live PROVE w \in Scanned
  BY <1>3, <1>4, LiveWords
<1> QED
  BY <1>5 DEF RootsAreScanned

-----------------------------------------------------------------------------
(* The words of the stack are used once: no frame header is overwritten by *)
(* the operands, local variables or local references of another frame,     *)
(* which is what the places that CREATE_TOP_FRAME, invokeMethod and        *)
(* expandJNILrefs give new frames are for.                                 *)
THEOREM HeadersStayIntact == Spec => []HeadersAreIntact
<1>1. JInv => HeadersAreIntact
  BY JInvHeaders
<1> QED
  BY <1>1, JInvAlways, PTL

(* A collection may happen at any time: scanThread sees every local        *)
(* variable, operand and local reference, those of the methods that wait   *)
(* for others and for C code too.                                          *)
THEOREM RootsStayScanned == Spec => []RootsAreScanned
<1>1. JInv => RootsAreScanned
  BY JInvRoots
<1> QED
  BY <1>1, JInvAlways, PTL

(* Returns and exceptions undo what calls did: there is one dummy frame    *)
(* for each executeMethod that is active, and whoever runs has the last    *)
(* frame, after POP_TOP_FRAME, methodReturn and findCatchBlock too.        *)
THEOREM CallsKeepMatching == Spec => []CallsMatchFrames
<1>1. JInv => CallsMatchFrames
  BY JInvCalls
<1> QED
  BY <1>1, JInvAlways, PTL

(* The lock of a synchronized method is released as often as it was taken, *)
(* whether a frame is left by methodReturn, by findCatchBlock, at the end  *)
(* of executeMethod or of a native method.  LocksMatchFrames says so under *)
(* the hypothesis ThisIsKept: the register this and local variable 0 then  *)
(* hold the object that was locked (ThisOK, SyncOK), through calls, returns *)
(* to another frame and catches.                                           *)
THEOREM LocksKeepMatching == Spec => []LocksMatchFrames
<1>1. JInv => LocksMatchFrames
  BY JInvLocks
<1> QED
  BY <1>1, JInvAlways, PTL

=============================================================================
