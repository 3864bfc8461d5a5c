---------------------------- MODULE ClassInitProofs ----------------------------
(***************************************************************************)
(* Proofs about Quicken and the initialisation of classes, for any number  *)
(* of threads, any classes, constant pools and byte code, whatever         *)
(* <clinit> does.  First, the protocols by which threads share constant    *)
(* pools and byte code without a lock are right, whatever the order of     *)
(* their reads and writes; then the protocol of initClass is, and what it  *)
(* promises is there when a class is used.                                 *)
(***************************************************************************)
EXTENDS Quicken, Integers, TLAPS

(* Where an activation may be while one it called is above it.             *)
CallLabels == {"parsed", "super_found", "prepare", "lookup", "resolved",
               "super_initialised", "lock", "body"}

Pointer(e) == cp[e].info = "pointer"
Raw(e) == cp[e].type = "raw"
Slow(i) == code[i].opcode = "slow"
Value(i, n) == code[i].operands[n] = "value"

(* What a quick byte code needs.                                           *)
Done(i) ==
    /\ Kind[i] = "field" => Value(i, 1)
    /\ Kind[i] = "virtual" => Value(i, 1) /\ Value(i, 2)
    /\ Pointer(Ref[i])

(* A raw entry has an index, a resolved one a pointer; a slow byte code    *)
(* has indexes for operands, and a quick one what it needs.  In between    *)
(* nothing is known.                                                       *)
EntriesOK == \A e \in Entries : /\ Raw(e) => cp[e].info = "index"
                                /\ cp[e].type = "resolved" => Pointer(e)
CodeOK == \A i \in Instrs : /\ Slow(i) => ~Value(i, 1) /\ ~Value(i, 2)
                            /\ code[i].opcode = "quick" => Done(i)

(* What a thread has read is what is there still, if the type or opcode it *)
(* will look at says so; and what it writes comes in the right order.      *)
TopOK(t, a) ==
    /\ a.at = "check_type" /\ Raw(a.on) => index[t] = "index"
    /\ a.at = "set_info" => ~Raw(a.on)
    /\ a.at = "set_resolved" => ~Raw(a.on) /\ Pointer(a.on)
    /\ a.at \in {"operand_2", "check_opcode"} /\ Slow(a.on) => operands[t][1] = "index"
    /\ a.at = "check_opcode" /\ Slow(a.on) => operands[t][2] = "index"
    /\ a.at = "resolved" /\ ~exception[t] => Pointer(Ref[a.on])
    /\ a.at \in {"rewrite_1", "rewrite_2", "rewrite_opcode"} =>
          ~Slow(a.on) /\ Pointer(Ref[a.on])
    /\ a.at = "rewrite_1" => ChangesOperands(a.on)
    /\ a.at = "rewrite_2" => Kind[a.on] = "virtual" /\ Value(a.on, 1)
    /\ a.at \in {"rewrite_opcode", "quick"} => Done(a.on)

(* An activation that waits for a, which it called: an instruction waits   *)
(* for the resolution of its entry, or for the initialisation that comes   *)
(* after it.                                                               *)
Waits(b, a) ==
    /\ b.at \in CallLabels
    /\ b.at = "resolved" => Pointer(Ref[b.on]) \/ (a.at \in EntryLabels /\ a.on = Ref[b.on])

ThreadOK(t) ==
    /\ stack[t] # <<>> => TopOK(t, stack[t][1])
    /\ \A k \in 2..Len(stack[t]) : Waits(stack[t][k], stack[t][k - 1])

(* The inductive invariant.                                                *)
IInv == TypeOK /\ EntriesOK /\ CodeOK /\ \A t \in Threads : ThreadOK(t)

-----------------------------------------------------------------------------
(* The subject of an activation is what its label says.                    *)
LEMMA Subjects ==
    ASSUME NEW a \in Activations
    PROVE  /\ a.at \in ClassLabels \cup EntryLabels \cup InstrLabels
           /\ a.at \in ClassLabels => a.on \in Classes
           /\ a.at = "super_found" => Super[a.on] # Nil
           /\ a.at \in EntryLabels => a.on \in Entries
           /\ a.at \in InstrLabels => a.on \in Instrs /\ Ref[a.on] \in Entries
           /\ a.next \in Nat \ {0}
BY CodeAssumption DEF Activations, ClassLabels, EntryLabels, InstrLabels, Entries

(* An activation that goes to a label for the same kind of subject, or is  *)
(* new, is one.                                                            *)
LEMMA Relabelled ==
    ASSUME NEW a \in Activations, NEW l
    PROVE  /\ [a EXCEPT !.at = l].at = l
           /\ [a EXCEPT !.at = l].on = a.on
           /\ l \in ClassLabels /\ a.at \in ClassLabels
                 /\ (l = "super_found" => Super[a.on] # Nil) => [a EXCEPT !.at = l] \in Activations
           /\ l \in EntryLabels /\ a.at \in EntryLabels => [a EXCEPT !.at = l] \in Activations
           /\ l \in InstrLabels /\ a.at \in InstrLabels => [a EXCEPT !.at = l] \in Activations
BY DEF Activations, ClassLabels, EntryLabels, InstrLabels

LEMMA Activated ==
    ASSUME NEW l, NEW x
    PROVE  /\ Activation(l, x).at = l /\ Activation(l, x).on = x
           /\ l \in ClassLabels \ {"super_found"} /\ x \in Classes => Activation(l, x) \in Activations
           /\ l \in EntryLabels /\ x \in Entries => Activation(l, x) \in Activations
           /\ l \in InstrLabels /\ x \in Instrs => Activation(l, x) \in Activations
<1>1. Activation(l, x).at = l /\ Activation(l, x).on = x
  BY DEF Activation
<1>2. ASSUME NEW A, NEW B, l \in A, x \in B
      PROVE  Activation(l, x) \in [at : A, on : B, next : Nat \ {0}]
  BY <1>2 DEF Activation
<1>3. l \in ClassLabels \ {"super_found"} /\ x \in Classes => Activation(l, x) \in Activations
  BY <1>2 DEF Activations
<1>4. l \in EntryLabels /\ x \in Entries => Activation(l, x) \in Activations
  BY <1>2 DEF Activations
<1>5. l \in InstrLabels /\ x \in Instrs => Activation(l, x) \in Activations
  BY <1>2 DEF Activations
<1> QED
  BY <1>1, <1>3, <1>4, <1>5

(* The stacks that steps make of a stack: with another activation on top,  *)
(* with one more, or with one less.                                        *)
LEMMA Stacks ==
    ASSUME NEW S, NEW s \in Seq(S), s # <<>>
    PROVE  /\ Head(s) = s[1] /\ s[1] \in S /\ Len(s) \in Nat \ {0}
           /\ \A k \in 1..Len(s) : s[k] \in S
           /\ Tail(s) \in Seq(S) /\ Len(Tail(s)) = Len(s) - 1
           /\ \A k \in 1..(Len(s) - 1) : Tail(s)[k] = s[k + 1]
           /\ \A a \in S : LET r == <<a>> \o Tail(s) IN
                 /\ r \in Seq(S) /\ Len(r) = Len(s) /\ r # <<>> /\ r[1] = a
                 /\ \A k \in 2..Len(s) : r[k] = s[k]
           /\ \A a, b \in S : LET r == <<b, a>> \o Tail(s) IN
                 /\ r \in Seq(S) /\ Len(r) = Len(s) + 1 /\ r # <<>>
                 /\ r[1] = b /\ r[2] = a
                 /\ \A k \in 3..(Len(s) + 1) : r[k] = s[k - 1]
OBVIOUS

-----------------------------------------------------------------------------
(* What no step undoes: an entry never becomes raw, nor a pointer an       *)
(* index, a byte code never slow, nor a rewritten operand an index.        *)
Mono ==
    /\ \A e \in Entries : (Raw(e)' => Raw(e)) /\ (Pointer(e) => Pointer(e)')
    /\ \A i \in Instrs : /\ Slow(i)' => Slow(i)
                         /\ Value(i, 1) => Value(i, 1)'
                         /\ Value(i, 2) => Value(i, 2)'

(* What a thread knows stays true while others take steps.                 *)
LEMMA TopStays ==
    ASSUME NEW t \in Threads, NEW a \in Activations, TopOK(t, a), Mono,
           index'[t] = index[t], operands'[t] = operands[t], exception[t] => exception'[t]
    PROVE  TopOK(t, a)'
<1>1. a.at \in EntryLabels => a.on \in Entries
  BY Subjects
<1>2. a.at \in InstrLabels => a.on \in Instrs /\ Ref[a.on] \in Entries
  BY Subjects
<1>3. CASE a.at \in EntryLabels
  BY <1>1, <1>3 DEF TopOK, Mono, EntryLabels
<1>4. CASE a.at \in InstrLabels
  BY <1>2, <1>4 DEF TopOK, Mono, InstrLabels, Done, ChangesOperands
<1>5. CASE a.at \notin EntryLabels \cup InstrLabels
  BY <1>5 DEF TopOK, EntryLabels, InstrLabels
<1> QED
  BY <1>3, <1>4, <1>5

LEMMA WaitsStays ==
    ASSUME NEW a, NEW b \in Activations, Waits(b, a), Mono
    PROVE  Waits(b, a)'
<1>1. b.at = "resolved" => Ref[b.on] \in Entries
  BY Subjects DEF InstrLabels
<1> QED
  BY <1>1 DEF Waits, Mono

LEMMA OthersStay ==
    ASSUME TypeOK, NEW u \in Threads, ThreadOK(u), Mono, stack'[u] = stack[u],
           index'[u] = index[u], operands'[u] = operands[u], exception'[u] = exception[u]
    PROVE  ThreadOK(u)'
<1>1. stack[u] \in Seq(Activations)
  BY DEF TypeOK, StacksTypeOK
<1>2. stack[u] # <<>> => stack[u][1] \in Activations /\ TopOK(u, stack[u][1])
  BY <1>1, Stacks DEF ThreadOK
<1>3. ASSUME NEW k \in 2..Len(stack[u])
      PROVE  stack[u][k] \in Activations /\ Waits(stack[u][k], stack[u][k - 1])
  BY <1>1 DEF ThreadOK
<1>4. ASSUME stack'[u] # <<>> PROVE TopOK(u, stack[u][1])'
  BY <1>2, <1>4, TopStays
<1>5. ASSUME NEW k \in 2..Len(stack[u]) PROVE Waits(stack[u][k], stack[u][k - 1])'
  BY <1>3, WaitsStays
<1> QED
  BY <1>4, <1>5 DEF ThreadOK

-----------------------------------------------------------------------------
(* Nothing is known of an activation at these labels.                      *)
Plain == ClassLabels \cup {"resolve", "read_index", "lookup", "dispatch", "operand_1", "use"}

LEMMA PlainTop ==
    ASSUME NEW t \in Threads, NEW a, a.at \in Plain
    PROVE  TopOK(t, a)'
BY DEF Plain, TopOK, ClassLabels

(* The thread that takes a step goes on with another activation ...        *)
LEMMA Replaced ==
    ASSUME TypeOK, NEW t \in Threads, ThreadOK(t), stack[t] # <<>>, Mono,
           NEW a \in Activations, stack'[t] = <<a>> \o Tail(stack[t]), TopOK(t, a)',
           stack[t][1].at \in EntryLabels => a.at \in EntryLabels /\ a.on = stack[t][1].on
    PROVE  ThreadOK(t)'
<1> DEFINE s == stack[t]
<1>1. s \in Seq(Activations)
  BY DEF TypeOK, StacksTypeOK
<1>2. /\ stack'[t][1] = a /\ Len(stack'[t]) = Len(s) /\ Len(s) \in Nat
      /\ \A k \in 2..Len(s) : stack'[t][k] = s[k]
  BY <1>1, Stacks
<1>3. ASSUME NEW k \in 2..Len(s)
      PROVE  s[k] \in Activations /\ Waits(s[k], s[k - 1])
  BY <1>1 DEF ThreadOK
<1>4. ASSUME NEW k \in 2..Len(s) PROVE Waits(stack[t][k], stack[t][k - 1])'
  <2>1. PICK x, y : y = s[k] /\ x = s[k - 1]
    OBVIOUS
  <2>2. Waits(y, x)'
    BY <1>3, <2>1, WaitsStays
  <2>3. CASE k = 2
    BY <1>2, <2>1, <2>2, <2>3 DEF Waits
  <2>4. CASE k # 2
    BY <1>2, <2>1, <2>2, <2>4 DEF Waits
  <2> QED
    BY <2>3, <2>4
<1> QED
  BY <1>2, <1>4 DEF ThreadOK

(* ... calls a function ...                                                *)
LEMMA Pushed ==
    ASSUME TypeOK, NEW t \in Threads, ThreadOK(t), stack[t] # <<>>, Mono,
           NEW a \in Activations, NEW b \in Activations,
           stack'[t] = <<b, a>> \o Tail(stack[t]), TopOK(t, b)', Waits(a, b)',
           stack[t][1].at \in EntryLabels =>
              (a.at \in EntryLabels /\ a.on = stack[t][1].on) \/ Pointer(stack[t][1].on)
    PROVE  ThreadOK(t)'
<1> DEFINE s == stack[t]
<1>1. s \in Seq(Activations)
  BY DEF TypeOK, StacksTypeOK
<1>2. /\ stack'[t][1] = b /\ stack'[t][2] = a /\ Len(stack'[t]) = Len(s) + 1 /\ Len(s) \in Nat
      /\ \A k \in 3..(Len(s) + 1) : stack'[t][k] = s[k - 1]
  BY <1>1, Stacks
<1>3. ASSUME NEW k \in 2..Len(s)
      PROVE  s[k] \in Activations /\ Waits(s[k], s[k - 1])
  BY <1>1 DEF ThreadOK
<1>4. ASSUME NEW k \in 2..(Len(s) + 1) PROVE Waits(stack[t][k], stack[t][k - 1])'
  <2>1. CASE k = 2
    BY <1>2, <2>1 DEF Waits
  <2>2. CASE k = 3
    <3>1. 2 \in 2..Len(s) /\ stack'[t][3] = s[2] /\ stack'[t][2] = a
      BY <1>2, <2>2
    <3>2. PICK x, y : y = s[2] /\ x = s[1]
      OBVIOUS
    <3>3. Waits(y, x) /\ y \in Activations
      BY <1>3, <3>1, <3>2
    <3>4. y.at = "resolved" => Ref[y.on] \in Entries
      BY <3>3, Subjects DEF InstrLabels
    <3>5. y.at \in CallLabels /\ stack'[t][k] = y /\ stack'[t][k - 1] = a
      BY <2>2, <3>1, <3>2, <3>3 DEF Waits
    <3>6. ASSUME y.at = "resolved"
          PROVE  Pointer(Ref[y.on])' \/ (a.at \in EntryLabels /\ a.on = Ref[y.on])
      BY <3>2, <3>3, <3>4, <3>6 DEF Waits, Mono
    <3> QED
      BY <3>5, <3>6 DEF Waits
  <2>3. CASE k > 3
    <3>1. k - 1 \in 2..Len(s) /\ stack'[t][k] = s[k - 1] /\ stack'[t][k - 1] = s[k - 2]
      BY <1>2, <2>3
    <3>2. PICK x, y : y = s[k - 1] /\ x = s[k - 2]
      OBVIOUS
    <3>3. Waits(y, x)'
      BY <1>3, <3>1, <3>2, WaitsStays
    <3> QED
      BY <3>1, <3>2, <3>3 DEF Waits
  <2> QED
    BY <2>1, <2>2, <2>3
<1> QED
  BY <1>2, <1>4 DEF ThreadOK

(* ... or returns.                                                         *)
LEMMA Popped ==
    ASSUME TypeOK, NEW t \in Threads, ThreadOK(t), stack[t] # <<>>, Mono,
           stack'[t] = Tail(stack[t]), exception[t] => exception'[t],
           stack[t][1].at \in EntryLabels => Pointer(stack[t][1].on) \/ exception'[t]
    PROVE  ThreadOK(t)'
<1> DEFINE s == stack[t]
<1>1. s \in Seq(Activations)
  BY DEF TypeOK, StacksTypeOK
<1>2. /\ Len(stack'[t]) = Len(s) - 1 /\ Len(s) \in Nat
      /\ \A k \in 1..(Len(s) - 1) : stack'[t][k] = s[k + 1]
      /\ stack'[t] # <<>> => Len(s) >= 2
  BY <1>1, Stacks
<1>3. ASSUME NEW k \in 2..Len(s)
      PROVE  s[k] \in Activations /\ Waits(s[k], s[k - 1])
  BY <1>1 DEF ThreadOK
<1>4. ASSUME stack'[t] # <<>> PROVE TopOK(t, stack[t][1])'
  <2>1. 2 \in 2..Len(s) /\ stack'[t][1] = s[2]
    BY <1>2, <1>4
  <2>2. PICK x, y : y = s[2] /\ x = s[1]
    OBVIOUS
  <2>3. Waits(y, x) /\ y \in Activations
    BY <1>3, <2>1, <2>2
  <2>4. y.at = "resolved" => Ref[y.on] \in Entries
    BY <2>3, Subjects DEF InstrLabels
  <2>5. ASSUME y.at = "resolved", ~exception'[t] PROVE Pointer(Ref[y.on])'
    BY <2>2, <2>3, <2>4, <2>5 DEF Waits, Mono
  <2>6. y.at \in CallLabels /\ stack'[t][1] = y
    BY <2>1, <2>2, <2>3 DEF Waits
  <2> QED
    BY <2>5, <2>6 DEF TopOK, CallLabels
<1>5. ASSUME NEW k \in 2..(Len(s) - 1) PROVE Waits(stack[t][k], stack[t][k - 1])'
  <2>1. k + 1 \in 2..Len(s) /\ stack'[t][k] = s[k + 1] /\ stack'[t][k - 1] = s[k]
    BY <1>2
  <2>2. PICK x, y : y = s[k + 1] /\ x = s[k]
    OBVIOUS
  <2>3. Waits(y, x)'
    BY <1>3, <2>1, <2>2, WaitsStays
  <2> QED
    BY <2>1, <2>2, <2>3 DEF Waits
<1> QED
  BY <1>2, <1>4, <1>5 DEF ThreadOK

(* Initialising the superclass is two calls at once.                       *)
LEMMA PushedTwo ==
    ASSUME TypeOK, NEW t \in Threads, ThreadOK(t), stack[t] # <<>>, Mono,
           NEW a \in Activations, NEW b \in Activations, NEW c \in Activations,
           stack'[t] = <<c, b>> \o (<<a>> \o Tail(stack[t])),
           c.at \in ClassLabels, {a.at, b.at} \subseteq CallLabels \ {"resolved"},
           stack[t][1].at \in ClassLabels
    PROVE  stack'[t] \in Seq(Activations) /\ ThreadOK(t)'
<1> DEFINE s == stack[t]
<1>1. s \in Seq(Activations)
  BY DEF TypeOK, StacksTypeOK
<1>2. /\ stack'[t][1] = c /\ stack'[t][2] = b /\ stack'[t][3] = a
      /\ Len(stack'[t]) = Len(s) + 2 /\ Len(s) \in Nat
      /\ \A k \in 4..(Len(s) + 2) : stack'[t][k] = s[k - 2]
      /\ stack'[t] \in Seq(Activations)
  BY <1>1
<1>3. ASSUME NEW k \in 2..Len(s)
      PROVE  s[k] \in Activations /\ Waits(s[k], s[k - 1])
  BY <1>1 DEF ThreadOK
<1>4. ASSUME NEW k \in 2..(Len(s) + 2) PROVE Waits(stack[t][k], stack[t][k - 1])'
  <2>1. CASE k \in {2, 3}
    BY <1>2, <2>1 DEF Waits
  <2>2. CASE k = 4
    <3>1. 2 \in 2..Len(s) /\ stack'[t][4] = s[2] /\ stack'[t][3] = a
      BY <1>2, <2>2
    <3>2. PICK x, y : y = s[2] /\ x = s[1]
      OBVIOUS
    <3> x.at \notin EntryLabels
      BY <3>2 DEF ClassLabels, EntryLabels
    <3>3. Waits(y, x) /\ y \in Activations
      BY <1>3, <3>1, <3>2
    <3>4. y.at = "resolved" => Ref[y.on] \in Entries
      BY <3>3, Subjects DEF InstrLabels
    <3>5. y.at \in CallLabels /\ (y.at = "resolved" => Pointer(Ref[y.on])')
      BY <3>3, <3>4 DEF Waits, Mono
    <3> QED
      BY <2>2, <3>1, <3>2, <3>5 DEF Waits
  <2>3. CASE k > 4
    <3>1. k - 2 \in 2..Len(s) /\ stack'[t][k] = s[k - 2] /\ stack'[t][k - 1] = s[k - 3]
      BY <1>2, <2>3
    <3>2. PICK x, y : y = s[k - 2] /\ x = s[k - 3]
      OBVIOUS
    <3>3. Waits(y, x)'
      BY <1>3, <3>1, <3>2, WaitsStays
    <3> QED
      BY <3>1, <3>2, <3>3 DEF Waits
  <2> QED
    BY <1>2, <2>1, <2>2, <2>3
<1>5. TopOK(t, c)'
  BY PlainTop DEF Plain
<1> QED
  BY <1>2, <1>4, <1>5 DEF ThreadOK

-----------------------------------------------------------------------------
(* The steps, by what they do to the stack of their thread.                *)
Replaces(t, a) == stack' = [stack EXCEPT ![t] = <<a>> \o Tail(@)]
Pushes(t, b, a) == stack' = [stack EXCEPT ![t] = <<b, a>> \o Tail(@)]

LEMMA Shapes ==
    ASSUME TypeOK, NEW t \in Threads, stack[t] # <<>>, NEW l, NEW b
    PROVE  /\ Top(t) = stack[t][1] /\ stack[t][1] \in Activations
           /\ Goto(t, l) => Replaces(t, [stack[t][1] EXCEPT !.at = l])
           /\ Become(t, b) => Replaces(t, b)
           /\ Call(t, b, l) => Pushes(t, b, [stack[t][1] EXCEPT !.at = l])
<1>1. stack[t] \in Seq(Activations) /\ t \in DOMAIN stack
  BY DEF TypeOK, StacksTypeOK
<1>2. Head(stack[t]) = stack[t][1] /\ stack[t][1] \in Activations
  BY <1>1, Stacks
<1> QED
  BY <1>1, <1>2 DEF Top, Goto, Become, Call, Replaces, Pushes

(* The other threads, when one takes a step.                               *)
LEMMA StepKeeps ==
    ASSUME IInv, NEW t \in Threads, TypeOK', EntriesOK', CodeOK', Mono, ThreadOK(t)',
           \A u \in Threads \ {t} : /\ stack'[u] = stack[u] /\ index'[u] = index[u]
                                    /\ operands'[u] = operands[u]
                                    /\ exception'[u] = exception[u]
    PROVE  IInv'
<1>1. ASSUME NEW u \in Threads, u # t PROVE ThreadOK(u)'
  BY <1>1, OthersStay DEF IInv
<1> QED
  BY <1>1 DEF IInv

(* Steps that touch neither constant pools nor byte code.                  *)
LEMMA UnsharedKeeps ==
    ASSUME IInv, UNCHANGED sharedVars
    PROVE  EntriesOK' /\ CodeOK' /\ Mono
BY DEF IInv, EntriesOK, CodeOK, Mono, sharedVars, Raw, Pointer, Slow, Value, Done

-----------------------------------------------------------------------------
(* Steps of ClassInit: they touch neither constant pools nor byte code,    *)
(* and an exception stays.                                                 *)
Aside(t) ==
    /\ UNCHANGED <<sharedVars, localVars>>
    /\ ClassesTypeOK' /\ LocalsTypeOK'
    /\ exception[t] => exception'[t]
    /\ \A u \in Threads \ {t} : exception'[u] = exception[u]
    /\ stack[t] # <<>>
    /\ stack[t][1].at \in ClassLabels

LEMMA AsideReplaces ==
    ASSUME IInv, NEW t \in Threads, Aside(t), NEW a \in Activations, a.at \in ClassLabels,
           Replaces(t, a)
    PROVE  IInv'
<1>1. stack[t] \in Seq(Activations) /\ stack \in [Threads -> Seq(Activations)]
  BY DEF IInv, TypeOK, StacksTypeOK
<1>2. /\ stack'[t] = <<a>> \o Tail(stack[t])
      /\ \A u \in Threads \ {t} : stack'[u] = stack[u]
  BY <1>1 DEF Replaces
<1>3. StacksTypeOK'
  BY <1>1, Stacks DEF Replaces, StacksTypeOK, Aside
<1>4. EntriesOK' /\ CodeOK' /\ Mono /\ TypeOK'
  BY <1>3, UnsharedKeeps DEF IInv, TypeOK, Aside, SharedTypeOK, sharedVars
<1>5. TopOK(t, a)' /\ stack[t][1].at \notin EntryLabels
  BY PlainTop DEF Plain, Aside, ClassLabels, EntryLabels
<1>6. ThreadOK(t)'
  BY <1>2, <1>4, <1>5, Replaced DEF IInv, Aside
<1> QED
  BY <1>2, <1>4, <1>6, StepKeeps DEF Aside, localVars

LEMMA AsidePushes ==
    ASSUME IInv, NEW t \in Threads, Aside(t), NEW a \in Activations, NEW b \in Activations,
           a.at \in CallLabels \ {"resolved"}, b.at \in Plain, Pushes(t, b, a)
    PROVE  IInv'
<1>1. stack[t] \in Seq(Activations) /\ stack \in [Threads -> Seq(Activations)]
  BY DEF IInv, TypeOK, StacksTypeOK
<1>2. /\ stack'[t] = <<b, a>> \o Tail(stack[t])
      /\ \A u \in Threads \ {t} : stack'[u] = stack[u]
  BY <1>1 DEF Pushes
<1>3. StacksTypeOK'
  BY <1>1, Stacks DEF Pushes, StacksTypeOK, Aside
<1>4. EntriesOK' /\ CodeOK' /\ Mono /\ TypeOK'
  BY <1>3, UnsharedKeeps DEF IInv, TypeOK, Aside, SharedTypeOK, sharedVars
<1>5. TopOK(t, b)' /\ stack[t][1].at \notin EntryLabels
  BY PlainTop DEF Plain, Aside, ClassLabels, EntryLabels
<1>6. Waits(a, b)'
  BY DEF Waits
<1>7. ThreadOK(t)'
  BY <1>2, <1>4, <1>5, <1>6, Pushed DEF IInv, Aside
<1> QED
  BY <1>2, <1>4, <1>7, StepKeeps DEF Aside, localVars

LEMMA AsideReturns ==
    ASSUME IInv, NEW t \in Threads, Aside(t), Return(t)
    PROVE  IInv'
<1>1. stack[t] \in Seq(Activations) /\ stack \in [Threads -> Seq(Activations)]
  BY DEF IInv, TypeOK, StacksTypeOK
<1>2. /\ stack'[t] = Tail(stack[t])
      /\ \A u \in Threads \ {t} : stack'[u] = stack[u]
  BY <1>1 DEF Return
<1>3. StacksTypeOK'
  BY <1>1, Stacks DEF Return, StacksTypeOK, Aside
<1>4. EntriesOK' /\ CodeOK' /\ Mono /\ TypeOK'
  BY <1>3, UnsharedKeeps DEF IInv, TypeOK, Aside, SharedTypeOK, sharedVars
<1>5. stack[t][1].at \notin EntryLabels
  BY DEF Aside, ClassLabels, EntryLabels
<1>6. ThreadOK(t)'
  BY <1>2, <1>4, <1>5, Popped DEF IInv, Aside
<1> QED
  BY <1>2, <1>4, <1>6, StepKeeps DEF Aside, localVars

(* The ends of the functions of class.c and the ways they go on.           *)
LEMMA AsideGoes ==
    ASSUME IInv, NEW t \in Threads, Aside(t), NEW l \in ClassLabels \ {"super_found"}, Goto(t, l)
    PROVE  IInv'
<1>1. Replaces(t, [stack[t][1] EXCEPT !.at = l]) /\ stack[t][1] \in Activations
  BY Shapes DEF IInv, Aside
<1>2. PICK a : a = [stack[t][1] EXCEPT !.at = l]
  OBVIOUS
<1>3. a \in Activations /\ a.at = l
  BY <1>1, <1>2, Relabelled DEF Aside
<1> QED
  BY <1>1, <1>2, <1>3, AsideReplaces

LEMMA AsideCalls ==
    ASSUME IInv, NEW t \in Threads, Aside(t), NEW l \in (CallLabels \ {"resolved"}) \cap ClassLabels,
           l = "super_found" => Super[stack[t][1].on] # Nil,
           NEW b \in Activations, b.at \in Plain, Call(t, b, l)
    PROVE  IInv'
<1>1. Pushes(t, b, [stack[t][1] EXCEPT !.at = l]) /\ stack[t][1] \in Activations
  BY Shapes DEF IInv, Aside
<1>2. PICK a : a = [stack[t][1] EXCEPT !.at = l]
  OBVIOUS
<1>3. a \in Activations /\ a.at = l
  BY <1>1, <1>2, Relabelled DEF Aside
<1> QED
  BY <1>1, <1>2, <1>3, AsidePushes

LEMMA AsideFound ==
    ASSUME IInv, NEW t \in Threads, Aside(t), Found(t)
    PROVE  IInv'
<1>1. CASE Return(t)
  BY <1>1, AsideReturns
<1>2. CASE Become(t, Activation("link", Top(t).on))
  <2>1. PICK b : b = Activation("link", Top(t).on)
    OBVIOUS
  <2>2. Replaces(t, b) /\ Top(t) = stack[t][1] /\ stack[t][1] \in Activations
    BY <1>2, <2>1, Shapes DEF IInv, Aside
  <2>3. "link" \in ClassLabels \ {"super_found"} /\ Top(t).on \in Classes
    BY <2>2, Subjects DEF Aside, ClassLabels
  <2>4. b \in Activations /\ b.at = "link"
    BY <2>1, <2>3, Activated
  <2> QED
    BY <2>2, <2>3, <2>4, AsideReplaces
<1> QED
  BY <1>1, <1>2 DEF Found

(* The class a thread is at.                                               *)
LEMMA ClassTop ==
    ASSUME IInv, NEW t \in Threads, NEW l \in ClassLabels, At(t, l)
    PROVE  /\ stack[t] # <<>> /\ Top(t) = stack[t][1] /\ stack[t][1] \in Activations
           /\ stack[t][1].at = l /\ Top(t).on \in Classes
BY Shapes, Subjects DEF IInv, At

LEMMA FindKeeps ==
    ASSUME IInv, NEW t \in Threads, UNCHANGED <<sharedVars, localVars>>,
           findHashedClass(t) \/ loadSystemClass(t) \/ addClassToHash(t) \/ setSuper(t)
    PROVE  IInv'
<1> DEFINE c == Top(t).on
<1>1. {"find", "parsed", "super_found"} \subseteq ClassLabels
  BY DEF ClassLabels
<1>2. /\ stack[t] # <<>> /\ stack[t][1].at \in ClassLabels
      /\ c \in Classes
  BY <1>1, ClassTop DEF findHashedClass, loadSystemClass, addClassToHash, setSuper
<1>3. ASSUME NEW d \in Classes
      PROVE  Activation("find", d) \in Activations /\ Activation("find", d).at \in Plain
  <2>1. "find" \in ClassLabels \ {"super_found"} /\ "find" \in Plain
    BY DEF ClassLabels, Plain
  <2> QED
    BY <2>1, Activated
<1>4. CASE findHashedClass(t)
  <2>1. Aside(t)
    BY <1>2, <1>4 DEF findHashedClass, Aside, IInv, TypeOK, ClassesTypeOK, LocalsTypeOK,
       classVars, localVars
  <2> QED
    BY <1>4, <2>1, AsideFound DEF findHashedClass
<1>5. CASE loadSystemClass(t)
  <2>1. Aside(t)
    BY <1>2, <1>5 DEF loadSystemClass, Throw, Aside, IInv, TypeOK, ClassesTypeOK, LocalsTypeOK,
       classVars, localVars
  <2>2. CASE Return(t)
    BY <2>1, <2>2, AsideReturns
  <2>3. CASE Interface[c] # Nil /\ Call(t, Activation("find", Interface[c]), "parsed")
    <3>1. Interface[c] \in Classes
      BY <1>2, <2>3, HierarchyAssumption
    <3> QED
      BY <1>1, <1>3, <2>1, <2>3, <3>1, AsideCalls DEF CallLabels
  <2>4. CASE Goto(t, "parsed")
    BY <1>1, <2>1, <2>4, AsideGoes
  <2> QED
    BY <1>5, <2>2, <2>3, <2>4 DEF loadSystemClass, defineClass
<1>6. CASE addClassToHash(t)
  <2>1. Aside(t)
    BY <1>2, <1>6 DEF addClassToHash, Aside, IInv, TypeOK, ClassesTypeOK, LocalsTypeOK,
       localVars, Flags
  <2>2. CASE Return(t)
    BY <2>1, <2>2, AsideReturns
  <2>3. CASE Found(t)
    BY <2>1, <2>3, AsideFound
  <2>4. CASE Super[c] # Nil /\ Call(t, Activation("find", Super[c]), "super_found")
    <3>1. Super[c] \in Classes /\ c = stack[t][1].on
      BY <1>2, <2>4, HierarchyAssumption, Shapes DEF IInv
    <3>2. PICK b : b = Activation("find", Super[c])
      OBVIOUS
    <3>3. b \in Activations /\ b.at \in Plain /\ Call(t, b, "super_found")
      BY <1>3, <2>4, <3>1, <3>2
    <3>4. "super_found" \in (CallLabels \ {"resolved"}) \cap ClassLabels
      BY DEF CallLabels, ClassLabels
    <3>5. Super[stack[t][1].on] # Nil
      BY <2>4, <3>1
    <3> QED
      BY <2>1, <3>3, <3>4, <3>5, AsideCalls
  <2> QED
    BY <1>6, <2>2, <2>3, <2>4 DEF addClassToHash
<1>7. CASE setSuper(t)
  <2>2. stack[t][1] \in Activations /\ Top(t) = stack[t][1] /\ stack[t][1].at = "super_found"
    BY <1>1, <1>7, ClassTop DEF setSuper
  <2> Super[c] # Nil
    BY <2>2, Subjects
  <2>1. Aside(t)
    BY <1>2, <1>7 DEF setSuper, Aside, IInv, TypeOK, ClassesTypeOK, LocalsTypeOK, localVars
  <2> QED
    BY <1>7, <2>1, AsideReturns, AsideFound DEF setSuper
<1> QED
  BY <1>4, <1>5, <1>6, <1>7

LEMMA LinkKeeps ==
    ASSUME IInv, NEW t \in Threads, UNCHANGED <<sharedVars, localVars>>,
           \/ linkClass(t) \/ prepareFields(t) \/ allocTable(t) \/ fillTable(t)
           \/ setLinked(t)
    PROVE  IInv'
<1> DEFINE c == Top(t).on
<1>1. /\ {"link", "prepare", "allocate_table", "fill_table", "linked"}
            \subseteq ClassLabels \ {"super_found"}
      /\ "prepare" \in (CallLabels \ {"resolved"}) \cap ClassLabels
      /\ "link" \in Plain
  BY DEF ClassLabels, CallLabels, Plain
<1>2. stack[t] # <<>> /\ stack[t][1].at \in ClassLabels /\ c \in Classes
  <2>1. PICK l \in ClassLabels : At(t, l)
    BY <1>1 DEF linkClass, prepareFields, allocTable, fillTable, setLinked
  <2> QED
    BY <2>1, ClassTop
<1>3. CASE linkClass(t)
  <2>1. Aside(t)
    BY <1>2, <1>3 DEF linkClass, Aside, IInv, TypeOK, ClassesTypeOK, LocalsTypeOK,
       classVars, localVars
  <2>2. CASE super[c] /\ Call(t, Activation("link", Super[c]), "prepare")
    <3>1. Super[c] \in Classes
      BY <1>2, <2>2, HierarchyAssumption DEF IInv, TypeOK, ClassesTypeOK
    <3>2. PICK b : b = Activation("link", Super[c])
      OBVIOUS
    <3>3. b \in Activations /\ b.at = "link" /\ Call(t, b, "prepare")
      BY <1>1, <2>2, <3>1, <3>2, Activated
    <3> QED
      BY <1>1, <2>1, <3>3, AsideCalls
  <2> QED
    BY <1>1, <1>3, <2>1, <2>2, AsideReturns, AsideGoes DEF linkClass
<1>4. CASE prepareFields(t)
  <2>1. (IF super[c] THEN table[Super[c]] # "none" ELSE Super[c] = Nil) \in BOOLEAN
    OBVIOUS
  <2>2. Aside(t)
    BY <1>2, <1>4, <2>1 DEF prepareFields, Aside, IInv, TypeOK, ClassesTypeOK, LocalsTypeOK,
       localVars
  <2> QED
    BY <1>1, <1>4, <2>2, AsideGoes DEF prepareFields
<1>5. CASE allocTable(t) \/ fillTable(t)
  <2>1. /\ \E result \in {"hollow", "short", "whole"} : table' = [table EXCEPT ![c] = result]
        /\ UNCHANGED <<flags, tid, super, static, ran, exception, inherits>>
        /\ Goto(t, "fill_table") \/ Goto(t, "linked")
    BY <1>5 DEF allocTable, fillTable
  <2>2. Aside(t)
    BY <1>2, <2>1 DEF Aside, IInv, TypeOK, ClassesTypeOK, LocalsTypeOK, localVars
  <2> QED
    BY <1>1, <2>1, <2>2, AsideGoes
<1>6. CASE setLinked(t)
  <2>1. Aside(t)
    BY <1>2, <1>6 DEF setLinked, Aside, IInv, TypeOK, ClassesTypeOK, LocalsTypeOK, localVars,
       Flags
  <2> QED
    BY <1>6, <2>1, AsideReturns DEF setLinked
<1> QED
  BY <1>3, <1>4, <1>5, <1>6

(* initClass: waiting for another thread, the superclass and <clinit>.     *)
LEMMA TestKeeps ==
    ASSUME IInv, NEW t \in Threads, UNCHANGED <<sharedVars, localVars>>,
           testState(t) \/ interruptWait(t) \/ superInitialised(t)
    PROVE  IInv'
<1> DEFINE c == Top(t).on
<1>1. {"lock", "woken", "waiting", "init_super", "super_initialised", "body", "failed"}
         \subseteq ClassLabels \ {"super_found"}
  BY DEF ClassLabels
<1>2. stack[t] # <<>> /\ stack[t][1].at \in ClassLabels /\ c \in Classes
  <2>1. PICK l \in ClassLabels : At(t, l)
    BY <1>1 DEF testState, interruptWait, superInitialised
  <2> QED
    BY <2>1, ClassTop
<1>3. CASE testState(t)
  <2>1. CASE UNCHANGED <<flags, tid>>
    <3>1. ClassesTypeOK'
      BY <1>3, <2>1 DEF testState, IInv, TypeOK, ClassesTypeOK
    <3>2. UNCHANGED exception \/ Throw(t)
      BY <1>3, <2>1 DEF testState
    <3>3. /\ LocalsTypeOK' /\ (exception[t] => exception'[t])
          /\ \A u \in Threads \ {t} : exception'[u] = exception[u]
      BY <1>3, <3>2 DEF testState, Throw, IInv, TypeOK, LocalsTypeOK, localVars
    <3>4. Aside(t)
      BY <1>2, <3>1, <3>3 DEF Aside
    <3> QED
      BY <1>1, <1>3, <3>4, AsideReturns, AsideGoes DEF testState
  <2>2. CASE /\ flags' = [flags EXCEPT ![c] = "INITING"] /\ tid' = [tid EXCEPT ![c] = t]
             /\ Goto(t, "init_super") /\ UNCHANGED exception
    <3>1. ClassesTypeOK'
      BY <1>2, <1>3, <2>2 DEF testState, IInv, TypeOK, ClassesTypeOK, Flags
    <3>2. Aside(t)
      BY <1>2, <1>3, <2>2, <3>1 DEF testState, Aside, IInv, TypeOK, LocalsTypeOK, localVars
    <3> QED
      BY <1>1, <2>2, <3>2, AsideGoes
  <2> QED
    BY <1>3, <2>1, <2>2 DEF testState
<1>4. CASE interruptWait(t)
  <2>1. Aside(t)
    BY <1>2, <1>4 DEF interruptWait, Throw, Aside, IInv, TypeOK, ClassesTypeOK, LocalsTypeOK,
       localVars, classVars
  <2> QED
    BY <1>1, <1>4, <2>1, AsideGoes DEF interruptWait
<1>5. CASE superInitialised(t)
  <2>1. UNCHANGED ran \/ ran' = [ran EXCEPT ![c] = @ + 1]
    BY <1>5 DEF superInitialised, executeStaticMethod
  <2>2. ClassesTypeOK'
    <3> ran \in [Classes -> Nat]
      BY DEF IInv, TypeOK, ClassesTypeOK
    <3>1. ran' \in [Classes -> Nat]
      BY <1>2, <2>1
    <3> QED
      BY <1>5, <3>1 DEF superInitialised, IInv, TypeOK, ClassesTypeOK
  <2>3. Aside(t)
    BY <1>2, <1>5, <2>2 DEF superInitialised, Aside, IInv, TypeOK, LocalsTypeOK, localVars
  <2> QED
    BY <1>1, <1>5, <2>3, AsideGoes DEF superInitialised, executeStaticMethod
<1> QED
  BY <1>3, <1>4, <1>5

LEMMA InitKeeps ==
    ASSUME IInv, NEW t \in Threads, UNCHANGED <<sharedVars, localVars>>,
           initSuper(t) \/ runBody(t)
    PROVE  IInv'
<1> DEFINE c == Top(t).on
<1>1. /\ {"link", "init_super", "body", "failed", "initialised"}
            \subseteq ClassLabels \ {"super_found"}
      /\ {"super_initialised", "lock"}
            \subseteq (ClassLabels \ {"super_found"}) \cap (CallLabels \ {"resolved"})
      /\ "body" \in CallLabels \ {"resolved"} /\ "dispatch" \in Plain /\ "dispatch" \in InstrLabels
  BY DEF ClassLabels, CallLabels, InstrLabels, Plain
<1>2. /\ stack[t] # <<>> /\ stack[t][1].at \in ClassLabels /\ c \in Classes
      /\ Top(t) = stack[t][1] /\ stack[t][1] \in Activations
  <2>1. PICK l \in ClassLabels : At(t, l)
    BY <1>1 DEF initSuper, runBody
  <2> QED
    BY <2>1, ClassTop
<1>3. CASE initSuper(t) /\ executeStaticMethod(t)
  <2>1. ran' \in [Classes -> Nat]
    BY <1>2, <1>3 DEF executeStaticMethod, IInv, TypeOK, ClassesTypeOK
  <2>2. Aside(t)
    BY <1>2, <1>3, <2>1 DEF initSuper, Aside, IInv, TypeOK, ClassesTypeOK, LocalsTypeOK,
       localVars
  <2> QED
    BY <1>1, <1>3, <2>2, AsideGoes DEF executeStaticMethod
<1>4. CASE initSuper(t) /\ super[c] /\ UNCHANGED ran
           /\ stack' = [stack EXCEPT ![t] =
                 InitClass(Super[c], <<[Head(@) EXCEPT !.at = "super_initialised"]>> \o Tail(@))]
  <2>1. Super[c] \in Classes
    BY <1>2, <1>4, HierarchyAssumption DEF IInv, TypeOK, ClassesTypeOK
  <2>2. PICK a : a = [stack[t][1] EXCEPT !.at = "super_initialised"]
    OBVIOUS
  <2>3. a \in Activations /\ a.at = "super_initialised"
    BY <1>1, <1>2, <2>2, Relabelled
  <2>4. PICK b, d : b = Activation("lock", Super[c]) /\ d = Activation("link", Super[c])
    OBVIOUS
  <2>5. b \in Activations /\ b.at = "lock" /\ d \in Activations /\ d.at = "link"
    BY <1>1, <2>1, <2>4, Activated
  <2>6. stack[t] \in Seq(Activations) /\ stack \in [Threads -> Seq(Activations)]
    BY DEF IInv, TypeOK, StacksTypeOK
  <2>7. Head(stack[t]) = stack[t][1]
    BY <1>2 DEF Top
  <2>8. /\ stack' = [stack EXCEPT ![t] = <<d, b>> \o (<<a>> \o Tail(stack[t]))]
        /\ stack'[t] = <<d, b>> \o (<<a>> \o Tail(stack[t]))
        /\ \A u \in Threads \ {t} : stack'[u] = stack[u]
    BY <1>4, <2>2, <2>4, <2>6, <2>7 DEF InitClass
  <2>9. Mono /\ EntriesOK' /\ CodeOK'
    BY UnsharedKeeps
  <2>10. stack'[t] \in Seq(Activations) /\ ThreadOK(t)'
    <3>1. d.at \in ClassLabels /\ {a.at, b.at} \subseteq CallLabels \ {"resolved"}
      BY <1>1, <2>3, <2>5
    <3>2. TypeOK /\ ThreadOK(t)
      BY DEF IInv
    <3> QED
      BY <1>2, <2>3, <2>5, <2>8, <2>9, <3>1, <3>2, PushedTwo
  <2>11. TypeOK'
    <3>1. StacksTypeOK'
      BY <2>6, <2>8, <2>10 DEF StacksTypeOK
    <3>2. ClassesTypeOK' /\ LocalsTypeOK' /\ SharedTypeOK'
      BY <1>4 DEF initSuper, IInv, TypeOK, ClassesTypeOK, LocalsTypeOK, SharedTypeOK,
         localVars, sharedVars
    <3> QED
      BY <3>1, <3>2 DEF TypeOK
  <2> QED
    BY <1>4, <2>8, <2>9, <2>10, <2>11, StepKeeps DEF initSuper, localVars
<1>5. CASE runBody(t)
  <2>1. CASE exception[t] /\ Goto(t, "failed") /\ UNCHANGED <<static, exception>>
    <3>1. Aside(t)
      BY <1>2, <1>5, <2>1 DEF runBody, Aside, IInv, TypeOK, ClassesTypeOK, LocalsTypeOK,
         localVars
    <3> QED
      BY <1>1, <2>1, <3>1, AsideGoes
  <2>2. CASE Throw(t) /\ Goto(t, "failed") /\ UNCHANGED static
    <3>1. Aside(t)
      BY <1>2, <1>5, <2>2 DEF runBody, Throw, Aside, IInv, TypeOK, ClassesTypeOK, LocalsTypeOK,
         localVars
    <3> QED
      BY <1>1, <2>2, <3>1, AsideGoes
  <2>3. CASE /\ static' = [static EXCEPT ![c] = "set"]
             /\ Goto(t, "initialised") /\ UNCHANGED exception
    <3>1. Aside(t)
      BY <1>2, <1>5, <2>3 DEF runBody, Aside, IInv, TypeOK, ClassesTypeOK, LocalsTypeOK,
         localVars
    <3> QED
      BY <1>1, <2>3, <3>1, AsideGoes
  <2>4. CASE /\ Top(t).next <= Len(Body[c])
             /\ stack' = [stack EXCEPT ![t] =
                   <<Activation("dispatch", Body[c][Top(t).next]),
                     [Top(t) EXCEPT !.next = @ + 1]>> \o Tail(@)]
             /\ UNCHANGED <<static, exception>>
    <3>1. Aside(t)
      BY <1>2, <1>5, <2>4 DEF runBody, Aside, IInv, TypeOK, ClassesTypeOK, LocalsTypeOK,
         localVars
    <3>2. PICK a, b, i : /\ a = [stack[t][1] EXCEPT !.next = @ + 1]
                         /\ i = Body[c][stack[t][1].next] /\ b = Activation("dispatch", i)
      OBVIOUS
    <3>3. stack[t][1].at = "body" /\ stack[t][1].next \in Nat \ {0}
      BY <1>2, <1>5, Subjects DEF runBody, At
    <3>4. a \in Activations /\ a.at = "body"
      <4>1. stack[t][1] \in [at : ClassLabels \ {"super_found"}, on : Classes, next : Nat \ {0}]
        BY <1>2, <3>3 DEF Activations, ClassLabels, EntryLabels, InstrLabels
      <4>2. a \in [at : ClassLabels \ {"super_found"}, on : Classes, next : Nat \ {0}]
        <5>1. PICK r : r = stack[t][1]
          OBVIOUS
        <5>2. r.next + 1 \in Nat \ {0}
          BY <3>3, <5>1
        <5>3. ASSUME NEW n \in Nat \ {0} PROVE
                 [r EXCEPT !.next = n] \in
                    [at : ClassLabels \ {"super_found"}, on : Classes, next : Nat \ {0}]
          BY <4>1, <5>1
        <5> QED
          BY <3>2, <5>1, <5>2, <5>3
      <4> QED
        BY <3>2, <3>3, <4>1, <4>2 DEF Activations
    <3>5. Body[c] \in Seq(Instrs)
      BY <1>2, CodeAssumption
    <3>6. i \in Instrs
      BY <1>2, <2>4, <3>2, <3>3, <3>5
    <3>7. b \in Activations /\ b.at = "dispatch"
      BY <1>1, <3>2, <3>6, Activated
    <3>8. Pushes(t, b, a)
      BY <1>2, <2>4, <3>2 DEF Pushes
    <3> QED
      BY <1>1, <3>1, <3>4, <3>7, <3>8, AsidePushes
  <2> QED
    BY <1>5, <2>1, <2>2, <2>3, <2>4 DEF runBody
<1> QED
  BY <1>3, <1>4, <1>5 DEF initSuper

(* The end of initClass, which wakes other threads too: none of them is    *)
(* the one that ends, as nobody calls a function and waits.                *)
LEMMA EndKeeps ==
    ASSUME IInv, NEW t \in Threads, UNCHANGED <<sharedVars, localVars>>, endInit(t)
    PROVE  IInv'
<1> DEFINE c == Top(t).on
           woken(u) == [stack[u][1] EXCEPT !.at = "woken"]
<1>1. /\ {"failed", "initialised"} \subseteq ClassLabels
      /\ {"waiting", "woken"} \subseteq ClassLabels \ {"super_found"}
      /\ "waiting" \notin CallLabels
  BY DEF ClassLabels, CallLabels
<1>2. /\ stack[t] # <<>> /\ stack[t][1].at \in ClassLabels /\ c \in Classes
      /\ stack[t][1].at \notin EntryLabels
  <2>1. PICK l \in ClassLabels : At(t, l)
    BY <1>1 DEF endInit
  <2> QED
    BY <2>1, ClassTop DEF ClassLabels, EntryLabels
<1>3. stack \in [Threads -> Seq(Activations)]
  BY DEF IInv, TypeOK, StacksTypeOK
<1>4. /\ stack' = WakeAll([stack EXCEPT ![t] = Tail(@)], c)
      /\ UNCHANGED <<tid, super, table, static, ran, exception, inherits>>
  BY DEF endInit
<1>5. stack'[t] = Tail(stack[t]) /\ stack'[t] \in Seq(Activations)
  <2>1. PICK r : r = Tail(stack[t])
    OBVIOUS
  <2>2. r \in Seq(Activations) /\ Len(r) = Len(stack[t]) - 1
        /\ (\A k \in 1..(Len(stack[t]) - 1) : r[k] = stack[t][k + 1]) /\ Len(stack[t]) \in Nat
    BY <1>2, <1>3, <2>1, Stacks
  <2>3. ASSUME r # <<>> PROVE Head(r).at # "waiting"
    <3>1. Head(r) = stack[t][2] /\ 2 \in 2..Len(stack[t])
      BY <2>2, <2>3
    <3>2. Waits(stack[t][2], stack[t][2 - 1])
      BY <3>1 DEF IInv, ThreadOK
    <3> QED
      BY <1>1, <3>1, <3>2 DEF Waits
  <2> QED
    BY <1>3, <1>4, <2>1, <2>2, <2>3 DEF WakeAll
<1>6. ASSUME NEW u \in Threads \ {t}
      PROVE  \/ stack'[u] = stack[u]
             \/ /\ stack[u] # <<>> /\ stack[u][1] \in Activations
                /\ stack[u][1].at = "waiting" /\ stack'[u] = <<woken(u)>> \o Tail(stack[u])
  <2>1. stack[u] # <<>> => Head(stack[u]) = stack[u][1] /\ stack[u][1] \in Activations
    BY <1>3, Stacks
  <2> QED
    BY <1>3, <1>4, <2>1 DEF WakeAll
<1>7. Mono /\ EntriesOK' /\ CodeOK'
  BY UnsharedKeeps
<1>8. ASSUME NEW u \in Threads \ {t}, stack'[u] # stack[u]
      PROVE  stack'[u] \in Seq(Activations) /\ ThreadOK(u)'
  <2>1. PICK a : a = woken(u)
    OBVIOUS
  <2>2. a \in Activations /\ a.at = "woken"
    BY <1>1, <1>6, <1>8, <2>1, Relabelled
  <2>3. TopOK(u, a)' /\ stack[u][1].at \notin EntryLabels
    BY <1>1, <1>6, <1>8, <2>2, PlainTop DEF Plain, EntryLabels
  <2>4. /\ stack[u] # <<>> /\ stack'[u] = <<a>> \o Tail(stack[u]) /\ stack[u] \in Seq(Activations)
    BY <1>3, <1>6, <1>8, <2>1
  <2>5. TypeOK /\ ThreadOK(u)
    BY DEF IInv
  <2> QED
    BY <1>7, <2>2, <2>3, <2>4, <2>5, Replaced, Stacks
<1>9. TypeOK'
  <2>1. StacksTypeOK'
    <3>1. stack' \in [Threads -> Seq(Activations)]
      <4>1. \A u \in Threads : stack'[u] \in Seq(Activations)
        BY <1>3, <1>5, <1>8
      <4>2. PICK g : g = [stack EXCEPT ![t] = Tail(@)]
        OBVIOUS
      <4>3. stack' = [u \in Threads |->
                         IF g[u] # <<>> /\ Head(g[u]).at = "waiting" /\ Head(g[u]).on = c
                         THEN <<[Head(g[u]) EXCEPT !.at = "woken"]>> \o Tail(g[u])
                         ELSE g[u]]
        <5>1. stack' = WakeAll(g, c)
          BY <1>4, <4>2
        <5> QED
          BY <5>1 DEF WakeAll
      <4> QED
        BY <4>1, <4>3
    <3> QED
      BY <3>1 DEF StacksTypeOK
  <2>2. \E f \in {"BAD", "INITED"} : flags' = [flags EXCEPT ![c] = f]
    BY DEF endInit
  <2>3. ClassesTypeOK'
    BY <1>2, <1>4, <2>2 DEF IInv, TypeOK, ClassesTypeOK, Flags
  <2>4. LocalsTypeOK' /\ SharedTypeOK'
    BY <1>4 DEF IInv, TypeOK, LocalsTypeOK, SharedTypeOK, localVars, sharedVars
  <2> QED
    BY <2>1, <2>3, <2>4 DEF TypeOK
<1>10. ASSUME NEW u \in Threads \ {t}, stack'[u] = stack[u] PROVE ThreadOK(u)'
  BY <1>4, <1>7, <1>10, OthersStay DEF IInv, localVars
<1>11. ThreadOK(t)'
  <2>1. TypeOK /\ ThreadOK(t)
    BY DEF IInv
  <2> QED
    BY <1>2, <1>4, <1>5, <1>7, <2>1, Popped
<1> QED
  BY <1>7, <1>8, <1>9, <1>10, <1>11 DEF IInv

LEMMA ClassStepKeeps ==
    ASSUME IInv, NEW t \in Threads, ClassStep(t) \/ interruptWait(t),
           UNCHANGED <<sharedVars, localVars>>
    PROVE  IInv'
BY FindKeeps, LinkKeeps, TestKeeps, InitKeeps, EndKeeps DEF ClassStep


-----------------------------------------------------------------------------
(* Steps of resolution and interpreter: the classes are left alone, and    *)
(* constant pools and byte code only go forward.                           *)
Inside(t) ==
    /\ UNCHANGED <<classVars, exception, inherits>>
    /\ SharedTypeOK' /\ LocalsTypeOK' /\ EntriesOK' /\ CodeOK' /\ Mono
    /\ \A u \in Threads \ {t} : index'[u] = index[u] /\ operands'[u] = operands[u]
    /\ stack[t] # <<>>

LEMMA ClassesStay ==
    ASSUME IInv, UNCHANGED classVars
    PROVE  ClassesTypeOK'
BY DEF IInv, TypeOK, ClassesTypeOK, classVars

LEMMA InsideReplaces ==
    ASSUME IInv, NEW t \in Threads, Inside(t), NEW a \in Activations, Replaces(t, a),
           TopOK(t, a)',
           stack[t][1].at \in EntryLabels => a.at \in EntryLabels /\ a.on = stack[t][1].on
    PROVE  IInv'
<1>1. stack[t] \in Seq(Activations) /\ stack \in [Threads -> Seq(Activations)]
  BY DEF IInv, TypeOK, StacksTypeOK
<1>2. /\ stack'[t] = <<a>> \o Tail(stack[t])
      /\ \A u \in Threads \ {t} : stack'[u] = stack[u]
  BY <1>1 DEF Replaces
<1>3. StacksTypeOK'
  BY <1>1, Stacks DEF Replaces, StacksTypeOK, Inside
<1>4. TypeOK' /\ EntriesOK' /\ CodeOK' /\ Mono
  BY <1>3, ClassesStay DEF TypeOK, Inside
<1>5. ThreadOK(t)'
  BY <1>2, <1>4, Replaced DEF IInv, Inside
<1> QED
  BY <1>2, <1>4, <1>5, StepKeeps DEF Inside

LEMMA InsidePushes ==
    ASSUME IInv, NEW t \in Threads, Inside(t), NEW a \in Activations, NEW b \in Activations,
           Pushes(t, b, a), TopOK(t, b)', Waits(a, b)',
           stack[t][1].at \in EntryLabels =>
              (a.at \in EntryLabels /\ a.on = stack[t][1].on) \/ Pointer(stack[t][1].on)
    PROVE  IInv'
<1>1. stack[t] \in Seq(Activations) /\ stack \in [Threads -> Seq(Activations)]
  BY DEF IInv, TypeOK, StacksTypeOK
<1>2. /\ stack'[t] = <<b, a>> \o Tail(stack[t])
      /\ \A u \in Threads \ {t} : stack'[u] = stack[u]
  BY <1>1 DEF Pushes
<1>3. StacksTypeOK'
  BY <1>1, Stacks DEF Pushes, StacksTypeOK, Inside
<1>4. TypeOK' /\ EntriesOK' /\ CodeOK' /\ Mono
  BY <1>3, ClassesStay DEF TypeOK, Inside
<1>5. ThreadOK(t)'
  BY <1>2, <1>4, Pushed DEF IInv, Inside
<1> QED
  BY <1>2, <1>4, <1>5, StepKeeps DEF Inside

LEMMA InsideReturns ==
    ASSUME IInv, NEW t \in Threads, Inside(t), Return(t),
           stack[t][1].at \in EntryLabels => Pointer(stack[t][1].on) \/ exception[t]
    PROVE  IInv'
<1>1. stack[t] \in Seq(Activations) /\ stack \in [Threads -> Seq(Activations)]
  BY DEF IInv, TypeOK, StacksTypeOK
<1>2. /\ stack'[t] = Tail(stack[t])
      /\ \A u \in Threads \ {t} : stack'[u] = stack[u]
  BY <1>1 DEF Return
<1>3. StacksTypeOK'
  BY <1>1, Stacks DEF Return, StacksTypeOK, Inside
<1>4. TypeOK' /\ EntriesOK' /\ CodeOK' /\ Mono
  BY <1>3, ClassesStay DEF TypeOK, Inside
<1>5. ThreadOK(t)'
  BY <1>2, <1>4, Popped DEF IInv, Inside
<1> QED
  BY <1>2, <1>4, <1>5, StepKeeps DEF Inside

(* Going to a label with the same kind of subject, and calling a           *)
(* resolution.                                                             *)
LEMMA InsideGoes ==
    ASSUME IInv, NEW t \in Threads, Inside(t), NEW l, Goto(t, l),
           \/ stack[t][1].at \in EntryLabels /\ l \in EntryLabels
           \/ stack[t][1].at \in InstrLabels /\ l \in InstrLabels,
           \A a \in Activations : a.at = l /\ a.on = Top(t).on => TopOK(t, a)'
    PROVE  IInv'
<1>1. /\ Replaces(t, [stack[t][1] EXCEPT !.at = l])
      /\ Top(t) = stack[t][1] /\ stack[t][1] \in Activations
  BY Shapes DEF IInv, Inside
<1>2. PICK a : a = [stack[t][1] EXCEPT !.at = l]
  OBVIOUS
<1>3. "super_found" \notin EntryLabels \cup InstrLabels /\ EntryLabels \cap InstrLabels = {}
  BY DEF EntryLabels, InstrLabels
<1>4. a \in Activations /\ a.at = l /\ a.on = stack[t][1].on
  BY <1>1, <1>2, Relabelled
<1>5. TopOK(t, a)'
  BY <1>1, <1>4
<1> QED
  BY <1>1, <1>2, <1>3, <1>4, <1>5, InsideReplaces

LEMMA PlainGoes ==
    ASSUME IInv, NEW t \in Threads, Inside(t), NEW l \in Plain, Goto(t, l),
           \/ stack[t][1].at \in EntryLabels /\ l \in EntryLabels
           \/ stack[t][1].at \in InstrLabels /\ l \in InstrLabels
    PROVE  IInv'
<1>1. ASSUME NEW a \in Activations, a.at = l PROVE TopOK(t, a)'
  BY <1>1, PlainTop
<1> QED
  BY <1>1, InsideGoes

LEMMA InsideCalls ==
    ASSUME IInv, NEW t \in Threads, Inside(t), NEW l \in CallLabels,
           NEW b \in Activations, b.at \in Plain, Call(t, b, l),
           \/ stack[t][1].at \in EntryLabels /\ l = "lookup"
           \/ /\ stack[t][1].at \in InstrLabels /\ l = "resolved"
              /\ b.at = "resolve" /\ b.on = Ref[Top(t).on]
    PROVE  IInv'
<1>1. /\ Pushes(t, b, [stack[t][1] EXCEPT !.at = l])
      /\ Top(t) = stack[t][1] /\ stack[t][1] \in Activations
  BY Shapes DEF IInv, Inside
<1>2. PICK a : a = [stack[t][1] EXCEPT !.at = l]
  OBVIOUS
<1>3. /\ "lookup" \in EntryLabels /\ "resolved" \in InstrLabels /\ "resolve" \in EntryLabels
      /\ EntryLabels \cap InstrLabels = {}
  BY DEF EntryLabels, InstrLabels
<1>4. a \in Activations /\ a.at = l /\ a.on = stack[t][1].on
  BY <1>1, <1>2, <1>3, Relabelled
<1>5. TopOK(t, b)' /\ Waits(a, b)'
  BY <1>1, <1>3, <1>4, PlainTop DEF Waits
<1> QED
  BY <1>1, <1>2, <1>3, <1>4, <1>5, InsidePushes

(* The entry or the instruction a thread is at.                            *)
LEMMA EntryTop ==
    ASSUME IInv, NEW t \in Threads, NEW l \in EntryLabels, At(t, l)
    PROVE  /\ stack[t] # <<>> /\ Top(t) = stack[t][1] /\ stack[t][1] \in Activations
           /\ stack[t][1].at = l /\ Top(t).on \in Entries /\ TopOK(t, Top(t))
BY Shapes, Subjects DEF IInv, At, ThreadOK

LEMMA InstrTop ==
    ASSUME IInv, NEW t \in Threads, NEW l \in InstrLabels, At(t, l)
    PROVE  /\ stack[t] # <<>> /\ Top(t) = stack[t][1] /\ stack[t][1] \in Activations
           /\ stack[t][1].at = l /\ Top(t).on \in Instrs /\ Ref[Top(t).on] \in Entries
           /\ l \notin EntryLabels /\ TopOK(t, Top(t)) /\ TopOK(t, stack[t][1])
<1>1. l \notin EntryLabels
  BY DEF InstrLabels, EntryLabels
<1> QED
  BY <1>1, Shapes, Subjects DEF IInv, At, ThreadOK

(* Steps that touch neither constant pools, byte code nor what has been    *)
(* read of them; and steps that leave the byte code alone.                 *)
LEMMA UnsharedInside ==
    ASSUME IInv, NEW t \in Threads, stack[t] # <<>>,
           UNCHANGED <<classVars, exception, inherits, sharedVars, localVars>>
    PROVE  Inside(t)
<1>1. EntriesOK' /\ CodeOK' /\ Mono
  BY UnsharedKeeps
<1>2. SharedTypeOK' /\ LocalsTypeOK'
  BY DEF IInv, TypeOK, SharedTypeOK, LocalsTypeOK, sharedVars, localVars
<1> QED
  BY <1>1, <1>2 DEF Inside, localVars

LEMMA EntryInside ==
    ASSUME IInv, NEW t \in Threads, stack[t] # <<>>,
           UNCHANGED <<classVars, exception, inherits, code, localVars>>,
           \A e \in Entries : (Raw(e)' => Raw(e)) /\ (Pointer(e) => Pointer(e)'),
           EntriesOK', cp' \in [Entries -> [type : {"raw", "locked", "resolved"},
                                            info : {"index", "pointer"}]]
    PROVE  Inside(t)
<1>1. \A i \in Instrs : Ref[i] \in Entries
  BY CodeAssumption DEF Entries
<1>2. Mono
  BY DEF Mono, Slow, Value
<1>3. CodeOK'
  BY <1>1, <1>2 DEF IInv, CodeOK, Mono, Slow, Value, Done
<1>4. SharedTypeOK' /\ LocalsTypeOK'
  BY DEF IInv, TypeOK, SharedTypeOK, LocalsTypeOK, localVars
<1> QED
  BY <1>2, <1>3, <1>4 DEF Inside, localVars

(* The end of a resolution that initialises the class.                     *)
LEMMA ResolutionEnds ==
    ASSUME IInv, NEW t \in Threads, Inside(t), NEW e \in Classes,
           stack[t][1].at \in EntryLabels, stack[t][1].on = e, Pointer(e),
           stack' = [stack EXCEPT ![t] = InitClass(e, Tail(@))]
    PROVE  IInv'
<1>1. "link" \in ClassLabels \ {"super_found"} /\ "link" \in Plain
      /\ "lock" \in ClassLabels \ {"super_found"} /\ "lock" \in CallLabels \ {"resolved"}
  BY DEF ClassLabels, Plain, CallLabels
<1>2. PICK a, b : a = Activation("lock", e) /\ b = Activation("link", e)
  OBVIOUS
<1>3. a \in Activations /\ a.at = "lock" /\ b \in Activations /\ b.at = "link"
  BY <1>1, <1>2, Activated
<1>4. Pushes(t, b, a)
  BY <1>2 DEF InitClass, Pushes
<1>5. TopOK(t, b)' /\ Waits(a, b)'
  BY <1>1, <1>3, PlainTop DEF Waits
<1> QED
  BY <1>3, <1>4, <1>5, InsidePushes

LEMMA ResolveKeeps ==
    ASSUME IInv, NEW t \in Threads, readType(t) \/ readIndex(t) \/ checkType(t)
    PROVE  IInv'
<1>0. PICK e : e = Top(t).on
  OBVIOUS
<1>1. /\ {"resolve", "read_index", "check_type", "lookup"} \subseteq EntryLabels
      /\ {"resolve", "read_index", "lookup", "find"} \subseteq Plain
      /\ "find" \in ClassLabels \ {"super_found"} /\ "lookup" \in CallLabels
  BY DEF EntryLabels, Plain, ClassLabels, CallLabels
<1>2. /\ stack[t] # <<>> /\ stack[t][1].at \in EntryLabels /\ e \in Entries
      /\ stack[t][1].on = e /\ TopOK(t, Top(t)) /\ (e \notin Classes => e \in Refs)
  <2>1. PICK l \in EntryLabels : At(t, l)
    BY <1>1 DEF readType, readIndex, checkType
  <2> QED
    BY <1>0, <2>1, EntryTop DEF Entries
<1>3. EntriesOK /\ SharedTypeOK /\ LocalsTypeOK
  BY DEF IInv, TypeOK
<1>4. CASE readType(t)
  <2>1. Inside(t)
    BY <1>2, <1>4, UnsharedInside DEF readType
  <2>2. CASE cp[e].type = "raw" /\ Goto(t, "read_index")
    BY <1>1, <1>2, <2>1, <2>2, PlainGoes
  <2>3. CASE cp[e].type = "resolved"
    <3>1. Pointer(e)
      BY <1>2, <1>3, <2>3 DEF EntriesOK
    <3> QED
      BY <1>0, <1>2, <1>4, <2>1, <2>3, <3>1, ResolutionEnds, InsideReturns DEF readType
  <2> QED
    BY <1>0, <1>4, <2>2, <2>3 DEF readType
<1>5. CASE readIndex(t)
  <2>1. UNCHANGED sharedVars /\ index' = [index EXCEPT ![t] = cp[e].info]
    BY <1>0, <1>5 DEF readIndex
  <2>2. EntriesOK' /\ CodeOK' /\ Mono
    BY <2>1, UnsharedKeeps
  <2>3. cp[e].info \in {"index", "pointer"}
    BY <1>2, <1>3 DEF SharedTypeOK
  <2>4. Inside(t)
    <3>1. SharedTypeOK'
      BY <1>3, <2>1 DEF SharedTypeOK, sharedVars
    <3>2. LocalsTypeOK'
      BY <1>3, <1>5, <2>1, <2>3 DEF readIndex, LocalsTypeOK
    <3> QED
      BY <1>2, <1>3, <1>5, <2>1, <2>2, <3>1, <3>2 DEF readIndex, Inside, LocalsTypeOK
  <2>5. Raw(e)' => index'[t] = "index"
    BY <1>2, <1>3, <2>1 DEF EntriesOK, Raw, LocalsTypeOK, sharedVars
  <2>6. \A a \in Activations : a.at = "check_type" /\ a.on = e => TopOK(t, a)'
    BY <2>5 DEF TopOK, Raw
  <2> QED
    <3>1. PICK l : l = "check_type"
      OBVIOUS
    <3>2. Goto(t, l) /\ stack[t][1].at \in EntryLabels /\ l \in EntryLabels
      BY <1>1, <1>2, <1>5, <3>1 DEF readIndex
    <3>3. \A a \in Activations : a.at = l /\ a.on = Top(t).on => TopOK(t, a)'
      BY <1>0, <2>6, <3>1
    <3> QED
      BY <2>4, <3>2, <3>3, InsideGoes
<1>6. CASE checkType(t)
  <2>1. Inside(t)
    BY <1>2, <1>6, UnsharedInside DEF checkType
  <2>2. CASE Goto(t, "resolve") \/ Goto(t, "lookup")
    BY <1>1, <1>2, <2>1, <2>2, PlainGoes
  <2>3. CASE e \in Classes /\ Call(t, Activation("find", e), "lookup")
    <3>1. PICK b : b = Activation("find", e)
      OBVIOUS
    <3>2. b \in Activations /\ b.at = "find" /\ Call(t, b, "lookup")
      BY <1>1, <2>3, <3>1, Activated
    <3> QED
      BY <1>1, <1>2, <2>1, <3>2, InsideCalls
  <2>4. CASE /\ e \notin Classes /\ ClassOf[e] # Nil
             /\ Call(t, Activation("resolve", ClassOf[e]), "lookup")
    <3>1. ClassOf[e] \in Entries
      BY <1>2, <2>4, CodeAssumption DEF Entries
    <3>2. PICK b : b = Activation("resolve", ClassOf[e])
      OBVIOUS
    <3>3. b \in Activations /\ b.at = "resolve" /\ Call(t, b, "lookup")
      BY <1>1, <2>4, <3>1, <3>2, Activated
    <3> QED
      BY <1>1, <1>2, <2>1, <3>3, InsideCalls
  <2> QED
    BY <1>0, <1>6, <2>2, <2>3, <2>4 DEF checkType
<1> QED
  BY <1>4, <1>5, <1>6

LEMMA SetKeeps ==
    ASSUME IInv, NEW t \in Threads, lookup(t) \/ setInfo(t) \/ setResolved(t)
    PROVE  IInv'
<1>0. PICK e : e = Top(t).on
  OBVIOUS
<1>1. {"lookup", "set_info", "set_resolved"} \subseteq EntryLabels
  BY DEF EntryLabels
<1>2. /\ stack[t] # <<>> /\ stack[t][1].at \in EntryLabels /\ e \in Entries
      /\ stack[t][1].on = e /\ stack[t][1].at = Top(t).at /\ TopOK(t, Top(t))
  <2>1. PICK l \in EntryLabels : At(t, l)
    BY <1>1 DEF lookup, setInfo, setResolved
  <2> QED
    BY <1>0, <2>1, EntryTop
<1>3. EntriesOK /\ cp \in [Entries -> [type : {"raw", "locked", "resolved"},
                                        info : {"index", "pointer"}]]
  BY DEF IInv, TypeOK, SharedTypeOK
<1>4. CASE lookup(t) /\ exception[t]
  <2>1. Inside(t)
    BY <1>2, <1>4, UnsharedInside DEF lookup, sharedVars
  <2> QED
    BY <1>4, <2>1, InsideReturns DEF lookup
<1>5. CASE lookup(t) /\ ~exception[t]
  <2>1. cp' = [cp EXCEPT ![e].type = "locked"] /\ Goto(t, "set_info")
    BY <1>0, <1>5 DEF lookup
  <2>2. /\ EntriesOK' /\ ~Raw(e)'
        /\ \A x \in Entries : (Raw(x)' => Raw(x)) /\ (Pointer(x) => Pointer(x)')
        /\ cp' \in [Entries -> [type : {"raw", "locked", "resolved"},
                                info : {"index", "pointer"}]]
    <3>1. /\ cp'[e].type = "locked" /\ \A x \in Entries : cp'[x].info = cp[x].info
          /\ \A x \in Entries \ {e} : cp'[x] = cp[x]
      BY <1>2, <1>3, <2>1
    <3>2. cp' \in [Entries -> [type : {"raw", "locked", "resolved"},
                              info : {"index", "pointer"}]]
      BY <1>2, <1>3, <2>1
    <3> QED
      BY <1>2, <1>3, <3>1, <3>2 DEF EntriesOK, Raw, Pointer
  <2>3. Inside(t)
    BY <1>2, <1>5, <2>2, EntryInside DEF lookup
  <2>4. PICK l : l = "set_info"
    OBVIOUS
  <2>5. \A a \in Activations : a.at = l /\ a.on = Top(t).on => TopOK(t, a)'
    BY <1>0, <2>2, <2>4 DEF TopOK
  <2>6. Goto(t, l) /\ stack[t][1].at \in EntryLabels /\ l \in EntryLabels
    BY <1>1, <1>2, <2>1, <2>4
  <2> QED
    BY <2>3, <2>5, <2>6, InsideGoes
<1>6. CASE setInfo(t)
  <2>1. cp' = [cp EXCEPT ![e].info = "pointer"] /\ Goto(t, "set_resolved")
    BY <1>0, <1>6 DEF setInfo
  <2>2. ~Raw(e)
    BY <1>0, <1>2, <1>6 DEF setInfo, At, TopOK
  <2>3. /\ EntriesOK' /\ ~Raw(e)' /\ Pointer(e)'
        /\ \A x \in Entries : (Raw(x)' => Raw(x)) /\ (Pointer(x) => Pointer(x)')
        /\ cp' \in [Entries -> [type : {"raw", "locked", "resolved"},
                                info : {"index", "pointer"}]]
    BY <1>2, <1>3, <2>1, <2>2 DEF EntriesOK, Raw, Pointer
  <2>4. Inside(t)
    BY <1>2, <1>6, <2>3, EntryInside DEF setInfo
  <2>5. PICK l : l = "set_resolved"
    OBVIOUS
  <2>6. \A a \in Activations : a.at = l /\ a.on = Top(t).on => TopOK(t, a)'
    BY <1>0, <2>3, <2>5 DEF TopOK
  <2>7. Goto(t, l) /\ stack[t][1].at \in EntryLabels /\ l \in EntryLabels
    BY <1>1, <1>2, <2>1, <2>5
  <2> QED
    BY <2>4, <2>6, <2>7, InsideGoes
<1>7. CASE setResolved(t)
  <2>1. cp' = [cp EXCEPT ![e].type = "resolved"]
    BY <1>0, <1>7 DEF setResolved
  <2>2. ~Raw(e) /\ Pointer(e)
    BY <1>0, <1>2, <1>7 DEF setResolved, At, TopOK
  <2>3. /\ EntriesOK'
        /\ \A x \in Entries : (Raw(x)' => Raw(x)) /\ (Pointer(x) => Pointer(x)')
        /\ cp' \in [Entries -> [type : {"raw", "locked", "resolved"},
                                info : {"index", "pointer"}]]
    BY <1>2, <1>3, <2>1, <2>2 DEF EntriesOK, Raw, Pointer
  <2>4. Inside(t)
    BY <1>2, <1>7, <2>3, EntryInside DEF setResolved
  <2> QED
    BY <1>0, <1>2, <1>7, <2>2, <2>4, ResolutionEnds, InsideReturns DEF setResolved
<1> QED
  BY <1>4, <1>5, <1>6, <1>7

-----------------------------------------------------------------------------
LEMMA CodeInside ==
    ASSUME IInv, NEW t \in Threads, stack[t] # <<>>,
           UNCHANGED <<classVars, exception, inherits, cp, localVars>>,
           \A i \in Instrs : /\ Slow(i)' => Slow(i)
                             /\ (Value(i, 1) => Value(i, 1)') /\ (Value(i, 2) => Value(i, 2)'),
           CodeOK', code' \in [Instrs -> [opcode : {"slow", "lock", "quick"},
                                          operands : [1..2 -> {"index", "value"}]]]
    PROVE  Inside(t)
<1>1. Mono /\ EntriesOK'
  BY DEF IInv, EntriesOK, Mono, Raw, Pointer
<1>2. SharedTypeOK' /\ LocalsTypeOK'
  BY DEF IInv, TypeOK, SharedTypeOK, LocalsTypeOK, localVars
<1> QED
  BY <1>1, <1>2 DEF Inside, localVars

(* The first instruction of a thread, after the one before was done.       *)
LEMMA NextKeeps ==
    ASSUME IInv, NEW t \in Threads, nextInstruction(t)
    PROVE  IInv'
<1>1. PICK i : i = Main[t][position[t]]
  OBVIOUS
<1>2. position[t] \in Nat \ {0} /\ Main[t] \in Seq(Instrs) /\ position[t] <= Len(Main[t])
  BY CodeAssumption DEF IInv, TypeOK, LocalsTypeOK, nextInstruction
<1>3. i \in Instrs
  BY <1>1, <1>2
<1>4. PICK a : a = Activation("dispatch", i)
  OBVIOUS
<1>5. "dispatch" \in InstrLabels /\ "dispatch" \in Plain
  BY DEF InstrLabels, Plain
<1>6. a \in Activations /\ a.at = "dispatch"
  BY <1>3, <1>4, <1>5, Activated
<1>7. stack \in [Threads -> Seq(Activations)] /\ stack' = [stack EXCEPT ![t] = <<a>>]
  BY <1>1, <1>4 DEF IInv, TypeOK, StacksTypeOK, nextInstruction
<1>8. stack'[t] = <<a>> /\ stack' \in [Threads -> Seq(Activations)]
  BY <1>6, <1>7
<1>9. EntriesOK' /\ CodeOK' /\ Mono /\ ClassesTypeOK'
  BY UnsharedKeeps, ClassesStay DEF nextInstruction
<1>10. SharedTypeOK' /\ LocalsTypeOK'
  BY <1>2 DEF nextInstruction, IInv, TypeOK, SharedTypeOK, LocalsTypeOK, sharedVars
<1>11. TypeOK'
  BY <1>8, <1>9, <1>10 DEF TypeOK, StacksTypeOK
<1>12. TopOK(t, a)'
  BY <1>5, <1>6, PlainTop
<1>13. ThreadOK(t)'
  BY <1>8, <1>12 DEF ThreadOK
<1> QED
  BY <1>7, <1>9, <1>11, <1>13, StepKeeps DEF nextInstruction, IInv, TypeOK, LocalsTypeOK

(* Rewriting and executing byte code.                                      *)
LEMMA DispatchKeeps ==
    ASSUME IInv, NEW t \in Threads, dispatch(t) \/ checkOpcode(t) \/ useQuick(t)
    PROVE  IInv'
<1>0. PICK i : i = Top(t).on
  OBVIOUS
<1>1. /\ {"dispatch", "operand_1", "check_opcode", "quick", "use"} \subseteq InstrLabels
      /\ {"dispatch", "operand_1", "resolve"} \subseteq Plain
      /\ "resolve" \in EntryLabels /\ "resolved" \in CallLabels
  BY DEF InstrLabels, EntryLabels, Plain, CallLabels
<1>2. /\ stack[t] # <<>> /\ stack[t][1].at \in InstrLabels /\ stack[t][1].at \notin EntryLabels
      /\ i \in Instrs /\ Ref[i] \in Entries
  <2>1. PICK l \in InstrLabels : At(t, l)
    BY <1>1 DEF dispatch, checkOpcode, useQuick
  <2> QED
    BY <1>0, <2>1, InstrTop
<1>3. Inside(t)
  BY <1>2, UnsharedInside DEF dispatch, checkOpcode, useQuick
<1>4. CASE Call(t, Activation("resolve", Ref[i]), "resolved")
  <2>1. PICK b : b = Activation("resolve", Ref[i])
    OBVIOUS
  <2>2. /\ b \in Activations /\ b.at = "resolve" /\ b.on = Ref[i]
        /\ Call(t, b, "resolved")
    BY <1>1, <1>2, <1>4, <2>1, Activated
  <2> QED
    BY <1>0, <1>1, <1>2, <1>3, <2>2, InsideCalls
<1>5. CASE dispatch(t)
  <2>1. CASE code[i].opcode = "quick" /\ Goto(t, "quick")
    <3>1. Done(i)'
      BY <1>2, <1>5, <2>1 DEF dispatch, IInv, CodeOK, Done, Value, Pointer, sharedVars
    <3>2. PICK l : l = "quick"
      OBVIOUS
    <3>3. \A a \in Activations : a.at = l /\ a.on = Top(t).on => TopOK(t, a)'
      BY <1>0, <3>1, <3>2 DEF TopOK
    <3>4. Goto(t, l) /\ l \in InstrLabels
      BY <1>1, <2>1, <3>2
    <3> QED
      BY <1>2, <1>3, <3>3, <3>4, InsideGoes
  <2>2. CASE Goto(t, "operand_1")
    BY <1>1, <1>2, <1>3, <2>2, PlainGoes
  <2> QED
    BY <1>0, <1>4, <1>5, <2>1, <2>2 DEF dispatch
<1>6. CASE checkOpcode(t)
  <2>1. CASE Goto(t, "dispatch")
    BY <1>1, <1>2, <1>3, <2>1, PlainGoes
  <2> QED
    BY <1>0, <1>4, <1>6, <2>1 DEF checkOpcode
<1>7. CASE useQuick(t)
  BY <1>2, <1>3, <1>7, InsideReturns DEF useQuick
<1> QED
  BY <1>5, <1>6, <1>7

LEMMA ReadKeeps ==
    ASSUME IInv, NEW t \in Threads, readOperand(t)
    PROVE  IInv'
<1>0. PICK i : i = Top(t).on
  OBVIOUS
<1>1. {"operand_1", "operand_2", "check_opcode"} \subseteq InstrLabels
  BY DEF InstrLabels
<1>2. /\ stack[t] # <<>> /\ stack[t][1].at \in InstrLabels /\ stack[t][1].at \notin EntryLabels
      /\ i \in Instrs /\ TopOK(t, Top(t))
  <2>1. PICK l \in InstrLabels : At(t, l)
    BY <1>1 DEF readOperand
  <2> QED
    BY <1>0, <2>1, InstrTop
<1>3. /\ code[i].operands \in [1..2 -> {"index", "value"}]
      /\ operands \in [Threads -> [1..2 -> {"none", "index", "value"}]]
      /\ Slow(i) => ~Value(i, 1) /\ ~Value(i, 2)
  BY <1>2 DEF IInv, TypeOK, SharedTypeOK, LocalsTypeOK, CodeOK
<1>4. PICK n \in 1..2, l \in {"operand_2", "check_opcode"} :
                           /\ operands' = [operands EXCEPT ![t][n] = code[i].operands[n]]
                           /\ Goto(t, l)
                           /\ \/ n = 1 /\ l = "operand_2"
                              \/ n = 2 /\ l = "check_opcode" /\ At(t, "operand_2")
  <2>1. 1 \in 1..2 /\ 2 \in 1..2
    OBVIOUS
  <2>2. CASE At(t, "operand_1")
    BY <1>0, <2>1, <2>2 DEF readOperand
  <2>3. CASE At(t, "operand_2")
    BY <1>0, <2>1, <2>3 DEF readOperand
  <2> QED
    BY <2>2, <2>3 DEF readOperand
<1>5. /\ operands' \in [Threads -> [1..2 -> {"none", "index", "value"}]]
      /\ operands'[t][n] = code[i].operands[n]
      /\ n = 2 => operands'[t][1] = operands[t][1]
      /\ \A u \in Threads \ {t} : operands'[u] = operands[u]
  <2>1. PICK f : f = operands[t]
    OBVIOUS
  <2>2. PICK g : g = [f EXCEPT ![n] = code[i].operands[n]]
    OBVIOUS
  <2>3. f \in [1..2 -> {"none", "index", "value"}] /\ 1 \in 1..2
    BY <1>3, <2>1
  <2>4. code[i].operands[n] \in {"index", "value"}
    BY <1>3
  <2>5. /\ g \in [1..2 -> {"none", "index", "value"}] /\ g[n] = code[i].operands[n]
        /\ n = 2 => g[1] = f[1]
    BY <2>2, <2>3, <2>4
  <2>6. operands' = [operands EXCEPT ![t] = g]
    BY <1>4, <2>1, <2>2
  <2> QED
    BY <1>3, <2>1, <2>5, <2>6
<1>6. UNCHANGED sharedVars
  BY DEF readOperand
<1>7. Inside(t)
  <2>1. EntriesOK' /\ CodeOK' /\ Mono
    BY <1>6, UnsharedKeeps
  <2>2. SharedTypeOK' /\ LocalsTypeOK'
    BY <1>5, <1>6 DEF readOperand, IInv, TypeOK, SharedTypeOK, LocalsTypeOK, sharedVars
  <2> QED
    BY <1>2, <1>5, <2>1, <2>2 DEF readOperand, Inside
<1>8. n = 2 => (Slow(i) => operands[t][1] = "index")
  <2> SUFFICES ASSUME n = 2 PROVE Slow(i) => operands[t][1] = "index"
    OBVIOUS
  <2>1. PICK a : a = stack[t][1] /\ a.at = "operand_2" /\ TopOK(t, a) /\ a.on = i
    <3>1. n # 1
      OBVIOUS
    <3>2. At(t, "operand_2")
      BY <1>4, <3>1
    <3>3. "operand_2" \in InstrLabels
      BY <1>1
    <3> QED
      BY <1>0, <3>2, <3>3, InstrTop
  <2> QED
    BY <2>1 DEF TopOK
<1>9. /\ Slow(i)' => operands'[t][n] = "index"
      /\ Slow(i)' /\ n = 2 => operands'[t][1] = "index"
  BY <1>3, <1>5, <1>6, <1>8 DEF Slow, Value, sharedVars
<1>10. \A a \in Activations : a.at = l /\ a.on = Top(t).on => TopOK(t, a)'
  BY <1>0, <1>4, <1>9 DEF TopOK
<1> QED
  BY <1>1, <1>2, <1>4, <1>7, <1>10, InsideGoes

LEMMA ResolvedKeeps ==
    ASSUME IInv, NEW t \in Threads, resolved(t)
    PROVE  IInv'
<1>0. PICK i : i = Top(t).on
  OBVIOUS
<1>1. /\ {"resolved", "use", "dispatch", "rewrite_1"} \subseteq InstrLabels
      /\ {"use", "dispatch"} \subseteq Plain
  BY DEF InstrLabels, Plain
<1>2. /\ stack[t] # <<>> /\ stack[t][1].at \in InstrLabels /\ stack[t][1].at \notin EntryLabels
      /\ i \in Instrs /\ TopOK(t, stack[t][1])
      /\ stack[t][1].at = "resolved" /\ stack[t][1].on = i
  <2>1. "resolved" \in InstrLabels /\ At(t, "resolved")
    BY <1>1 DEF resolved
  <2> QED
    BY <1>0, <2>1, InstrTop
<1>3. CodeOK /\ code \in [Instrs -> [opcode : {"slow", "lock", "quick"},
                                      operands : [1..2 -> {"index", "value"}]]]
  BY DEF IInv, TypeOK, SharedTypeOK
<1>4. ~exception[t] => Pointer(Ref[i])
  BY <1>2 DEF TopOK
<1>5. CASE UNCHANGED code /\ (Return(t) \/ Goto(t, "use"))
  <2>1. Inside(t)
    BY <1>2, <1>5, UnsharedInside DEF resolved, sharedVars
  <2> QED
    BY <1>1, <1>2, <1>5, <2>1, InsideReturns, PlainGoes
<1>6. CASE /\ ~exception[t] /\ Kind[i] \in {"static", "wide", "string"}
           /\ code' = [code EXCEPT ![i].opcode = "quick"]
           /\ Return(t) \/ Goto(t, "dispatch")
  <2>1. /\ code' \in [Instrs -> [opcode : {"slow", "lock", "quick"},
                                 operands : [1..2 -> {"index", "value"}]]]
        /\ code'[i].opcode = "quick"
        /\ \A j \in Instrs : code'[j].operands = code[j].operands
        /\ \A j \in Instrs \ {i} : code'[j] = code[j]
    BY <1>2, <1>3, <1>6
  <2>2. UNCHANGED cp
    BY DEF resolved
  <2>3. /\ CodeOK'
        /\ \A j \in Instrs : /\ Slow(j)' => Slow(j)
                             /\ (Value(j, 1) => Value(j, 1)') /\ (Value(j, 2) => Value(j, 2)')
    BY <1>3, <1>4, <1>6, <2>1, <2>2 DEF CodeOK, Slow, Value, Done, Pointer
  <2>4. Inside(t)
    BY <1>2, <2>1, <2>3, CodeInside DEF resolved
  <2> QED
    BY <1>1, <1>2, <1>6, <2>4, InsideReturns, PlainGoes
<1>7. CASE /\ ~exception[t] /\ ChangesOperands(i)
           /\ code' = [code EXCEPT ![i].opcode = "lock"]
           /\ Goto(t, "rewrite_1")
  <2>1. /\ code' \in [Instrs -> [opcode : {"slow", "lock", "quick"},
                                 operands : [1..2 -> {"index", "value"}]]]
        /\ code'[i].opcode = "lock"
        /\ \A j \in Instrs : code'[j].operands = code[j].operands
        /\ \A j \in Instrs \ {i} : code'[j] = code[j]
    BY <1>2, <1>3, <1>7
  <2>2. UNCHANGED cp
    BY DEF resolved
  <2>3. /\ CodeOK'
        /\ \A j \in Instrs : /\ Slow(j)' => Slow(j)
                             /\ (Value(j, 1) => Value(j, 1)') /\ (Value(j, 2) => Value(j, 2)')
    <3>1. \A j \in Instrs : /\ Slow(j)' => Slow(j)
                             /\ (Value(j, 1) => Value(j, 1)') /\ (Value(j, 2) => Value(j, 2)')
                             /\ (Value(j, 1)' => Value(j, 1)) /\ (Value(j, 2)' => Value(j, 2))
      BY <1>3, <2>1 DEF Slow, Value
    <3>2. ASSUME NEW j \in Instrs PROVE code'[j].opcode = "quick" => code[j].opcode = "quick"
      BY <2>1
    <3>3. \A j \in Instrs : Done(j) => Done(j)'
      BY <2>1, <2>2 DEF Done, Pointer, Value
    <3> QED
      BY <1>3, <2>1, <3>2, <3>3 DEF CodeOK, Slow, Value
  <2>4. Inside(t)
    BY <1>2, <2>1, <2>3, CodeInside DEF resolved
  <2>5. ~Slow(i)' /\ Pointer(Ref[i])'
    BY <1>4, <1>7, <2>1, <2>2 DEF Slow, Pointer
  <2>6. PICK l : l = "rewrite_1"
    OBVIOUS
  <2>7. \A a \in Activations : a.at = l /\ a.on = Top(t).on => TopOK(t, a)'
    BY <1>0, <1>7, <2>5, <2>6 DEF TopOK, ChangesOperands
  <2>8. Goto(t, l) /\ l \in InstrLabels
    BY <1>1, <1>7, <2>6
  <2> QED
    BY <1>2, <2>4, <2>7, <2>8, InsideGoes
<1> QED
  BY <1>0, <1>5, <1>6, <1>7 DEF resolved

LEMMA RewriteOperandKeeps ==
    ASSUME IInv, NEW t \in Threads, rewriteOperand(t)
    PROVE  IInv'
<1>0. PICK i : i = Top(t).on
  OBVIOUS
<1>1. {"rewrite_1", "rewrite_2", "rewrite_opcode"} \subseteq InstrLabels
  BY DEF InstrLabels
<1>2. PICK n \in 1..2, l \in InstrLabels, m \in InstrLabels :
         /\ At(t, m) /\ Goto(t, l) /\ code' = [code EXCEPT ![i].operands[n] = "value"]
         /\ \/ n = 1 /\ m = "rewrite_1" /\ Kind[i] = "virtual" /\ l = "rewrite_2"
            \/ n = 1 /\ m = "rewrite_1" /\ Kind[i] # "virtual" /\ l = "rewrite_opcode"
            \/ n = 2 /\ m = "rewrite_2" /\ l = "rewrite_opcode"
  <2>1. /\ 1 \in 1..2 /\ 2 \in 1..2
        /\ {"rewrite_1", "rewrite_2", "rewrite_opcode"} \subseteq InstrLabels
    BY <1>1
  <2>2. CASE At(t, "rewrite_1") /\ Kind[i] = "virtual"
    <3> QED
      BY <1>0, <2>1, <2>2 DEF rewriteOperand, At
  <2>3. CASE At(t, "rewrite_1") /\ Kind[i] # "virtual"
    BY <1>0, <2>1, <2>3 DEF rewriteOperand, At
  <2>4. CASE At(t, "rewrite_2")
    BY <1>0, <2>1, <2>4 DEF rewriteOperand, At
  <2> QED
    BY <2>2, <2>3, <2>4 DEF rewriteOperand
<1>3. m \in InstrLabels /\ l \in InstrLabels /\ m \in {"rewrite_1", "rewrite_2"}
  BY <1>1, <1>2
<1>4. /\ stack[t] # <<>> /\ stack[t][1].at = m /\ stack[t][1].at \notin EntryLabels
      /\ i \in Instrs /\ TopOK(t, stack[t][1]) /\ stack[t][1].on = i
  BY <1>0, <1>2, <1>3, InstrTop
<1>5. /\ ~Slow(i) /\ Pointer(Ref[i]) /\ (m = "rewrite_1" => ChangesOperands(i))
      /\ m = "rewrite_2" => Kind[i] = "virtual" /\ Value(i, 1)
  BY <1>3, <1>4 DEF TopOK
<1>6. CodeOK /\ code \in [Instrs -> [opcode : {"slow", "lock", "quick"},
                                      operands : [1..2 -> {"index", "value"}]]]
  BY DEF IInv, TypeOK, SharedTypeOK
<1>7. UNCHANGED cp
  BY DEF rewriteOperand
<1>8. /\ code' \in [Instrs -> [opcode : {"slow", "lock", "quick"},
                               operands : [1..2 -> {"index", "value"}]]]
      /\ \A j \in Instrs : code'[j].opcode = code[j].opcode
      /\ \A j \in Instrs \ {i} : code'[j] = code[j]
      /\ code'[i].operands[n] = "value"
      /\ \A k \in 1..2 : k # n => code'[i].operands[k] = code[i].operands[k]
  <2>1. PICK r, f : r = code[i] /\ f = code[i].operands
    OBVIOUS
  <2>2. PICK g : g = [f EXCEPT ![n] = "value"]
    OBVIOUS
  <2>3. f \in [1..2 -> {"index", "value"}]
    BY <1>4, <1>6, <2>1
  <2>4. /\ g \in [1..2 -> {"index", "value"}] /\ g[n] = "value"
        /\ \A k \in 1..2 : k # n => g[k] = f[k]
    BY <2>2, <2>3
  <2>5. PICK q : q = [r EXCEPT !.operands = g]
    OBVIOUS
  <2>6. /\ q \in [opcode : {"slow", "lock", "quick"}, operands : [1..2 -> {"index", "value"}]]
        /\ q.opcode = r.opcode /\ q.operands = g
    BY <1>4, <1>6, <2>1, <2>4, <2>5
  <2>7. code' = [code EXCEPT ![i] = q]
    BY <1>2, <2>1, <2>2, <2>5
  <2> QED
    BY <1>4, <1>6, <2>1, <2>4, <2>6, <2>7
<1>9. \A j \in Instrs : /\ Slow(j)' <=> Slow(j)
                        /\ (Value(j, 1) => Value(j, 1)') /\ (Value(j, 2) => Value(j, 2)')
  BY <1>4, <1>8 DEF Slow, Value
<1>10. \A j \in Instrs : Done(j) => Done(j)'
  BY <1>4, <1>7, <1>8 DEF Done, Pointer, Value
<1>11. CodeOK'
  <2>1. ASSUME NEW j \in Instrs, code'[j].opcode = "quick" PROVE Done(j)'
    BY <1>6, <1>8, <1>10, <2>1 DEF CodeOK
  <2>2. ASSUME NEW j \in Instrs, Slow(j)' PROVE ~Value(j, 1)' /\ ~Value(j, 2)'
    BY <1>5, <1>6, <1>8, <2>2 DEF CodeOK, Slow, Value
  <2> QED
    BY <2>1, <2>2 DEF CodeOK
<1>12. Inside(t)
  BY <1>4, <1>8, <1>9, <1>11, CodeInside DEF rewriteOperand
<1>13. /\ ~Slow(i)' /\ Pointer(Ref[i])'
       /\ l = "rewrite_2" => Kind[i] = "virtual" /\ Value(i, 1)'
       /\ l = "rewrite_opcode" => Done(i)'
  <2>1. ~Slow(i)' /\ Pointer(Ref[i])'
    BY <1>4, <1>5, <1>7, <1>9 DEF Pointer
  <2>2. CASE n = 1
    BY <1>2, <1>5, <1>8, <2>1, <2>2 DEF Done, Value, ChangesOperands
  <2>3. CASE n = 2
    <3>1. m = "rewrite_2" /\ l = "rewrite_opcode"
      <4>1. n # 1
        BY <2>3
      <4> QED
        BY <1>2, <4>1
    <3>2. Kind[i] = "virtual" /\ Value(i, 1)
      BY <1>5, <3>1
    <3>3. Value(i, 1)' /\ Value(i, 2)'
      BY <1>4, <1>8, <1>9, <2>3, <3>2 DEF Value
    <3>4. Done(i)'
      BY <2>1, <3>2, <3>3 DEF Done
    <3> QED
      BY <2>1, <3>1, <3>4
  <2>4. n = 1 \/ n = 2
    OBVIOUS
  <2> QED
    BY <2>2, <2>3, <2>4
<1>14. \A a \in Activations : a.at = l /\ a.on = Top(t).on => TopOK(t, a)'
  BY <1>0, <1>2, <1>13 DEF TopOK
<1> QED
  BY <1>2, <1>3, <1>4, <1>12, <1>14, InsideGoes

LEMMA RewriteOpcodeKeeps ==
    ASSUME IInv, NEW t \in Threads, rewriteOpcode(t)
    PROVE  IInv'
<1>0. PICK i : i = Top(t).on
  OBVIOUS
<1>1. {"rewrite_opcode", "dispatch"} \subseteq InstrLabels /\ "dispatch" \in Plain
  BY DEF InstrLabels, Plain
<1>2. /\ stack[t] # <<>> /\ stack[t][1].at = "rewrite_opcode"
      /\ i \in Instrs /\ TopOK(t, stack[t][1]) /\ stack[t][1].on = i
  <2>1. "rewrite_opcode" \in InstrLabels /\ At(t, "rewrite_opcode")
    BY <1>1 DEF rewriteOpcode
  <2> QED
    BY <1>0, <2>1, InstrTop
<1>3. Done(i)
  BY <1>2 DEF TopOK
<1>4. CodeOK /\ code \in [Instrs -> [opcode : {"slow", "lock", "quick"},
                                      operands : [1..2 -> {"index", "value"}]]]
  BY DEF IInv, TypeOK, SharedTypeOK
<1>5. code' = [code EXCEPT ![i].opcode = "quick"] /\ UNCHANGED cp
  BY <1>0 DEF rewriteOpcode
<1>6. /\ code' \in [Instrs -> [opcode : {"slow", "lock", "quick"},
                               operands : [1..2 -> {"index", "value"}]]]
      /\ code'[i].opcode = "quick"
      /\ \A j \in Instrs : code'[j].operands = code[j].operands
      /\ \A j \in Instrs \ {i} : code'[j] = code[j]
  BY <1>2, <1>4, <1>5
<1>7. /\ \A j \in Instrs : /\ Slow(j)' => Slow(j)
                           /\ (Value(j, 1) => Value(j, 1)') /\ (Value(j, 2) => Value(j, 2)')
      /\ \A j \in Instrs : Done(j) => Done(j)'
  BY <1>5, <1>6 DEF Slow, Value, Done, Pointer
<1>8. CodeOK'
  BY <1>3, <1>4, <1>6, <1>7 DEF CodeOK, Slow, Value
<1>9. Inside(t)
  BY <1>2, <1>6, <1>7, <1>8, CodeInside DEF rewriteOpcode
<1> QED
  BY <1>1, <1>2, <1>9, PlainGoes DEF rewriteOpcode

-----------------------------------------------------------------------------
LEMMA InitInvariant == Init => IInv
<1> SUFFICES ASSUME Init PROVE IInv
  OBVIOUS
<1>1. ClassesTypeOK
  BY HierarchyAssumption DEF Init, InitClasses, ClassesTypeOK, Flags
<1>2. StacksTypeOK
  BY DEF Init, InitClasses, StacksTypeOK
<1>3. SharedTypeOK /\ EntriesOK /\ CodeOK
  BY DEF Init, SharedTypeOK, EntriesOK, CodeOK, Raw, Pointer, Slow, Value
<1>4. LocalsTypeOK
  BY DEF Init, InitClasses, LocalsTypeOK
<1>5. \A t \in Threads : ThreadOK(t)
  <2>1. \A t \in Threads : stack[t] = <<>>
    BY DEF Init, InitClasses
  <2>2. Len(<<>>) = 0 /\ 2..0 = {}
    OBVIOUS
  <2> QED
    BY <2>1, <2>2 DEF ThreadOK
<1> QED
  BY <1>1, <1>2, <1>3, <1>4, <1>5 DEF IInv, TypeOK

LEMMA StutterKeeps ==
    ASSUME IInv, UNCHANGED vars
    PROVE  IInv'
<1>1. EntriesOK' /\ CodeOK' /\ Mono
  BY UnsharedKeeps DEF vars
<1>2. TypeOK'
  BY DEF vars, classVars, threadVars, sharedVars, localVars, IInv, TypeOK, ClassesTypeOK,
     StacksTypeOK, SharedTypeOK, LocalsTypeOK
<1>3. \A t \in Threads : ThreadOK(t)'
  BY <1>1, OthersStay DEF vars, threadVars, localVars, IInv
<1> QED
  BY <1>1, <1>2, <1>3 DEF IInv

LEMMA NextInvariant == IInv /\ [Next]_vars => IInv'
<1> SUFFICES ASSUME IInv, [Next]_vars PROVE IInv'
  OBVIOUS
<1>1. CASE UNCHANGED vars
  BY <1>1, StutterKeeps
<1>2. ASSUME NEW t \in Threads, ThreadStep(t) PROVE IInv'
  <2>1. CASE ClassStep(t) /\ UNCHANGED <<sharedVars, localVars>>
    BY <2>1, ClassStepKeeps
  <2>2. CASE readType(t) \/ readIndex(t) \/ checkType(t)
    BY <2>2, ResolveKeeps
  <2>3. CASE lookup(t) \/ setInfo(t) \/ setResolved(t)
    BY <2>3, SetKeeps
  <2>4. CASE nextInstruction(t)
    BY <2>4, NextKeeps
  <2>5. CASE dispatch(t) \/ checkOpcode(t) \/ useQuick(t)
    BY <2>5, DispatchKeeps
  <2>6. CASE readOperand(t)
    BY <2>6, ReadKeeps
  <2>7. CASE resolved(t)
    BY <2>7, ResolvedKeeps
  <2>8. CASE rewriteOperand(t)
    BY <2>8, RewriteOperandKeeps
  <2>9. CASE rewriteOpcode(t)
    BY <2>9, RewriteOpcodeKeeps
  <2> QED
    BY <1>2, <2>1, <2>2, <2>3, <2>4, <2>5, <2>6, <2>7, <2>8, <2>9 DEF ThreadStep
<1>3. ASSUME NEW t \in Threads, interrupted(t) PROVE IInv'
  BY <1>3, ClassStepKeeps DEF interrupted
<1> QED
  BY <1>1, <1>2, <1>3 DEF Next

LEMMA Invariance == Spec => []IInv
BY InitInvariant, NextInvariant, PTL DEF Spec

(* In every state the variables have their types, and a class that is      *)
(* being initialised names the thread that does (cb->initing_tid in        *)
(* initClass).                                                             *)
THEOREM TypeCorrect == Spec => []TypeOK
<1>1. IInv => TypeOK
  BY DEF IInv
<1> QED
  BY <1>1, Invariance, PTL

(* Who executes a quick byte code finds its operands rewritten and its     *)
(* constant pool entry resolved: threads rewrite shared byte code without  *)
(* a lock, but in an order that suffices (OPCODE_REWRITE_OPERAND1 and 2).  *)
THEOREM QuickComplete == Spec => []QuickIsComplete
<1>1. ASSUME IInv PROVE QuickIsComplete
  <2>1. ASSUME NEW t \in Threads, At(t, "quick") PROVE Done(Top(t).on)
    <3>1. "quick" \in InstrLabels
      BY DEF InstrLabels
    <3>2. PICK a : a = Top(t) /\ TopOK(t, a) /\ a.at = "quick"
      BY <1>1, <2>1, <3>1, InstrTop
    <3> QED
      BY <3>2 DEF TopOK
  <2>2. ASSUME NEW t \in Threads, At(t, "quick")
        PROVE LET i == Top(t).on IN
              /\ Kind[i] = "field" => code[i].operands[1] = "value"
              /\ Kind[i] = "virtual" => \A n \in 1..2 : code[i].operands[n] = "value"
              /\ cp[Ref[i]].info = "pointer"
    <3>1. PICK i : i = Top(t).on
      OBVIOUS
    <3>2. Done(i)
      BY <2>1, <2>2, <3>1
    <3>3. \A n \in 1..2 : n = 1 \/ n = 2
      OBVIOUS
    <3> QED
      BY <3>1, <3>2, <3>3 DEF Done, Value, Pointer
  <2> QED
    BY <2>2 DEF QuickIsComplete
<1> QED
  BY <1>1, Invariance, PTL

-----------------------------------------------------------------------------
(* Who else takes a step does not touch the stack of a thread that does    *)
(* not wait.                                                               *)
LEMMA StepsOfOthers ==
    ASSUME IInv, NEW u \in Threads, ThreadStep(u) \/ interrupted(u),
           NEW t \in Threads \ {u}, stack[t] # <<>>, stack[t][1].at # "waiting"
    PROVE  stack'[t] = stack[t]
<1>1. stack \in [Threads -> Seq(Activations)] /\ Head(stack[t]) = stack[t][1]
  BY Stacks DEF IInv, TypeOK, StacksTypeOK
<1>2. CASE endInit(u)
  BY <1>1, <1>2 DEF endInit, WakeAll
<1>3. CASE \/ findHashedClass(u) \/ loadSystemClass(u) \/ addClassToHash(u) \/ setSuper(u)
  BY <1>1, <1>3 DEF findHashedClass, loadSystemClass, defineClass, addClassToHash, setSuper,
     Found, Goto, Call, Become, Return
<1>4. CASE \/ linkClass(u) \/ prepareFields(u) \/ allocTable(u) \/ fillTable(u) \/ setLinked(u)
  BY <1>1, <1>4 DEF linkClass, prepareFields, allocTable, fillTable, setLinked,
     Goto, Call, Return
<1>5. CASE testState(u) \/ initSuper(u) \/ superInitialised(u) \/ runBody(u) \/ interrupted(u)
  BY <1>1, <1>5 DEF testState, initSuper, superInitialised, runBody, interrupted,
     interruptWait, executeStaticMethod, Goto, Return
<1>6. CASE \/ readType(u) \/ readIndex(u) \/ checkType(u) \/ lookup(u) \/ setInfo(u)
           \/ setResolved(u)
  BY <1>1, <1>6 DEF readType, readIndex, checkType, lookup, setInfo, setResolved,
     Goto, Call, Return
<1>7. CASE \/ nextInstruction(u) \/ dispatch(u) \/ readOperand(u) \/ checkOpcode(u)
           \/ resolved(u) \/ rewriteOperand(u) \/ rewriteOpcode(u) \/ useQuick(u)
  BY <1>1, <1>7 DEF nextInstruction, dispatch, readOperand, checkOpcode, resolved,
     rewriteOperand, rewriteOpcode, useQuick, Goto, Call, Return
<1> QED
  BY <1>2, <1>3, <1>4, <1>5, <1>6, <1>7 DEF ThreadStep, ClassStep

(* What a thread may do at the two tests.                                  *)
LEMMA StepsAtTests ==
    ASSUME NEW t \in Threads, ThreadStep(t) \/ interrupted(t), stack[t] # <<>>,
           Top(t).at \in {"check_type", "check_opcode"}
    PROVE  checkType(t) \/ checkOpcode(t)
<1>1. ~interrupted(t)
  BY DEF interrupted, interruptWait, At
<1>2. ~ClassStep(t)
  BY DEF ClassStep, At, findHashedClass, loadSystemClass, addClassToHash, setSuper,
     linkClass, prepareFields, allocTable, fillTable, setLinked, testState, initSuper,
     superInitialised, runBody, endInit
<1>3. ~(readType(t) \/ readIndex(t) \/ lookup(t) \/ setInfo(t) \/ setResolved(t))
  BY DEF At, readType, readIndex, lookup, setInfo, setResolved
<1>4. ~(\/ nextInstruction(t) \/ dispatch(t) \/ readOperand(t) \/ resolved(t)
        \/ rewriteOperand(t) \/ rewriteOpcode(t) \/ useQuick(t))
  BY DEF At, nextInstruction, dispatch, readOperand, resolved, rewriteOperand,
     rewriteOpcode, useQuick
<1> QED
  BY <1>1, <1>2, <1>3, <1>4 DEF ThreadStep

(* The top after the second test has led back to the first.                *)
LEMMA WentBack ==
    ASSUME IInv, NEW t \in Threads, stack[t] # <<>>, NEW l, Goto(t, l)
    PROVE  Head(stack'[t]).at = l /\ Head(stack'[t]).on = stack[t][1].on
<1>1. /\ Replaces(t, [stack[t][1] EXCEPT !.at = l])
      /\ stack[t][1] \in Activations /\ stack[t] \in Seq(Activations)
      /\ stack \in [Threads -> Seq(Activations)]
  BY Shapes DEF IInv, TypeOK, StacksTypeOK
<1>2. PICK a : a = [stack[t][1] EXCEPT !.at = l]
  OBVIOUS
<1>3. a.at = l /\ a.on = stack[t][1].on
  BY <1>1, <1>2, Relabelled
<1>4. stack'[t] = <<a>> \o Tail(stack[t])
  BY <1>1, <1>2 DEF Replaces
<1>5. Head(stack'[t]) = a
  BY <1>1, <1>4
<1> QED
  BY <1>3, <1>5

(* A name is looked up with what was an index when it was read: who read a *)
(* pointer, or operands already rewritten, finds out by the type or opcode *)
(* it looks at next (the second test in resolveClass and in                *)
(* WITH_OPCODE_CHANGE_CP_DINDEX).                                          *)
THEOREM NeverLooksUpAPointer == Spec => LooksUpWithAnIndex
<1>1. ASSUME IInv, Next, NEW t \in Threads, At(t, "check_type"), stack'[t] # stack[t],
             ~(Head(stack'[t]).at = "resolve" /\ Head(stack'[t]).on = Top(t).on)
      PROVE  index[t] = "index"
  <2>1. PICK e : e = Top(t).on
    OBVIOUS
  <2>2. "check_type" \in EntryLabels
    BY DEF EntryLabels
  <2>3. /\ stack[t] # <<>> /\ stack[t][1].at = "check_type" /\ stack[t][1].on = e
        /\ TopOK(t, Top(t)) /\ Top(t) = stack[t][1]
    BY <1>1, <2>1, <2>2, EntryTop
  <2>4. checkType(t) \/ checkOpcode(t)
    BY <1>1, <2>3, StepsOfOthers, StepsAtTests DEF Next, vars, threadVars
  <2>5. checkType(t)
    BY <2>3, <2>4 DEF checkOpcode, At
  <2>6. Raw(e)
    <3>1. ASSUME ~Raw(e) PROVE Goto(t, "resolve")
      BY <2>1, <2>5, <3>1 DEF checkType, Raw
    <3> QED
      BY <1>1, <2>1, <2>3, <3>1, WentBack
  <2>7. PICK a : a = Top(t) /\ TopOK(t, a) /\ a.at = "check_type" /\ a.on = e
    BY <2>3
  <2> QED
    BY <2>6, <2>7 DEF TopOK
<1>2. ASSUME IInv, Next, NEW t \in Threads, At(t, "check_opcode"), stack'[t] # stack[t],
             Head(stack'[t]).at = "resolve"
      PROVE  operands[t][1] = "index" /\ operands[t][2] = "index"
  <2>1. PICK i : i = Top(t).on
    OBVIOUS
  <2>2. "check_opcode" \in InstrLabels
    BY DEF InstrLabels
  <2>3. /\ stack[t] # <<>> /\ stack[t][1].at = "check_opcode" /\ stack[t][1].on = i
        /\ TopOK(t, Top(t)) /\ Top(t) = stack[t][1]
    BY <1>2, <2>1, <2>2, InstrTop
  <2>4. checkType(t) \/ checkOpcode(t)
    BY <1>2, <2>3, StepsOfOthers, StepsAtTests DEF Next, vars, threadVars
  <2>5. checkOpcode(t)
    BY <2>3, <2>4 DEF checkType, At
  <2>6. Slow(i)
    <3>1. ASSUME ~Slow(i) PROVE Goto(t, "dispatch")
      BY <2>1, <2>5, <3>1 DEF checkOpcode, Slow
    <3>2. Head(stack'[t]).at # "dispatch"
      BY <1>2
    <3> QED
      BY <1>2, <2>3, <3>1, <3>2, WentBack
  <2>7. PICK a : a = Top(t) /\ TopOK(t, a) /\ a.at = "check_opcode" /\ a.on = i
    BY <2>3
  <2> QED
    BY <2>6, <2>7 DEF TopOK
<1>3. \A n \in 1..2 : n = 1 \/ n = 2
  OBVIOUS
<1>4. IInv /\ Next =>
        \A t \in Threads : stack'[t] # stack[t] =>
          LET new == Head(stack'[t]) IN
          /\ At(t, "check_type") /\ ~(new.at = "resolve" /\ new.on = Top(t).on)
                => index[t] = "index"
          /\ At(t, "check_opcode") /\ new.at = "resolve"
                => \A n \in 1..2 : operands[t][n] = "index"
  BY <1>1, <1>2, <1>3
<1> QED
  BY <1>4, Invariance, PTL DEF Spec, LooksUpWithAnIndex


(* Where a thread is while it initialises a class.                         *)
InitLabels == {"init_super", "super_initialised", "body", "failed", "initialised"}

Begun == {"INITING", "INITED", "BAD"}

(* Thread t is at the initialisation of class c.                           *)
Initialising(t, c) ==
    \E k \in 1..Len(stack[t]) : stack[t][k].on = c /\ stack[t][k].at \in InitLabels

(* An activation that initialises a class is the only one of its thread,   *)
(* and initing_tid says whose it is.                                       *)
InitOK(t) ==
    /\ \A k \in 1..Len(stack[t]) : stack[t][k].at \in InitLabels =>
          LET a == stack[t][k] IN
          /\ flags[a.on] = "INITING" /\ tid[a.on] = t
          /\ a.at \in {"init_super", "super_initialised"} => ran[a.on] = 0
          /\ a.at = "initialised" => static[a.on] = "set"
    /\ \A j, k \in 1..Len(stack[t]) :
          {stack[t][j].at, stack[t][k].at} \subseteq InitLabels
             /\ stack[t][j].on = stack[t][k].on => j = k

WaitOK(t) == At(t, "waiting") => flags[Top(t).on] = "INITING"

ClassOK(c) ==
    /\ flags[c] = "INITING" => Initialising(tid[c], c)
    /\ flags[c] \notin Begun => ran[c] = 0
    /\ ran[c] <= 1
    /\ flags[c] = "INITED" => static[c] = "set"

CInv == /\ \A t \in Threads : InitOK(t) /\ WaitOK(t)
        /\ \A c \in Classes : ClassOK(c)

(* The test of cb->flags in linkClass holds no lock (class.c:475).  What   *)
(* comes of it is harmful when a thread clears the static fields of a      *)
(* class, or sets its flags back, after another one has begun to           *)
(* initialise it.                                                          *)
NobodyRelinks ==
    \A t \in Threads : At(t, "prepare") \/ At(t, "linked") => flags[Top(t).on] \notin Begun

-----------------------------------------------------------------------------
(* What a step leaves of a stack: all but its first activation, d places   *)
(* further down.  Neither that one nor those in its place initialise a     *)
(* class.                                                                  *)
Moves(s, r, d) ==
    /\ d \in {-1, 0, 1} /\ Len(r) = Len(s) + d
    /\ \A k \in 2..Len(s) : k + d \in 1..Len(r) /\ r[k + d] = s[k]
    /\ \A k \in 1..Len(r) : k - d \notin 2..Len(s) => r[k].at \notin InitLabels
    /\ Len(s) >= 1 => s[1].at \notin InitLabels

LEMMA Moved ==
    ASSUME NEW s \in Seq(Activations), NEW r \in Seq(Activations), NEW d, Moves(s, r, d)
    PROVE  /\ \A k \in 1..Len(r) : r[k].at \in InitLabels =>
                 k - d \in 1..Len(s) /\ s[k - d] = r[k]
           /\ \A k \in 1..Len(s) : s[k].at \in InitLabels =>
                 k + d \in 1..Len(r) /\ r[k + d] = s[k]
<1> USE DEF Moves
<1>1. Len(s) \in Nat /\ Len(r) \in Nat /\ d \in Int
  OBVIOUS
<1>2. ASSUME NEW k \in 1..Len(r), r[k].at \in InitLabels
      PROVE  k - d \in 1..Len(s) /\ s[k - d] = r[k]
  <2>1. k - d \in 2..Len(s)
    BY <1>2
  <2>2. r[(k - d) + d] = s[k - d] /\ (k - d) + d = k
    BY <1>1, <2>1
  <2> QED
    BY <1>1, <2>1, <2>2
<1>3. ASSUME NEW k \in 1..Len(s), s[k].at \in InitLabels
      PROVE  k + d \in 1..Len(r) /\ r[k + d] = s[k]
  <2>1. k \in 2..Len(s)
    BY <1>1, <1>3
  <2> QED
    BY <2>1
<1> QED
  BY <1>2, <1>3

Quiet(t) ==
    /\ \E d : Moves(stack[t], stack'[t], d)
    /\ \A u \in Threads \ {t} : stack'[u] = stack[u]

(* What is known of a class changes only before its initialisation.        *)
Calm ==
    /\ UNCHANGED <<tid, ran>>
    /\ \A c \in Classes : flags[c] \in Begun \/ flags'[c] \in Begun =>
          flags'[c] = flags[c] /\ static'[c] = static[c]

LEMMA StackTypes ==
    ASSUME TypeOK, NEW t \in Threads
    PROVE  /\ stack[t] \in Seq(Activations) /\ Len(stack[t]) \in Nat
           /\ \A k \in 1..Len(stack[t]) : stack[t][k] \in Activations
           /\ stack[t] # <<>> <=> Len(stack[t]) >= 1
           /\ stack[t] # <<>> => Head(stack[t]) = stack[t][1]
BY DEF TypeOK, StacksTypeOK

LEMMA Subject ==
    ASSUME NEW a \in Activations, a.at \in InitLabels
    PROVE  a.on \in Classes
BY Subjects DEF InitLabels, ClassLabels

LEMMA QuietStep ==
    ASSUME TypeOK, TypeOK', CInv, NEW t \in Threads, Quiet(t), Calm, WaitOK(t)'
    PROVE  CInv'
<1> USE DEF Begun
<1>1. PICK d : Moves(stack[t], stack'[t], d)
  BY DEF Quiet
<1>2. stack[t] \in Seq(Activations) /\ stack'[t] \in Seq(Activations)
  BY DEF TypeOK, StacksTypeOK
<1>3. /\ \A k \in 1..Len(stack'[t]) : stack'[t][k].at \in InitLabels =>
            k - d \in 1..Len(stack[t]) /\ stack[t][k - d] = stack'[t][k]
      /\ \A k \in 1..Len(stack[t]) : stack[t][k].at \in InitLabels =>
            k + d \in 1..Len(stack'[t]) /\ stack'[t][k + d] = stack[t][k]
  BY <1>1, <1>2, Moved
<1>4. d \in Int /\ Len(stack[t]) \in Nat /\ Len(stack'[t]) \in Nat
  BY <1>1, <1>2 DEF Moves
<1>5. ASSUME NEW u \in Threads, NEW k \in 1..Len(stack[u]), stack[u][k].at \in InitLabels
      PROVE  LET a == stack[u][k] IN
             /\ flags'[a.on] = "INITING" /\ tid'[a.on] = u
             /\ a.at \in {"init_super", "super_initialised"} => ran'[a.on] = 0
             /\ a.at = "initialised" => static'[a.on] = "set"
  <2>1. stack[u][k].on \in Classes
    BY <1>5, StackTypes, Subject
  <2>2. InitOK(u)
    BY DEF CInv
  <2> QED
    BY <1>5, <2>1, <2>2 DEF InitOK, Calm
<1>6. InitOK(t)'
  <2>1. ASSUME NEW k \in 1..Len(stack'[t]), stack'[t][k].at \in InitLabels
        PROVE  LET a == stack'[t][k] IN
               /\ flags'[a.on] = "INITING" /\ tid'[a.on] = t
               /\ a.at \in {"init_super", "super_initialised"} => ran'[a.on] = 0
               /\ a.at = "initialised" => static'[a.on] = "set"
    BY <1>3, <1>5, <2>1
  <2>2. ASSUME NEW j \in 1..Len(stack'[t]), NEW k \in 1..Len(stack'[t]),
               {stack'[t][j].at, stack'[t][k].at} \subseteq InitLabels,
               stack'[t][j].on = stack'[t][k].on
        PROVE  j = k
    <3>1. InitOK(t)
      BY DEF CInv
    <3>2. j - d = k - d
      BY <1>3, <2>2, <3>1 DEF InitOK
    <3> QED
      BY <1>4, <3>2
  <2> QED
    BY <2>1, <2>2 DEF InitOK
<1>7. ASSUME NEW u \in Threads \ {t} PROVE InitOK(u)' /\ WaitOK(u)'
  <2>1. stack'[u] = stack[u] /\ InitOK(u) /\ WaitOK(u)
    BY DEF Quiet, CInv
  <2>2. InitOK(u)'
    BY <1>5, <2>1 DEF InitOK
  <2>3. At(u, "waiting") => Top(u).on \in Classes
    <3>1. At(u, "waiting") => Top(u) \in Activations /\ Top(u).at \in ClassLabels
      BY StackTypes DEF At, Top, ClassLabels
    <3> QED
      BY <3>1, Subjects
  <2>4. WaitOK(u)'
    BY <2>1, <2>3 DEF WaitOK, At, Top, Calm
  <2> QED
    BY <2>2, <2>4
<1>8. ASSUME NEW c \in Classes PROVE ClassOK(c)'
  <2>1. ClassOK(c)
    BY DEF CInv
  <2>2. flags'[c] = "INITING" => Initialising(tid[c], c)'
    <3>1. SUFFICES ASSUME flags'[c] = "INITING" PROVE Initialising(tid[c], c)'
      OBVIOUS
    <3>2. flags[c] = "INITING" /\ tid[c] \in Threads /\ tid'[c] = tid[c]
      BY <3>1 DEF Calm, TypeOK, ClassesTypeOK
    <3>3. PICK k \in 1..Len(stack[tid[c]]) :
             stack[tid[c]][k].on = c /\ stack[tid[c]][k].at \in InitLabels
      BY <2>1, <3>2 DEF ClassOK, Initialising
    <3>4. CASE tid[c] = t
      BY <1>3, <3>2, <3>3, <3>4 DEF Initialising
    <3>5. CASE tid[c] # t
      BY <3>2, <3>3, <3>5 DEF Initialising, Quiet
    <3> QED
      BY <3>4, <3>5
  <2> QED
    BY <2>1, <2>2 DEF ClassOK, Calm
<1> QED
  BY <1>6, <1>7, <1>8 DEF CInv

-----------------------------------------------------------------------------
(* The thread that initialises a class goes on, perhaps with a call: its   *)
(* activation is d places further down.                                    *)
GoesOn(s, r, d) ==
    /\ d \in {0, 1, 2} /\ Len(r) = Len(s) + d
    /\ \A k \in 2..Len(s) : r[k + d] = s[k]
    /\ \A k \in 1..d : r[k].at \notin InitLabels
    /\ {s[1].at, r[1 + d].at} \subseteq InitLabels /\ r[1 + d].on = s[1].on

LEMMA OwnStep ==
    ASSUME TypeOK, TypeOK', CInv, NEW t \in Threads, stack[t] # <<>>,
           NEW d, GoesOn(stack[t], stack'[t], d), NEW c, c = stack[t][1].on,
           \A u \in Threads \ {t} : stack'[u] = stack[u],
           UNCHANGED <<flags, tid>>,
           \A x \in Classes \ {c} : ran'[x] = ran[x] /\ static'[x] = static[x],
           ran'[c] <= 1,
           stack'[t][1 + d].at \in {"init_super", "super_initialised"} => ran'[c] = 0,
           stack'[t][1 + d].at = "initialised" => static'[c] = "set",
           ~At(t, "waiting")'
    PROVE  CInv'
<1> USE DEF GoesOn
<1>1. /\ stack[t] \in Seq(Activations) /\ stack'[t] \in Seq(Activations)
      /\ Len(stack[t]) \in Nat \ {0} /\ Len(stack'[t]) \in Nat /\ d \in Nat
  BY StackTypes DEF TypeOK, StacksTypeOK
<1>2. c \in Classes /\ flags[c] = "INITING" /\ tid[c] = t
  <2>1. InitOK(t) /\ 1 \in 1..Len(stack[t])
    BY <1>1 DEF CInv
  <2>2. stack[t][1] \in Activations
    BY <1>1
  <2> QED
    BY <2>1, <2>2, Subject DEF InitOK
<1>3. ASSUME NEW k \in 1..Len(stack'[t]), stack'[t][k].at \in InitLabels
      PROVE  \/ k = 1 + d
             \/ k - d \in 2..Len(stack[t]) /\ stack'[t][k] = stack[t][k - d]
  <2>1. k > d
    BY <1>1, <1>3
  <2>2. k # 1 + d => (k - d) + d = k /\ k - d \in 2..Len(stack[t])
    BY <1>1, <2>1
  <2>3. k # 1 + d => stack'[t][(k - d) + d] = stack[t][k - d]
    BY <2>2
  <2> QED
    BY <2>2, <2>3
<1>4. \A k \in 2..Len(stack[t]) : stack[t][k].at \in InitLabels => stack[t][k].on # c
  <2>1. InitOK(t) /\ 1 \in 1..Len(stack[t])
    BY <1>1 DEF CInv
  <2> QED
    BY <1>1, <2>1 DEF InitOK
<1>5. ASSUME NEW u \in Threads, NEW k \in 1..Len(stack[u]), stack[u][k].at \in InitLabels,
             u # t \/ k # 1
      PROVE  LET a == stack[u][k] IN
             /\ flags'[a.on] = "INITING" /\ tid'[a.on] = u
             /\ a.at \in {"init_super", "super_initialised"} => ran'[a.on] = 0
             /\ a.at = "initialised" => static'[a.on] = "set"
  <2>1. stack[u][k].on \in Classes
    BY <1>5, StackTypes, Subject
  <2>2. InitOK(u)
    BY DEF CInv
  <2>3. stack[u][k].on # c
    <3>1. CASE u = t
      BY <1>1, <1>4, <1>5, <3>1
    <3>2. CASE u # t
      BY <1>2, <1>5, <2>2, <3>2 DEF InitOK
    <3> QED
      BY <3>1, <3>2
  <2> QED
    BY <1>5, <2>1, <2>2, <2>3 DEF InitOK
<1>6. InitOK(t)'
  <2>1. ASSUME NEW k \in 1..Len(stack'[t]), stack'[t][k].at \in InitLabels
        PROVE  LET a == stack'[t][k] IN
               /\ flags'[a.on] = "INITING" /\ tid'[a.on] = t
               /\ a.at \in {"init_super", "super_initialised"} => ran'[a.on] = 0
               /\ a.at = "initialised" => static'[a.on] = "set"
    <3>1. CASE k = 1 + d
      BY <1>2, <3>1
    <3>2. CASE k - d \in 2..Len(stack[t]) /\ stack'[t][k] = stack[t][k - d]
      <4>1. k - d \in 1..Len(stack[t]) /\ k - d # 1
        BY <1>1, <3>2
      <4> QED
        BY <1>5, <2>1, <3>2, <4>1
    <3> QED
      BY <1>3, <2>1, <3>1, <3>2
  <2>2. ASSUME NEW j \in 1..Len(stack'[t]), NEW k \in 1..Len(stack'[t]),
               {stack'[t][j].at, stack'[t][k].at} \subseteq InitLabels,
               stack'[t][j].on = stack'[t][k].on
        PROVE  j = k
    <3>1. InitOK(t)
      BY DEF CInv
    <3>2. ASSUME NEW i \in 1..Len(stack'[t]), i # 1 + d, stack'[t][i].at \in InitLabels
          PROVE  stack'[t][i].on # c
      <4>1. i - d \in 2..Len(stack[t]) /\ stack'[t][i] = stack[t][i - d]
        BY <1>3, <3>2
      <4>2. PICK m \in 2..Len(stack[t]) : stack'[t][i] = stack[t][m]
        BY <4>1
      <4> QED
        BY <1>4, <3>2, <4>2
    <3>3. CASE j # 1 + d /\ k # 1 + d
      <4>1. /\ j - d \in 1..Len(stack[t]) /\ k - d \in 1..Len(stack[t])
            /\ stack'[t][j] = stack[t][j - d] /\ stack'[t][k] = stack[t][k - d]
        BY <1>1, <1>3, <2>2, <3>3
      <4>2. j - d = k - d
        BY <2>2, <3>1, <4>1 DEF InitOK
      <4> QED
        BY <1>1, <4>2
    <3> QED
      BY <2>2, <3>2, <3>3
  <2> QED
    BY <2>1, <2>2 DEF InitOK
<1>7. ASSUME NEW u \in Threads \ {t} PROVE InitOK(u)' /\ WaitOK(u)'
  <2>1. stack'[u] = stack[u] /\ InitOK(u) /\ WaitOK(u)
    BY DEF CInv
  <2> QED
    BY <1>5, <2>1 DEF InitOK, WaitOK, At, Top
<1>8. ASSUME NEW x \in Classes PROVE ClassOK(x)'
  <2>1. ClassOK(x)
    BY DEF CInv
  <2>2. flags[x] = "INITING" => Initialising(tid[x], x)'
    <3>1. SUFFICES ASSUME flags[x] = "INITING" PROVE Initialising(tid[x], x)'
      OBVIOUS
    <3>2. tid[x] \in Threads /\ tid'[x] = tid[x]
      BY <3>1 DEF TypeOK, ClassesTypeOK
    <3>3. PICK k \in 1..Len(stack[tid[x]]) :
             stack[tid[x]][k].on = x /\ stack[tid[x]][k].at \in InitLabels
      BY <2>1, <3>1 DEF ClassOK, Initialising
    <3>4. CASE tid[x] = t /\ k = 1
      <4>1. 1 + d \in 1..Len(stack'[t])
        BY <1>1
      <4> QED
        BY <3>2, <3>3, <3>4, <4>1 DEF Initialising
    <3>5. CASE tid[x] = t /\ k # 1
      <4>1. k + d \in 1..Len(stack'[t]) /\ stack'[t][k + d] = stack[t][k]
        BY <1>1, <3>3, <3>5
      <4> QED
        BY <3>2, <3>3, <3>5, <4>1 DEF Initialising
    <3>6. CASE tid[x] # t
      BY <3>2, <3>3, <3>6 DEF Initialising
    <3> QED
      BY <3>4, <3>5, <3>6
  <2>3. x = c => flags[x] = "INITING"
    BY <1>2
  <2> QED
    BY <2>1, <2>2, <2>3 DEF ClassOK, Begun
<1>9. WaitOK(t)'
  BY DEF WaitOK
<1> QED
  BY <1>6, <1>7, <1>8, <1>9 DEF CInv

(* A thread begins to initialise a class that nobody has begun.            *)
LEMMA BeginStep ==
    ASSUME TypeOK, TypeOK', CInv, NEW t \in Threads, NEW c \in Classes, NEW a,
           stack[t] # <<>>, stack'[t] = <<a>> \o Tail(stack[t]), a.at = "init_super", a.on = c,
           stack[t][1].at \notin InitLabels,
           \A u \in Threads \ {t} : stack'[u] = stack[u],
           flags[c] \notin Begun, flags' = [flags EXCEPT ![c] = "INITING"],
           tid' = [tid EXCEPT ![c] = t], UNCHANGED <<ran, static>>
    PROVE  CInv'
<1>1. /\ stack[t] \in Seq(Activations) /\ stack'[t] \in Seq(Activations)
      /\ Len(stack[t]) \in Nat \ {0} /\ flags \in [Classes -> Flags]
      /\ tid \in [Classes -> Threads \cup {Nil}]
  BY StackTypes DEF TypeOK, StacksTypeOK, ClassesTypeOK
<1>2. /\ Len(stack'[t]) = Len(stack[t]) /\ stack'[t][1] = a
      /\ \A k \in 2..Len(stack[t]) : stack'[t][k] = stack[t][k]
  BY <1>1
<1>3. ASSUME NEW u \in Threads, NEW k \in 1..Len(stack[u]), stack[u][k].at \in InitLabels
      PROVE  /\ stack[u][k].on \in Classes \ {c} /\ flags[stack[u][k].on] = "INITING"
             /\ tid[stack[u][k].on] = u
  <2>1. InitOK(u) /\ stack[u][k].on \in Classes
    BY <1>3, StackTypes, Subject DEF CInv
  <2> QED
    BY <1>3, <2>1 DEF InitOK, Begun
<1>4. flags'[c] = "INITING" /\ tid'[c] = t /\ ran[c] = 0
  BY <1>1 DEF CInv, ClassOK
<1>5. \A x \in Classes \ {c} : flags'[x] = flags[x] /\ tid'[x] = tid[x]
  BY <1>1
<1>6. InitOK(t)'
  <2>1. InitOK(t)
    BY DEF CInv
  <2>2. ASSUME NEW k \in 1..Len(stack'[t]), stack'[t][k].at \in InitLabels
        PROVE  \/ k = 1 /\ stack'[t][k] = a
               \/ k \in 2..Len(stack[t]) /\ stack'[t][k] = stack[t][k]
    BY <1>1, <1>2
  <2>3. ASSUME NEW k \in 1..Len(stack'[t]), stack'[t][k].at \in InitLabels
        PROVE  LET b == stack'[t][k] IN
               /\ flags'[b.on] = "INITING" /\ tid'[b.on] = t
               /\ b.at \in {"init_super", "super_initialised"} => ran'[b.on] = 0
               /\ b.at = "initialised" => static'[b.on] = "set"
    <3>1. CASE k = 1 /\ stack'[t][k] = a
      BY <1>4, <3>1
    <3>2. CASE k \in 2..Len(stack[t]) /\ stack'[t][k] = stack[t][k]
      <4>1. k \in 1..Len(stack[t])
        BY <3>2
      <4> QED
        BY <1>3, <1>5, <2>1, <2>3, <3>2, <4>1 DEF InitOK
    <3> QED
      BY <2>2, <2>3, <3>1, <3>2
  <2>4. ASSUME NEW j \in 1..Len(stack'[t]), NEW k \in 1..Len(stack'[t]),
               {stack'[t][j].at, stack'[t][k].at} \subseteq InitLabels,
               stack'[t][j].on = stack'[t][k].on
        PROVE  j = k
    <3>1. ASSUME NEW i \in 2..Len(stack[t]), stack[t][i].at \in InitLabels
          PROVE  i \in 1..Len(stack[t]) /\ stack[t][i].on # c
      BY <1>3, <3>1
    <3> QED
      BY <2>1, <2>2, <2>4, <3>1 DEF InitOK
  <2> QED
    BY <2>3, <2>4 DEF InitOK
<1>7. ASSUME NEW u \in Threads \ {t} PROVE InitOK(u)' /\ WaitOK(u)'
  <2>1. stack'[u] = stack[u] /\ InitOK(u) /\ WaitOK(u)
    BY DEF CInv
  <2>2. InitOK(u)'
    BY <1>3, <1>5, <2>1 DEF InitOK
  <2>3. WaitOK(u)'
    BY <1>4, <1>5, <2>1 DEF WaitOK, At, Top, Begun
  <2> QED
    BY <2>2, <2>3
<1>8. WaitOK(t)'
  <2>1. stack'[t] # <<>> => Head(stack'[t]) = stack'[t][1]
    BY <1>1, Stacks
  <2> QED
    BY <1>2, <2>1 DEF WaitOK, At, Top
<1>9. ASSUME NEW x \in Classes PROVE ClassOK(x)'
  <2>1. ClassOK(x)
    BY DEF CInv
  <2>2. CASE x = c
    <3>1. 1 \in 1..Len(stack'[t])
      BY <1>1, <1>2
    <3>2. Initialising(tid[c], c)'
      BY <1>2, <1>4, <3>1 DEF Initialising, InitLabels
    <3> QED
      BY <1>4, <2>1, <2>2, <3>2 DEF ClassOK, Begun
  <2>3. CASE x # c
    <3>1. flags[x] = "INITING" => Initialising(tid[x], x)'
      <4>1. SUFFICES ASSUME flags[x] = "INITING" PROVE Initialising(tid[x], x)'
        OBVIOUS
      <4>2. tid[x] \in Threads
        BY <4>1 DEF TypeOK, ClassesTypeOK
      <4>3. PICK k \in 1..Len(stack[tid[x]]) :
               stack[tid[x]][k].on = x /\ stack[tid[x]][k].at \in InitLabels
        BY <2>1, <4>1 DEF ClassOK, Initialising
      <4>4. CASE tid[x] = t
        <5>1. k \in 2..Len(stack[t]) /\ k \in 1..Len(stack'[t])
          BY <1>1, <1>2, <4>3, <4>4
        <5> QED
          BY <1>2, <1>5, <2>3, <4>3, <4>4, <5>1 DEF Initialising
      <4>5. CASE tid[x] # t
        <5>1. tid'[x] = tid[x] /\ stack'[tid[x]] = stack[tid[x]]
          BY <1>5, <2>3, <4>2, <4>5
        <5> QED
          BY <4>3, <5>1 DEF Initialising
      <4> QED
        BY <4>4, <4>5
    <3> QED
      BY <1>5, <2>1, <2>3, <3>1 DEF ClassOK
  <2> QED
    BY <2>2, <2>3
<1> QED
  BY <1>6, <1>7, <1>8, <1>9 DEF CInv

(* What objectNotifyAll does to the stacks.                                *)
LEMMA Woken ==
    ASSUME NEW stk, NEW c, NEW u \in Threads, stk[u] \in Seq(Activations), NEW r,
           r = WakeAll(stk, c)[u]
    PROVE  /\ Len(r) = Len(stk[u])
           /\ \A k \in 2..Len(stk[u]) : r[k] = stk[u][k]
           /\ stk[u] # <<>> =>
                 \/ r[1] = stk[u][1] /\ ~(stk[u][1].at = "waiting" /\ stk[u][1].on = c)
                 \/ r[1].at = "woken" /\ stk[u][1].at = "waiting" /\ r[1].on = stk[u][1].on
<1>1. CASE stk[u] # <<>> /\ Head(stk[u]).at = "waiting" /\ Head(stk[u]).on = c
  <2>1. r = <<[Head(stk[u]) EXCEPT !.at = "woken"]>> \o Tail(stk[u])
    BY <1>1 DEF WakeAll
  <2>2. PICK b : b = [Head(stk[u]) EXCEPT !.at = "woken"]
    OBVIOUS
  <2>3. Head(stk[u]) = stk[u][1] /\ stk[u][1] \in Activations
    BY <1>1, Stacks
  <2>4. b \in Activations /\ b.at = "woken" /\ b.on = stk[u][1].on
    BY <1>1, <2>2, <2>3, Relabelled DEF ClassLabels
  <2>5. /\ Len(r) = Len(stk[u]) /\ r[1] = b
        /\ \A k \in 2..Len(stk[u]) : r[k] = stk[u][k]
    BY <1>1, <2>1, <2>2, <2>4, Stacks
  <2> QED
    BY <1>1, <2>3, <2>4, <2>5
<1>2. CASE ~(stk[u] # <<>> /\ Head(stk[u]).at = "waiting" /\ Head(stk[u]).on = c)
  <2>1. r = stk[u]
    BY <1>2 DEF WakeAll
  <2>2. stk[u] # <<>> => Head(stk[u]) = stk[u][1]
    BY Stacks
  <2> QED
    BY <1>2, <2>1, <2>2
<1> QED
  BY <1>1, <1>2

(* A thread ends the initialisation of a class, well or badly.             *)
LEMMA EndStep ==
    ASSUME IInv, TypeOK', CInv, NEW t \in Threads, endInit(t)
    PROVE  CInv'
<1> DEFINE c == Top(t).on
           stk == [stack EXCEPT ![t] = Tail(@)]
<1> USE DEF Begun
<1>0. TypeOK /\ ThreadOK(t)
  BY DEF IInv
<1>1. /\ stack[t] # <<>> /\ Top(t) = stack[t][1] /\ stack[t][1].at \in InitLabels /\ c \in Classes
      /\ stack[t] \in Seq(Activations) /\ Len(stack[t]) \in Nat \ {0}
      /\ stack \in [Threads -> Seq(Activations)] /\ flags \in [Classes -> Flags]
  <2>1. stack[t] # <<>> /\ Top(t).at \in InitLabels
    BY DEF endInit, At, InitLabels
  <2>2. Top(t) = stack[t][1] /\ stack[t][1] \in Activations
    BY <1>0, <2>1, Shapes
  <2> QED
    BY <1>0, <2>1, <2>2, Subject, StackTypes DEF TypeOK, StacksTypeOK, ClassesTypeOK
<1>2. /\ stack' = WakeAll(stk, c) /\ UNCHANGED <<tid, static, ran>>
      /\ \/ flags' = [flags EXCEPT ![c] = "BAD"]
         \/ flags' = [flags EXCEPT ![c] = "INITED"] /\ stack[t][1].at = "initialised"
  BY <1>1 DEF endInit, At
<1>3. /\ flags[c] = "INITING" /\ tid[c] = t
      /\ stack[t][1].at = "initialised" => static[c] = "set"
      /\ \A k \in 2..Len(stack[t]) : stack[t][k].at \in InitLabels => stack[t][k].on # c
  <2>1. InitOK(t) /\ 1 \in 1..Len(stack[t])
    BY <1>1 DEF CInv
  <2> QED
    BY <1>1, <2>1 DEF InitOK
<1>4. /\ flags'[c] \in {"BAD", "INITED"} /\ (flags'[c] = "INITED" => static'[c] = "set")
      /\ \A x \in Classes \ {c} : flags'[x] = flags[x]
  BY <1>1, <1>2, <1>3
<1>5. /\ stk[t] = Tail(stack[t]) /\ Len(stk[t]) = Len(stack[t]) - 1
      /\ \A k \in 1..Len(stk[t]) : stk[t][k] = stack[t][k + 1] /\ k + 1 \in 2..Len(stack[t])
      /\ \A u \in Threads \ {t} : stk[u] = stack[u]
      /\ \A u \in Threads : stk[u] \in Seq(Activations) /\ Len(stk[u]) \in Nat
  BY <1>1
(* The activations there were before, but for the one that ends.           *)
<1>6. ASSUME NEW u \in Threads, NEW k \in 1..Len(stk[u]), stk[u][k].at \in InitLabels
      PROVE  LET a == stk[u][k] IN
             /\ a.on \in Classes \ {c} /\ flags'[a.on] = "INITING" /\ tid'[a.on] = u
             /\ a.at \in {"init_super", "super_initialised"} => ran'[a.on] = 0
             /\ a.at = "initialised" => static'[a.on] = "set"
  <2>1. PICK j \in 1..Len(stack[u]) : stack[u][j] = stk[u][k] /\ (u = t => j # 1)
    BY <1>1, <1>5
  <2>2. InitOK(u) /\ stack[u][j].on \in Classes
    BY <1>0, <1>6, <2>1, StackTypes, Subject DEF CInv
  <2>3. stack[u][j].on # c
    BY <1>3, <1>6, <2>1, <2>2 DEF InitOK
  <2> QED
    BY <1>2, <1>4, <1>6, <2>1, <2>2, <2>3 DEF InitOK
<1>7. ASSUME NEW u \in Threads
      PROVE  /\ Len(stack'[u]) = Len(stk[u])
             /\ \A k \in 1..Len(stk[u]) :
                   {stk[u][k].at, stack'[u][k].at} \cap InitLabels # {} =>
                      stack'[u][k] = stk[u][k]
             /\ At(u, "waiting")' => /\ stk[u] # <<>> /\ stk[u][1] = Top(u)'
                                     /\ stk[u][1].at = "waiting" /\ stk[u][1].on # c
  <2>1. PICK s : s = stk
    OBVIOUS
  <2>2. stack'[u] = WakeAll(s, c)[u] /\ s[u] \in Seq(Activations)
    BY <1>2, <1>5, <2>1
  <2>3. /\ Len(stack'[u]) = Len(s[u])
        /\ \A k \in 2..Len(s[u]) : stack'[u][k] = s[u][k]
        /\ s[u] # <<>> =>
              \/ stack'[u][1] = s[u][1] /\ ~(s[u][1].at = "waiting" /\ s[u][1].on = c)
              \/ stack'[u][1].at = "woken" /\ s[u][1].at = "waiting"
    BY <2>2, Woken
  <2>4. stack'[u] \in Seq(Activations)
    BY DEF TypeOK, StacksTypeOK
  <2>5. /\ stack'[u] # <<>> => Head(stack'[u]) = stack'[u][1]
        /\ stack'[u] # <<>> <=> s[u] # <<>>
    BY <2>2, <2>3, <2>4
  <2>6. \A k \in 1..Len(s[u]) : {s[u][k].at, stack'[u][k].at} \cap InitLabels # {} =>
                                   stack'[u][k] = s[u][k]
    BY <2>2, <2>3, "waiting" \notin InitLabels, "woken" \notin InitLabels DEF InitLabels
  <2> QED
    BY <2>1, <2>3, <2>5, <2>6 DEF At, Top
<1>8. ASSUME NEW u \in Threads PROVE InitOK(u)'
  <2>1. ASSUME NEW k \in 1..Len(stack'[u]), stack'[u][k].at \in InitLabels
        PROVE  LET a == stack'[u][k] IN
               /\ flags'[a.on] = "INITING" /\ tid'[a.on] = u
               /\ a.at \in {"init_super", "super_initialised"} => ran'[a.on] = 0
               /\ a.at = "initialised" => static'[a.on] = "set"
    BY <1>6, <1>7, <2>1
  <2>2. ASSUME NEW j \in 1..Len(stack'[u]), NEW k \in 1..Len(stack'[u]),
               {stack'[u][j].at, stack'[u][k].at} \subseteq InitLabels,
               stack'[u][j].on = stack'[u][k].on
        PROVE  j = k
    <3>1. /\ j \in 1..Len(stk[u]) /\ k \in 1..Len(stk[u])
          /\ {stk[u][j].at, stk[u][k].at} \subseteq InitLabels /\ stk[u][j].on = stk[u][k].on
      BY <1>7, <2>2
    <3>2. InitOK(u)
      BY DEF CInv
    <3>3. CASE u = t
      <4>1. /\ j + 1 \in 1..Len(stack[t]) /\ k + 1 \in 1..Len(stack[t])
            /\ stack[t][j + 1] = stk[t][j] /\ stack[t][k + 1] = stk[t][k]
        BY <1>1, <1>5, <3>1, <3>3
      <4>2. j + 1 = k + 1
        BY <3>1, <3>2, <3>3, <4>1 DEF InitOK
      <4> QED
        BY <1>5, <3>1, <4>2
    <3>4. CASE u # t
      BY <1>5, <3>1, <3>2, <3>4 DEF InitOK
    <3> QED
      BY <3>3, <3>4
  <2> QED
    BY <2>1, <2>2 DEF InitOK
<1>9. ASSUME NEW u \in Threads PROVE WaitOK(u)'
  <2>1. SUFFICES ASSUME At(u, "waiting")' PROVE (flags[Top(u).on])' = "INITING"
    BY DEF WaitOK
  <2>2. /\ stk[u] # <<>> /\ stk[u][1] = Top(u)'
        /\ stk[u][1].at = "waiting" /\ stk[u][1].on # c
    BY <1>7, <2>1
  <2>3. u # t
    <3>1. SUFFICES ASSUME u = t PROVE FALSE
      OBVIOUS
    <3>2. 2 \in 2..Len(stack[t]) /\ stk[t][1] = stack[t][2]
      BY <1>1, <1>5, <2>2, <3>1
    <3>3. Waits(stack[t][2], stack[t][1])
      BY <1>0, <3>2 DEF ThreadOK
    <3> QED
      BY <2>2, <3>1, <3>2, <3>3 DEF Waits, CallLabels
  <2>4. /\ stack[u] # <<>> /\ Top(u) = stk[u][1] /\ Top(u).at = "waiting" /\ Top(u).on # c
        /\ Top(u).on \in Classes
    <3>1. stack[u] # <<>> /\ stack[u] = stk[u]
      BY <1>5, <2>2, <2>3
    <3>2. Top(u) = stack[u][1] /\ stack[u][1] \in Activations
      BY <1>0, <3>1, Shapes
    <3> QED
      BY <2>2, <3>1, <3>2, Subjects DEF ClassLabels
  <2>5. flags[Top(u).on] = "INITING"
    BY <2>4 DEF CInv, WaitOK, At
  <2> QED
    BY <1>4, <2>2, <2>4, <2>5
<1>10. ASSUME NEW x \in Classes PROVE ClassOK(x)'
  <2>1. ClassOK(x)
    BY DEF CInv
  <2>2. CASE x = c
    BY <1>2, <1>4, <2>1, <2>2 DEF ClassOK
  <2>3. CASE x # c
    <3>1. flags[x] = "INITING" => Initialising(tid[x], x)'
      <4>1. SUFFICES ASSUME flags[x] = "INITING" PROVE Initialising(tid[x], x)'
        OBVIOUS
      <4>2. tid[x] \in Threads /\ tid'[x] = tid[x]
        BY <1>0, <1>2, <4>1 DEF TypeOK, ClassesTypeOK
      <4>3. PICK k \in 1..Len(stack[tid[x]]) :
               stack[tid[x]][k].on = x /\ stack[tid[x]][k].at \in InitLabels
        BY <2>1, <4>1 DEF ClassOK, Initialising
      <4>4. PICK j \in 1..Len(stk[tid[x]]) : stk[tid[x]][j] = stack[tid[x]][k]
        <5>1. CASE tid[x] = t
          <6>1. k # 1
            BY <1>1, <2>3, <4>3, <5>1
          <6>2. k - 1 \in 1..Len(stk[t]) /\ (k - 1) + 1 = k
            BY <1>1, <1>5, <4>3, <5>1, <6>1
          <6>3. stk[t][k - 1] = stack[t][k]
            BY <1>5, <6>2
          <6> QED
            BY <5>1, <6>2, <6>3
        <5>2. CASE tid[x] # t
          BY <1>5, <4>2, <4>3, <5>2
        <5> QED
          BY <5>1, <5>2
      <4>5. j \in 1..Len(stack'[tid[x]]) /\ stack'[tid[x]][j] = stack[tid[x]][k]
        BY <1>7, <4>2, <4>3, <4>4
      <4> QED
        BY <4>2, <4>3, <4>5 DEF Initialising
    <3> QED
      BY <1>2, <1>4, <2>1, <2>3, <3>1 DEF ClassOK
  <2> QED
    BY <2>2, <2>3
<1> QED
  BY <1>8, <1>9, <1>10 DEF CInv

-----------------------------------------------------------------------------
(* The ways a step that initialises no class goes on.                      *)
Elsewhere(l) == l \notin InitLabels \cup {"waiting"}

LEMMA QuietMoves ==
    ASSUME IInv, TypeOK', NEW t \in Threads, stack[t] # <<>>, stack[t][1].at \notin InitLabels,
           \/ Return(t)
           \/ \E l : Elsewhere(l) /\ Goto(t, l)
           \/ \E l, x : Elsewhere(l) /\ Become(t, Activation(l, x))
           \/ \E k, x, l : Elsewhere(k) /\ Elsewhere(l) /\ Call(t, Activation(k, x), l)
           \/ \E c : stack' = [stack EXCEPT ![t] = InitClass(c, Tail(@))]
    PROVE  Quiet(t) /\ ~At(t, "waiting")'
<1> DEFINE s == stack[t]
<1>1. /\ s \in Seq(Activations) /\ Len(s) \in Nat \ {0} /\ stack \in [Threads -> Seq(Activations)]
      /\ s[1] \in Activations /\ TypeOK /\ ThreadOK(t)
  BY StackTypes DEF IInv, TypeOK, StacksTypeOK
<1>2. stack'[t] \in Seq(Activations)
  BY DEF TypeOK, StacksTypeOK
<1>3. CASE Return(t)
  <2>1. /\ stack'[t] = Tail(s) /\ \A u \in Threads \ {t} : stack'[u] = stack[u]
    BY <1>1, <1>3 DEF Return
  <2>2. /\ Len(stack'[t]) = Len(s) - 1
        /\ \A k \in 1..(Len(s) - 1) : stack'[t][k] = s[k + 1]
    BY <1>1, <2>1
  <2>3. Moves(s, stack'[t], -1)
    BY <1>1, <2>2 DEF Moves
  <2>4. ~At(t, "waiting")'
    <3>1. SUFFICES ASSUME stack'[t] # <<>> PROVE Head(stack'[t]).at # "waiting"
      BY DEF At, Top
    <3>2. 2 \in 2..Len(s) /\ Head(stack'[t]) = s[2]
      BY <1>1, <1>2, <2>2, <3>1
    <3>3. Waits(s[2], s[1])
      BY <1>1, <3>2 DEF ThreadOK
    <3> QED
      BY <3>2, <3>3 DEF Waits, CallLabels
  <2> QED
    BY <2>1, <2>3, <2>4 DEF Quiet
<1>4. ASSUME NEW a, Replaces(t, a), Elsewhere(a.at)
      PROVE  Quiet(t) /\ ~At(t, "waiting")'
  <2>1. /\ stack'[t] = <<a>> \o Tail(s) /\ \A u \in Threads \ {t} : stack'[u] = stack[u]
    BY <1>1, <1>4 DEF Replaces
  <2>2. /\ Len(stack'[t]) = Len(s) /\ stack'[t][1] = a
        /\ \A k \in 2..Len(s) : stack'[t][k] = s[k]
    BY <1>1, <2>1
  <2>3. Moves(s, stack'[t], 0)
    BY <1>1, <1>4, <2>2 DEF Moves, Elsewhere
  <2>4. Head(stack'[t]) = a
    BY <1>1, <1>2, <2>2
  <2> QED
    BY <1>4, <2>1, <2>3, <2>4 DEF Quiet, At, Top, Elsewhere
<1>5. ASSUME NEW a, NEW b, Pushes(t, b, a), Elsewhere(a.at), Elsewhere(b.at)
      PROVE  Quiet(t) /\ ~At(t, "waiting")'
  <2>1. /\ stack'[t] = <<b, a>> \o Tail(s) /\ \A u \in Threads \ {t} : stack'[u] = stack[u]
    BY <1>1, <1>5 DEF Pushes
  <2>2. /\ Len(stack'[t]) = Len(s) + 1 /\ stack'[t][1] = b /\ stack'[t][2] = a
        /\ \A k \in 2..Len(s) : stack'[t][k + 1] = s[k]
    BY <1>1, <2>1
  <2>3. Moves(s, stack'[t], 1)
    BY <1>1, <1>5, <2>2 DEF Moves, Elsewhere
  <2>4. Head(stack'[t]) = b
    BY <1>1, <1>2, <2>2
  <2> QED
    BY <1>5, <2>1, <2>3, <2>4 DEF Quiet, At, Top, Elsewhere
<1>6. \A l : [s[1] EXCEPT !.at = l].at = l
  BY <1>1, Relabelled
<1>7. \A l, x : Activation(l, x).at = l
  BY Activated
<1>8. ASSUME NEW l, Elsewhere(l), Goto(t, l) PROVE Quiet(t) /\ ~At(t, "waiting")'
  <2>1. PICK a : a = [s[1] EXCEPT !.at = l]
    OBVIOUS
  <2>2. Replaces(t, a) /\ a.at = l
    BY <1>1, <1>6, <1>8, <2>1, Shapes
  <2> QED
    BY <1>4, <1>8, <2>2
<1>9. ASSUME NEW l, NEW x, Elsewhere(l), Become(t, Activation(l, x))
      PROVE  Quiet(t) /\ ~At(t, "waiting")'
  <2>1. PICK a : a = Activation(l, x)
    OBVIOUS
  <2>2. Replaces(t, a) /\ a.at = l
    BY <1>1, <1>7, <1>9, <2>1, Shapes
  <2> QED
    BY <1>4, <1>9, <2>2
<1>10. ASSUME NEW k, NEW x, NEW l, Elsewhere(k), Elsewhere(l), Call(t, Activation(k, x), l)
       PROVE  Quiet(t) /\ ~At(t, "waiting")'
  <2>1. PICK a, b : a = [s[1] EXCEPT !.at = l] /\ b = Activation(k, x)
    OBVIOUS
  <2>2. Pushes(t, b, a) /\ a.at = l /\ b.at = k
    BY <1>1, <1>6, <1>7, <1>10, <2>1, Shapes
  <2> QED
    BY <1>5, <1>10, <2>2
<1>11. ASSUME NEW c, stack' = [stack EXCEPT ![t] = InitClass(c, Tail(@))]
       PROVE  Quiet(t) /\ ~At(t, "waiting")'
  <2>1. Pushes(t, Activation("link", c), Activation("lock", c))
    BY <1>11 DEF Pushes, InitClass
  <2> QED
    BY <1>5, <1>7, <2>1 DEF Elsewhere, InitLabels
<1> QED
  BY <1>3, <1>8, <1>9, <1>10, <1>11

-----------------------------------------------------------------------------
(* Finding and linking: the classes that are being initialised stay as     *)
(* they are, if nobody relinks them.                                       *)
LEMMA QuietSafe ==
    ASSUME IInv, TypeOK', CInv, NEW t \in Threads, stack[t] # <<>>,
           stack[t][1].at \notin InitLabels, Calm,
           \/ Return(t)
           \/ \E l : Elsewhere(l) /\ Goto(t, l)
           \/ \E l, x : Elsewhere(l) /\ Become(t, Activation(l, x))
           \/ \E k, x, l : Elsewhere(k) /\ Elsewhere(l) /\ Call(t, Activation(k, x), l)
           \/ \E c : stack' = [stack EXCEPT ![t] = InitClass(c, Tail(@))]
    PROVE  CInv'
<1>1. Quiet(t) /\ ~At(t, "waiting")'
  BY QuietMoves
<1>2. TypeOK
  BY DEF IInv
<1> QED
  BY <1>1, <1>2, QuietStep DEF WaitOK

LEMMA AtTop ==
    ASSUME IInv, NEW t \in Threads, NEW l, At(t, l)
    PROVE  stack[t] # <<>> /\ Top(t) = stack[t][1] /\ stack[t][1].at = l
BY Shapes DEF IInv, At

LEMMA FindSafe ==
    ASSUME IInv, TypeOK', CInv, NEW t \in Threads,
           findHashedClass(t) \/ loadSystemClass(t) \/ addClassToHash(t) \/ setSuper(t)
    PROVE  CInv'
<1> USE DEF Begun, Elsewhere, InitLabels
<1>1. stack[t] # <<>> /\ stack[t][1].at \notin InitLabels
  <2>1. PICK l \in {"find", "parsed", "super_found"} : At(t, l)
    BY DEF findHashedClass, loadSystemClass, addClassToHash, setSuper
  <2> QED
    BY <2>1, AtTop
<1>2. Calm
  <2>1. UNCHANGED <<tid, static, ran>> /\ (UNCHANGED flags \/ \E c : flags[c] = "NONE"
                                              /\ flags' = [flags EXCEPT ![c] = "LOADED"])
    BY DEF findHashedClass, loadSystemClass, addClassToHash, setSuper, classVars
  <2> QED
    BY <2>1 DEF Calm, IInv, TypeOK, ClassesTypeOK
<1>3. Found(t) => Return(t) \/ \E x : Become(t, Activation("link", x))
  BY DEF Found
<1>4. \/ Return(t) \/ Goto(t, "parsed")
      \/ \E x : Become(t, Activation("link", x))
      \/ \E x : Call(t, Activation("find", x), "parsed")
      \/ \E x : Call(t, Activation("find", x), "super_found")
  BY <1>3 DEF findHashedClass, loadSystemClass, addClassToHash, setSuper, defineClass
<1> QED
  BY <1>1, <1>2, <1>4, QuietSafe

LEMMA LinkSafe ==
    ASSUME IInv, TypeOK', CInv, NobodyRelinks, NEW t \in Threads,
           \/ linkClass(t) \/ prepareFields(t) \/ allocTable(t) \/ fillTable(t)
           \/ setLinked(t)
    PROVE  CInv'
<1> USE DEF Begun, Elsewhere, InitLabels
<1>1. stack[t] # <<>> /\ stack[t][1].at \notin InitLabels
  <2>1. PICK l \in {"link", "prepare", "allocate_table", "fill_table", "linked"} : At(t, l)
    BY DEF linkClass, prepareFields, allocTable, fillTable, setLinked
  <2> QED
    BY <2>1, AtTop
<1>2. Calm
  <2>1. CASE UNCHANGED <<flags, static>>
    BY <2>1 DEF linkClass, prepareFields, allocTable, fillTable, setLinked, classVars, Calm
  <2>2. CASE prepareFields(t) \/ setLinked(t)
    BY <2>2 DEF prepareFields, setLinked, NobodyRelinks, Calm, IInv, TypeOK, ClassesTypeOK
  <2> QED
    BY <2>1, <2>2 DEF linkClass, prepareFields, allocTable, fillTable, setLinked, classVars
<1>3. \/ Return(t) \/ Goto(t, "prepare") \/ Goto(t, "allocate_table") \/ Goto(t, "fill_table")
      \/ Goto(t, "linked") \/ \E x : Call(t, Activation("link", x), "prepare")
  BY DEF linkClass, prepareFields, allocTable, fillTable, setLinked
<1> QED
  BY <1>1, <1>2, <1>3, QuietSafe

(* initClass looks at the class, and waits for another thread or begins.   *)
LEMMA TestSafe ==
    ASSUME IInv, TypeOK', CInv, NEW t \in Threads, testState(t) \/ interruptWait(t)
    PROVE  CInv'
<1> USE DEF Begun, Elsewhere, InitLabels
<1>1. /\ stack[t] # <<>> /\ Top(t) = stack[t][1] /\ stack[t][1].at \in {"lock", "woken", "waiting"}
      /\ stack[t][1] \in Activations /\ Top(t).on \in Classes /\ TypeOK
  <2>1. PICK l \in {"lock", "woken", "waiting"} : At(t, l)
    BY DEF testState, interruptWait
  <2> QED
    BY <2>1, ClassTop DEF ClassLabels, IInv
<1>2. CASE UNCHANGED <<flags, tid>> /\ (Return(t) \/ Goto(t, "woken"))
  <2>1. Calm
    BY <1>2 DEF Calm, testState, interruptWait, classVars
  <2> QED
    BY <1>1, <1>2, <2>1, QuietSafe
<1>3. CASE UNCHANGED <<flags, tid>> /\ Goto(t, "waiting") /\ flags[Top(t).on] = "INITING"
  <2>1. Calm
    BY <1>3 DEF Calm, testState, interruptWait, classVars
  <2>2. PICK a : a = [stack[t][1] EXCEPT !.at = "waiting"]
    OBVIOUS
  <2>3. Replaces(t, a) /\ a.at = "waiting" /\ a.on = Top(t).on
    BY <1>1, <1>3, <2>2, Shapes, Relabelled
  <2>4. /\ stack'[t] = <<a>> \o Tail(stack[t]) /\ \A u \in Threads \ {t} : stack'[u] = stack[u]
    BY <2>3 DEF Replaces, IInv, TypeOK, StacksTypeOK
  <2>5. /\ stack[t] \in Seq(Activations) /\ Len(stack[t]) \in Nat \ {0}
        /\ stack'[t] \in Seq(Activations)
    BY <1>1, StackTypes DEF TypeOK, StacksTypeOK
  <2>6. /\ Len(stack'[t]) = Len(stack[t]) /\ stack'[t][1] = a
        /\ \A k \in 2..Len(stack[t]) : stack'[t][k] = stack[t][k]
    BY <2>4, <2>5
  <2>7. Moves(stack[t], stack'[t], 0)
    BY <1>1, <2>3, <2>5, <2>6 DEF Moves
  <2>8. Head(stack'[t]) = a
    BY <2>5, <2>6
  <2>9. WaitOK(t)'
    BY <1>3, <2>3, <2>8 DEF WaitOK, Top
  <2>10. Quiet(t)
    BY <2>4, <2>7 DEF Quiet
  <2> QED
    BY <1>1, <2>1, <2>9, <2>10, QuietStep
<1>4. CASE /\ flags[Top(t).on] \notin Begun /\ Goto(t, "init_super") /\ UNCHANGED <<ran, static>>
           /\ flags' = [flags EXCEPT ![Top(t).on] = "INITING"]
           /\ tid' = [tid EXCEPT ![Top(t).on] = t]
  <2>1. PICK a : a = [stack[t][1] EXCEPT !.at = "init_super"]
    OBVIOUS
  <2>2. Replaces(t, a) /\ a.at = "init_super" /\ a.on = Top(t).on
    BY <1>1, <1>4, <2>1, Shapes, Relabelled
  <2>3. /\ stack'[t] = <<a>> \o Tail(stack[t]) /\ \A u \in Threads \ {t} : stack'[u] = stack[u]
    BY <2>2 DEF Replaces, IInv, TypeOK, StacksTypeOK
  <2> QED
    BY <1>1, <1>4, <2>2, <2>3, BeginStep
<1> QED
  BY <1>2, <1>3, <1>4 DEF testState, interruptWait, classVars

(* The thread that initialises a class goes to another label of initClass. *)
LEMMA OwnGoes ==
    ASSUME IInv, TypeOK', CInv, NEW t \in Threads, stack[t] # <<>>,
           stack[t][1].at \in InitLabels, NEW c, c = Top(t).on,
           NEW l \in InitLabels \ {"init_super", "super_initialised"}, Goto(t, l),
           UNCHANGED <<flags, tid>>,
           \A x \in Classes \ {c} : ran'[x] = ran[x] /\ static'[x] = static[x],
           ran'[c] <= 1, l = "initialised" => static'[c] = "set"
    PROVE  CInv'
<1>1. TypeOK /\ Top(t) = stack[t][1] /\ stack[t][1] \in Activations
  BY Shapes DEF IInv
<1>2. PICK a : a = [stack[t][1] EXCEPT !.at = l]
  OBVIOUS
<1>3. Replaces(t, a) /\ a.at = l /\ a.on = c
  BY <1>1, <1>2, Shapes, Relabelled
<1>4. /\ stack'[t] = <<a>> \o Tail(stack[t]) /\ \A u \in Threads \ {t} : stack'[u] = stack[u]
  BY <1>1, <1>3 DEF Replaces, TypeOK, StacksTypeOK
<1>5. /\ stack[t] \in Seq(Activations) /\ Len(stack[t]) \in Nat \ {0}
      /\ stack'[t] \in Seq(Activations)
  BY <1>1, StackTypes DEF TypeOK, StacksTypeOK
<1>6. /\ Len(stack'[t]) = Len(stack[t]) /\ stack'[t][1] = a
      /\ \A k \in 2..Len(stack[t]) : stack'[t][k] = stack[t][k]
  BY <1>4, <1>5
<1>7. GoesOn(stack[t], stack'[t], 0)
  BY <1>1, <1>3, <1>5, <1>6 DEF GoesOn
<1>8. Head(stack'[t]) = a
  BY <1>5, <1>6
<1>9. ~At(t, "waiting")' /\ stack'[t][1 + 0] = a
  BY <1>3, <1>6, <1>8 DEF At, Top, InitLabels
<1> QED
  BY <1>1, <1>3, <1>4, <1>7, <1>9, OwnStep

(* What is known of the class that is being initialised.                   *)
LEMMA OwnClass ==
    ASSUME IInv, CInv, NEW t \in Threads, NEW l \in InitLabels, At(t, l)
    PROVE  /\ stack[t] # <<>> /\ Top(t) = stack[t][1] /\ stack[t][1].at = l
           /\ stack[t][1] \in Activations /\ Top(t).on \in Classes
           /\ flags[Top(t).on] = "INITING" /\ tid[Top(t).on] = t /\ ran[Top(t).on] <= 1
           /\ l \in {"init_super", "super_initialised"} => ran[Top(t).on] = 0
           /\ l = "initialised" => static[Top(t).on] = "set"
<1>1. /\ stack[t] # <<>> /\ Top(t) = stack[t][1] /\ stack[t][1].at = l
      /\ stack[t][1] \in Activations /\ TypeOK
  BY AtTop, Shapes DEF IInv
<1>2. Top(t).on \in Classes /\ 1 \in 1..Len(stack[t])
  BY <1>1, Subject, StackTypes
<1> QED
  BY <1>1, <1>2 DEF CInv, InitOK, ClassOK

(* The superclass is initialised, and <clinit> executed.                   *)
LEMMA InitSafe ==
    ASSUME IInv, TypeOK', CInv, NEW t \in Threads,
           initSuper(t) \/ superInitialised(t) \/ runBody(t)
    PROVE  CInv'
<1> DEFINE c == Top(t).on
<1> USE DEF InitLabels
<1>1. /\ stack[t] # <<>> /\ Top(t) = stack[t][1] /\ stack[t][1].at \in InitLabels
      /\ stack[t][1] \in Activations /\ c \in Classes /\ TypeOK /\ ran[c] <= 1
  <2>1. PICK l \in {"init_super", "super_initialised", "body"} : At(t, l)
    BY DEF initSuper, superInitialised, runBody
  <2> QED
    BY <2>1, OwnClass DEF IInv
<1>2. CASE /\ At(t, "init_super") \/ At(t, "super_initialised")
           /\ executeStaticMethod(t) /\ UNCHANGED <<flags, tid, static>>
  <2>1. ran[c] = 0 /\ ran \in [Classes -> Nat]
    BY <1>1, <1>2, OwnClass DEF TypeOK, ClassesTypeOK
  <2>2. /\ ran'[c] = 1 /\ Goto(t, "body")
        /\ \A x \in Classes \ {c} : ran'[x] = ran[x] /\ static'[x] = static[x]
    BY <1>1, <1>2, <2>1 DEF executeStaticMethod
  <2> QED
    BY <1>1, <1>2, <2>2, OwnGoes
<1>3. CASE UNCHANGED <<flags, tid, ran, static>> /\ Goto(t, "failed")
  BY <1>1, <1>3, OwnGoes
<1>4. CASE /\ runBody(t) /\ Goto(t, "initialised") /\ static' = [static EXCEPT ![c] = "set"]
  <2>1. static \in [Classes -> {"garbage", "zero", "set"}]
    BY <1>1 DEF TypeOK, ClassesTypeOK
  <2> QED
    BY <1>1, <1>4, <2>1, OwnGoes DEF runBody
<1>5. /\ stack[t] \in Seq(Activations) /\ Len(stack[t]) \in Nat \ {0}
      /\ stack'[t] \in Seq(Activations) /\ stack \in [Threads -> Seq(Activations)]
      /\ Head(stack[t]) = stack[t][1]
  BY <1>1, StackTypes DEF TypeOK, StacksTypeOK
(* A call: the activation goes on below the called ones.                   *)
<1>6. ASSUME NEW a, a.at \in {"super_initialised", "body"}, a.on = c, NEW d \in {1, 2},
             Len(stack'[t]) = Len(stack[t]) + d, stack'[t][1 + d] = a,
             \A k \in 2..Len(stack[t]) : stack'[t][k + d] = stack[t][k],
             \A k \in 1..d : stack'[t][k].at \in {"link", "lock", "dispatch"},
             \A u \in Threads \ {t} : stack'[u] = stack[u],
             UNCHANGED <<flags, tid, ran, static>>, a.at = "super_initialised" => ran[c] = 0
      PROVE  CInv'
  <2>1. GoesOn(stack[t], stack'[t], d)
    BY <1>1, <1>6 DEF GoesOn
  <2>2. ~At(t, "waiting")'
    <3>1. Head(stack'[t]) = stack'[t][1] /\ 1 \in 1..d
      BY <1>5, <1>6
    <3> QED
      BY <1>6, <3>1 DEF At, Top
  <2> QED
    BY <1>1, <1>6, <2>1, <2>2, OwnStep
<1>7. CASE /\ initSuper(t) /\ UNCHANGED ran
           /\ stack' = [stack EXCEPT ![t] =
                 InitClass(Super[c], <<[Head(@) EXCEPT !.at = "super_initialised"]>> \o Tail(@))]
  <2>1. PICK a, b, e : /\ a = [stack[t][1] EXCEPT !.at = "super_initialised"]
                       /\ b = Activation("link", Super[c]) /\ e = Activation("lock", Super[c])
    OBVIOUS
  <2>2. /\ a.at = "super_initialised" /\ a.on = c /\ b.at = "link" /\ e.at = "lock"
        /\ a \in Activations
    <3>1. a.at = "super_initialised" /\ a.on = c
      BY <1>1, <2>1, Relabelled
    <3>2. b.at = "link" /\ e.at = "lock"
      BY <2>1, Activated
    <3>3. "super_initialised" \in ClassLabels /\ stack[t][1].at \in ClassLabels
      BY <1>1 DEF ClassLabels
    <3>4. a \in Activations
      BY <1>1, <2>1, <3>3, Relabelled
    <3> QED
      BY <3>1, <3>2, <3>4
  <2>3. /\ stack'[t] = <<b, e>> \o (<<a>> \o Tail(stack[t]))
        /\ \A u \in Threads \ {t} : stack'[u] = stack[u]
    BY <1>5, <1>7, <2>1 DEF InitClass
  <2>4. /\ Len(stack'[t]) = Len(stack[t]) + 2 /\ stack'[t][1] = b /\ stack'[t][2] = e
        /\ stack'[t][3] = a /\ \A k \in 2..Len(stack[t]) : stack'[t][k + 2] = stack[t][k]
    BY <1>5, <2>3
  <2>5. At(t, "init_super") /\ UNCHANGED <<flags, tid, ran, static>>
    BY <1>7 DEF initSuper
  <2>6. ran[c] = 0
    BY <2>5, OwnClass
  <2>7. \A k \in 1..2 : stack'[t][k].at \in {"link", "lock", "dispatch"}
    BY <2>2, <2>4
  <2>8. stack'[t][1 + 2] = a
    BY <2>4
  <2> QED
    BY <1>6, <2>2, <2>3, <2>4, <2>5, <2>6, <2>7, <2>8
<1>8. CASE /\ runBody(t) /\ UNCHANGED <<static, exception>>
           /\ stack' = [stack EXCEPT ![t] =
                 <<Activation("dispatch", Body[c][Top(t).next]),
                   [Top(t) EXCEPT !.next = @ + 1]>> \o Tail(@)]
  <2>1. PICK a, b : /\ a = [Top(t) EXCEPT !.next = @ + 1]
                    /\ b = Activation("dispatch", Body[c][Top(t).next])
    OBVIOUS
  <2>2. /\ Top(t).at = "body" /\ UNCHANGED <<flags, tid, ran, static>>
    BY <1>8 DEF runBody, At
  <2>3. a.at = "body" /\ a.on = c /\ b.at = "dispatch"
    BY <1>1, <2>1, <2>2, Activated DEF Activations
  <2>4. /\ stack'[t] = <<b, a>> \o Tail(stack[t])
        /\ \A u \in Threads \ {t} : stack'[u] = stack[u]
    BY <1>5, <1>8, <2>1
  <2>5. /\ Len(stack'[t]) = Len(stack[t]) + 1 /\ stack'[t][1] = b /\ stack'[t][2] = a
        /\ \A k \in 2..Len(stack[t]) : stack'[t][k + 1] = stack[t][k]
    BY <1>5, <2>4
  <2>6. \A k \in 1..1 : stack'[t][k].at \in {"link", "lock", "dispatch"}
    BY <2>3, <2>5
  <2>7. stack'[t][1 + 1] = a
    BY <2>5
  <2> QED
    BY <1>6, <2>2, <2>3, <2>4, <2>5, <2>6, <2>7
<1>9. CASE initSuper(t)
  BY <1>2, <1>7, <1>9 DEF initSuper
<1>10. CASE superInitialised(t)
  BY <1>2, <1>3, <1>10 DEF superInitialised
<1>11. CASE runBody(t)
  BY <1>3, <1>4, <1>8, <1>11 DEF runBody
<1> QED
  BY <1>9, <1>10, <1>11

-----------------------------------------------------------------------------
(* Resolution and the interpreter: they call the others.                   *)
(* Resolution and the interpreter: where they go, and what they call.      *)
Code == EntryLabels \cup InstrLabels

LEMMA CodeShapes ==
    ASSUME NEW t \in Threads,
           \/ readType(t) \/ readIndex(t) \/ checkType(t) \/ lookup(t) \/ setInfo(t)
           \/ setResolved(t)
           \/ dispatch(t) \/ readOperand(t) \/ checkOpcode(t)
           \/ resolved(t) \/ rewriteOperand(t) \/ rewriteOpcode(t) \/ useQuick(t)
    PROVE  \/ Return(t)
           \/ \E l \in Code : Goto(t, l)
           \/ \E x, l : l \in Code /\ Call(t, Activation("find", x), l)
           \/ \E x, l : l \in Code /\ Call(t, Activation("resolve", x), l)
           \/ \E c : stack' = [stack EXCEPT ![t] = InitClass(c, Tail(@))]
<1> USE DEF Code, EntryLabels, InstrLabels
<1>1. CASE readType(t) \/ setResolved(t)
  BY <1>1 DEF readType, setResolved
<1>2. CASE readIndex(t) \/ lookup(t) \/ setInfo(t) \/ readOperand(t) \/ useQuick(t)
           \/ rewriteOpcode(t)
  BY <1>2 DEF readIndex, lookup, setInfo, readOperand, useQuick, rewriteOpcode
<1>3. CASE checkType(t)
  BY <1>3 DEF checkType
<1>4. CASE dispatch(t) \/ checkOpcode(t)
  BY <1>4 DEF dispatch, checkOpcode
<1>5. CASE resolved(t)
  BY <1>5 DEF resolved
<1>6. CASE rewriteOperand(t)
  BY <1>6 DEF rewriteOperand
<1> QED
  BY <1>1, <1>2, <1>3, <1>4, <1>5, <1>6

LEMMA CodeLabels ==
    ASSUME NEW l \in EntryLabels \cup InstrLabels
    PROVE  Elsewhere(l) /\ l \notin ClassLabels
BY DEF EntryLabels, InstrLabels, ClassLabels, Elsewhere, InitLabels

LEMMA CodeSafe ==
    ASSUME IInv, TypeOK', CInv, NEW t \in Threads,
           \/ readType(t) \/ readIndex(t) \/ checkType(t) \/ lookup(t) \/ setInfo(t)
           \/ setResolved(t)
           \/ dispatch(t) \/ readOperand(t) \/ checkOpcode(t)
           \/ resolved(t) \/ rewriteOperand(t) \/ rewriteOpcode(t) \/ useQuick(t)
    PROVE  CInv'
<1> USE DEF Code, EntryLabels, InstrLabels
<1>1. \E l \in Code : At(t, l)
  BY DEF readType, readIndex, checkType, lookup, setInfo, setResolved, dispatch,
     readOperand, checkOpcode, resolved, rewriteOperand, rewriteOpcode, useQuick
<1>2. stack[t] # <<>> /\ stack[t][1].at \notin InitLabels
  BY <1>1, AtTop, CodeLabels DEF Elsewhere
<1>3. Calm
  <2>1. UNCHANGED classVars
    BY DEF readType, readIndex, checkType, lookup, setInfo, setResolved, dispatch,
       readOperand, checkOpcode, resolved, rewriteOperand, rewriteOpcode, useQuick
  <2> QED
    BY <2>1 DEF Calm, classVars
<1>4. \/ Return(t)
      \/ \E l \in Code : Goto(t, l)
      \/ \E x, l : l \in Code /\ Call(t, Activation("find", x), l)
      \/ \E x, l : l \in Code /\ Call(t, Activation("resolve", x), l)
      \/ \E c : stack' = [stack EXCEPT ![t] = InitClass(c, Tail(@))]
  BY CodeShapes
<1>5. Elsewhere("find") /\ Elsewhere("resolve")
  BY DEF Elsewhere, InitLabels
<1>6. \A l \in Code : Elsewhere(l)
  BY CodeLabels
<1>7. \/ Return(t)
      \/ \E l : Elsewhere(l) /\ Goto(t, l)
      \/ \E k, x, l : Elsewhere(k) /\ Elsewhere(l) /\ Call(t, Activation(k, x), l)
      \/ \E c : stack' = [stack EXCEPT ![t] = InitClass(c, Tail(@))]
  BY <1>4, <1>5, <1>6
<1> QED
  BY <1>2, <1>3, <1>7, QuietSafe

LEMMA InstructionSafe ==
    ASSUME IInv, TypeOK', CInv, NEW t \in Threads, nextInstruction(t)
    PROVE  CInv'
<1>1. PICK a : a = Activation("dispatch", Main[t][position[t]])
  OBVIOUS
<1>2. /\ stack[t] = <<>> /\ stack'[t] = <<a>> /\ a.at = "dispatch" /\ UNCHANGED classVars
      /\ \A u \in Threads \ {t} : stack'[u] = stack[u]
  BY <1>1, Activated DEF nextInstruction, IInv, TypeOK, StacksTypeOK
<1>3. /\ Len(stack[t]) = 0 /\ Len(stack'[t]) = 1 /\ stack'[t][1] = a /\ Head(stack'[t]) = a
  BY <1>2
<1>4. Moves(stack[t], stack'[t], 1)
  BY <1>2, <1>3 DEF Moves, InitLabels
<1>5. Calm /\ WaitOK(t)'
  BY <1>2, <1>3 DEF Calm, classVars, WaitOK, At, Top
<1>6. Quiet(t)
  BY <1>2, <1>4 DEF Quiet
<1> QED
  BY <1>5, <1>6, QuietStep DEF IInv

-----------------------------------------------------------------------------
LEMMA InitBegins == Init => CInv
<1> SUFFICES ASSUME Init PROVE CInv
  OBVIOUS
<1>1. /\ \A t \in Threads : stack[t] = <<>> /\ Len(stack[t]) = 0
      /\ \A c \in Classes : flags[c] \in {"LINKED", "NONE"} /\ ran[c] = 0
  BY DEF Init, InitClasses
<1> QED
  BY <1>1 DEF CInv, InitOK, WaitOK, ClassOK, At, Begun

LEMMA NextSafe ==
    ASSUME IInv, TypeOK', CInv, NobodyRelinks, [Next]_vars
    PROVE  CInv'
<1>1. ASSUME NEW t \in Threads, ThreadStep(t) \/ interrupted(t) PROVE CInv'
  BY <1>1, FindSafe, LinkSafe, TestSafe, InitSafe, EndStep, CodeSafe, InstructionSafe
     DEF ThreadStep, ClassStep, interrupted
<1>2. CASE UNCHANGED vars
  BY <1>2 DEF vars, classVars, threadVars, CInv, InitOK, WaitOK, ClassOK, Initialising, At, Top
<1> QED
  BY <1>1, <1>2 DEF Next

(* With that, the three properties of a class that is being initialised    *)
(* hold.                                                                   *)
LEMMA Initialisation == Spec /\ []NobodyRelinks => []CInv
<1>1. IInv /\ IInv' /\ CInv /\ NobodyRelinks /\ [Next]_vars => CInv'
  <2>1. IInv' => TypeOK'
    BY DEF IInv
  <2> QED
    BY <2>1, NextSafe
<1> QED
  BY <1>1, InitBegins, Invariance, PTL DEF Spec

(* <clinit> of a class is run at most once, by however many threads the    *)
(* class is used and however they interleave in initClass.                 *)
THEOREM RunsOnce == Spec /\ []NobodyRelinks => []InitialisedOnce
<1>1. CInv => InitialisedOnce
  BY DEF CInv, ClassOK, InitialisedOnce
<1> QED
  BY <1>1, Initialisation, PTL

(* The static fields that <clinit> has set are not cleared again.          *)
THEOREM StaticsStay == Spec /\ []NobodyRelinks => []StaticsAreKept
<1>1. CInv => StaticsAreKept
  BY DEF CInv, ClassOK, StaticsAreKept
<1> QED
  BY <1>1, Initialisation, PTL

(* No thread waits in initClass for a class that nobody is initialising:   *)
(* objectNotifyAll at the end of initClass leaves nobody behind.           *)
THEOREM NobodyWaitsForNothing == Spec /\ []NobodyRelinks => []WaitersHaveInitialiser
<1>1. IInv /\ CInv => WaitersHaveInitialiser
  <2> SUFFICES ASSUME IInv, CInv, NEW t \in Threads, At(t, "waiting"), NEW c, c = Top(t).on
               PROVE  /\ flags[c] = "INITING"
                      /\ Initialising(tid[c], c)
    BY DEF WaitersHaveInitialiser, Initialising, InitLabels
  <2>1. c \in Classes
    BY ClassTop DEF ClassLabels
  <2> QED
    BY <2>1 DEF CInv, WaitOK, ClassOK
<1> QED
  BY <1>1, Initialisation, Invariance, PTL

-----------------------------------------------------------------------------
(* What nobody relinks amounts to in a program: when all classes have been *)
(* linked before the threads start (as by a first thread that has gone     *)
(* through them) no thread is ever inside linkClass, beyond its first      *)
(* test, nor in defineClass.                                               *)
LinkLabels == {"parsed", "super_found", "prepare", "allocate_table", "fill_table", "linked"}

Aloof(t) == \A k \in 1..Len(stack[t]) : stack[t][k].at \notin LinkLabels

LinkedInv == (\A c \in Classes : AtLeastLinked(c)) /\ (\A t \in Threads : Aloof(t))

(* The d activations that take the place of the first one of a stack.      *)
LEMMA StaysAloof ==
    ASSUME TypeOK, TypeOK', LinkedInv, NEW t \in Threads, stack[t] # <<>>,
           NEW d \in {0, 1, 2, 3}, Len(stack'[t]) = Len(stack[t]) - 1 + d,
           \A k \in 1..d : stack'[t][k].at \notin LinkLabels,
           \A k \in 2..Len(stack[t]) : stack'[t][k + (d - 1)] = stack[t][k],
           \A u \in Threads \ {t} : stack'[u] = stack[u]
    PROVE  \A u \in Threads : Aloof(u)'
<1>1. /\ Len(stack[t]) \in Nat \ {0} /\ Len(stack'[t]) \in Nat
      /\ \A k \in 1..Len(stack[t]) : stack[t][k].at \notin LinkLabels
  BY StackTypes DEF TypeOK, StacksTypeOK, LinkedInv, Aloof
<1>2. ASSUME NEW k \in 1..Len(stack'[t]), k > d
      PROVE  stack'[t][k].at \notin LinkLabels
  <2>1. k - (d - 1) \in 2..Len(stack[t]) /\ (k - (d - 1)) + (d - 1) = k
    BY <1>1, <1>2
  <2>2. stack'[t][(k - (d - 1)) + (d - 1)] = stack[t][k - (d - 1)]
    BY <2>1
  <2> QED
    BY <1>1, <2>1, <2>2
<1>3. Aloof(t)'
  BY <1>1, <1>2 DEF Aloof
<1> QED
  BY <1>3 DEF LinkedInv, Aloof

LEMMA ReturnsAloof ==
    ASSUME TypeOK, TypeOK', LinkedInv, NEW t \in Threads, stack[t] # <<>>, Return(t)
    PROVE  \A u \in Threads : Aloof(u)'
<1>1. stack \in [Threads -> Seq(Activations)] /\ stack[t] \in Seq(Activations)
  BY DEF TypeOK, StacksTypeOK
<1>2. stack'[t] = Tail(stack[t]) /\ \A u \in Threads \ {t} : stack'[u] = stack[u]
  BY <1>1 DEF Return
<1>3. /\ Len(stack[t]) \in Nat \ {0} /\ Len(stack'[t]) = Len(stack[t]) - 1
      /\ \A k \in 1..(Len(stack[t]) - 1) : stack'[t][k] = stack[t][k + 1]
  BY <1>1, <1>2
<1>4. \A k \in 2..Len(stack[t]) : k + (0 - 1) \in 1..(Len(stack[t]) - 1) /\ (k + (0 - 1)) + 1 = k
  BY <1>3
<1>5. \A k \in 2..Len(stack[t]) : stack'[t][k + (0 - 1)] = stack[t][k]
  <2> TAKE k \in 2..Len(stack[t])
  <2>1. stack'[t][k + (0 - 1)] = stack[t][(k + (0 - 1)) + 1]
    BY <1>3, <1>4
  <2> QED
    BY <1>4, <2>1
<1>6. /\ 0 \in {0, 1, 2, 3} /\ Len(stack'[t]) = Len(stack[t]) - 1 + 0
      /\ \A k \in 1..0 : stack'[t][k].at \notin LinkLabels
  BY <1>3
<1> QED
  BY <1>2, <1>5, <1>6, StaysAloof

LEMMA ReplacesAloof ==
    ASSUME TypeOK, TypeOK', LinkedInv, NEW t \in Threads, stack[t] # <<>>,
           NEW a, Replaces(t, a), a.at \notin LinkLabels
    PROVE  \A u \in Threads : Aloof(u)'
<1>1. stack \in [Threads -> Seq(Activations)] /\ stack[t] \in Seq(Activations)
  BY DEF TypeOK, StacksTypeOK
<1>2. stack'[t] = <<a>> \o Tail(stack[t]) /\ \A u \in Threads \ {t} : stack'[u] = stack[u]
  BY <1>1 DEF Replaces
<1>3. /\ Len(stack[t]) \in Nat \ {0} /\ Len(stack'[t]) = Len(stack[t]) /\ stack'[t][1] = a
      /\ \A k \in 2..Len(stack[t]) : stack'[t][k] = stack[t][k]
  BY <1>1, <1>2
<1>4. \A k \in 2..Len(stack[t]) : k + (1 - 1) = k
  BY <1>3
<1>5. \A k \in 1..1 : stack'[t][k].at \notin LinkLabels
  BY <1>3
<1> QED
  BY <1>2, <1>3, <1>4, <1>5, StaysAloof

LEMMA PushesAloof ==
    ASSUME TypeOK, TypeOK', LinkedInv, NEW t \in Threads, stack[t] # <<>>,
           NEW a, NEW b, Pushes(t, b, a), {a.at, b.at} \cap LinkLabels = {}
    PROVE  \A u \in Threads : Aloof(u)'
<1>1. stack \in [Threads -> Seq(Activations)] /\ stack[t] \in Seq(Activations)
  BY DEF TypeOK, StacksTypeOK
<1>2. stack'[t] = <<b, a>> \o Tail(stack[t]) /\ \A u \in Threads \ {t} : stack'[u] = stack[u]
  BY <1>1 DEF Pushes
<1>3. /\ Len(stack[t]) \in Nat \ {0} /\ Len(stack'[t]) = Len(stack[t]) + 1
      /\ stack'[t][1] = b /\ stack'[t][2] = a
      /\ \A k \in 2..Len(stack[t]) : stack'[t][k + 1] = stack[t][k]
  BY <1>1, <1>2
<1>4. \A k \in 2..Len(stack[t]) : k + (2 - 1) = k + 1
  BY <1>3
<1>5. /\ 2 \in {0, 1, 2, 3} /\ Len(stack'[t]) = Len(stack[t]) - 1 + 2
      /\ \A k \in 1..2 : stack'[t][k].at \notin LinkLabels
  BY <1>3
<1>6. \A k \in 2..Len(stack[t]) : stack'[t][k + (2 - 1)] = stack[t][k]
  BY <1>3, <1>4
<1> QED
  BY <1>2, <1>5, <1>6, StaysAloof

(* The ways a thread goes on that is not inside linkClass.                 *)
LEMMA GoesAloof ==
    ASSUME TypeOK, TypeOK', LinkedInv, NEW t \in Threads, stack[t] # <<>>,
           \/ Return(t)
           \/ \E l : l \notin LinkLabels /\ Goto(t, l)
           \/ \E l, x : l \notin LinkLabels /\ Become(t, Activation(l, x))
           \/ \E k, x, l : {k, l} \cap LinkLabels = {} /\ Call(t, Activation(k, x), l)
           \/ \E c : stack' = [stack EXCEPT ![t] = InitClass(c, Tail(@))]
    PROVE  \A u \in Threads : Aloof(u)'
<1>1. stack[t][1] \in Activations /\ stack[t][1].at \notin LinkLabels
  <2>1. 1 \in 1..Len(stack[t])
    BY StackTypes
  <2> QED
    BY <2>1, StackTypes DEF LinkedInv, Aloof
<1>2. \A l : [stack[t][1] EXCEPT !.at = l].at = l
  BY <1>1, Relabelled
<1>3. \A l, x : Activation(l, x).at = l
  BY Activated
<1>4. CASE Return(t)
  BY <1>4, ReturnsAloof
<1>5. ASSUME NEW l, l \notin LinkLabels, Goto(t, l) PROVE \A u \in Threads : Aloof(u)'
  <2>1. PICK a : a = [stack[t][1] EXCEPT !.at = l]
    OBVIOUS
  <2>2. a.at = l /\ Replaces(t, a)
    BY <1>2, <1>5, <2>1, Shapes
  <2> QED
    BY <1>5, <2>2, ReplacesAloof
<1>6. ASSUME NEW l, NEW x, l \notin LinkLabels, Become(t, Activation(l, x))
      PROVE  \A u \in Threads : Aloof(u)'
  <2>1. PICK a : a = Activation(l, x)
    OBVIOUS
  <2>2. a.at = l /\ Replaces(t, a)
    BY <1>3, <1>6, <2>1, Shapes
  <2> QED
    BY <1>6, <2>2, ReplacesAloof
<1>7. ASSUME NEW k, NEW x, NEW l, {k, l} \cap LinkLabels = {}, Call(t, Activation(k, x), l)
      PROVE  \A u \in Threads : Aloof(u)'
  <2>1. PICK a, b : a = [stack[t][1] EXCEPT !.at = l] /\ b = Activation(k, x)
    OBVIOUS
  <2>2. a.at = l /\ b.at = k /\ Pushes(t, b, a)
    BY <1>2, <1>3, <1>7, <2>1, Shapes
  <2> QED
    BY <1>7, <2>2, PushesAloof
<1>8. ASSUME NEW c, stack' = [stack EXCEPT ![t] = InitClass(c, Tail(@))]
      PROVE  \A u \in Threads : Aloof(u)'
  <2>1. PICK a, b : a = Activation("lock", c) /\ b = Activation("link", c)
    OBVIOUS
  <2>2. a.at = "lock" /\ b.at = "link" /\ Pushes(t, b, a)
    BY <1>3, <1>8, <2>1 DEF InitClass, Pushes
  <2>3. {"lock", "link"} \cap LinkLabels = {}
    BY DEF LinkLabels
  <2> QED
    BY <2>2, <2>3, PushesAloof
<1> QED
  BY <1>4, <1>5, <1>6, <1>7, <1>8

LEMMA LinkedFlags ==
    ASSUME IInv, LinkedInv, [Next]_vars
    PROVE  \A c \in Classes : AtLeastLinked(c)'
<1>1. \A c \in Classes : AtLeastLinked(c) /\ flags[c] # "NONE"
  BY DEF LinkedInv, AtLeastLinked
<1>2. CASE UNCHANGED flags
  BY <1>1, <1>2 DEF AtLeastLinked
<1>3. ASSUME NEW c, NEW f \in {"LINKED", "INITING", "BAD", "INITED"},
             flags' = [flags EXCEPT ![c] = f]
      PROVE  \A x \in Classes : AtLeastLinked(x)'
  BY <1>1, <1>3 DEF AtLeastLinked, IInv, TypeOK, ClassesTypeOK
<1>4. ASSUME NEW t \in Threads, addClassToHash(t) PROVE UNCHANGED flags
  <2>1. At(t, "parsed")
    BY <1>4 DEF addClassToHash
  <2> QED
    BY <1>1, <1>4, <2>1, ClassTop DEF addClassToHash, ClassLabels
<1>5. ASSUME NEW t \in Threads, ClassStep(t) \/ interrupted(t)
      PROVE  UNCHANGED flags \/ \E c, f : /\ f \in {"LINKED", "INITING", "BAD", "INITED"}
                                          /\ flags' = [flags EXCEPT ![c] = f]
  <2>1. CASE \/ findHashedClass(t) \/ loadSystemClass(t) \/ setSuper(t) \/ linkClass(t)
             \/ prepareFields(t) \/ allocTable(t) \/ fillTable(t) \/ initSuper(t)
             \/ superInitialised(t) \/ runBody(t) \/ interrupted(t)
    BY <2>1 DEF findHashedClass, loadSystemClass, setSuper, linkClass, prepareFields, allocTable,
       fillTable, initSuper, superInitialised, runBody, interrupted, interruptWait, classVars
  <2>2. CASE addClassToHash(t)
    BY <1>4, <2>2
  <2>3. CASE setLinked(t)
    BY <2>3 DEF setLinked
  <2>4. CASE testState(t)
    BY <2>4 DEF testState
  <2>5. CASE endInit(t)
    BY <2>5 DEF endInit
  <2> QED
    BY <1>5, <2>1, <2>2, <2>3, <2>4, <2>5 DEF ClassStep
<1>6. ASSUME NEW t \in Threads, ThreadStep(t), ~ClassStep(t) PROVE UNCHANGED flags
  BY <1>6 DEF ThreadStep, classVars, readType, readIndex, checkType, lookup, setInfo, setResolved,
     nextInstruction, dispatch, readOperand, checkOpcode, resolved, rewriteOperand,
     rewriteOpcode, useQuick
<1>7. UNCHANGED vars => UNCHANGED flags
  BY DEF vars, classVars
<1> QED
  BY <1>2, <1>3, <1>5, <1>6, <1>7 DEF Next

LEMMA ClassesAloof ==
    ASSUME IInv, TypeOK', LinkedInv, NEW t \in Threads, ClassStep(t) \/ interruptWait(t)
    PROVE  \A u \in Threads : Aloof(u)'
<1> DEFINE c == Top(t).on
<1>0. TypeOK
  BY DEF IInv
<1>1. /\ stack[t] # <<>> /\ Top(t) = stack[t][1] /\ stack[t][1].at \in ClassLabels \ LinkLabels
      /\ stack[t][1] \in Activations /\ c \in Classes /\ AtLeastLinked(c) /\ flags[c] # "NONE"
  <2>1. PICK l \in ClassLabels : At(t, l)
    BY DEF ClassStep, findHashedClass, loadSystemClass, addClassToHash, setSuper, linkClass,
       prepareFields, allocTable, fillTable, setLinked, testState, initSuper, superInitialised,
       runBody, endInit, interruptWait, ClassLabels
  <2>2. /\ stack[t] # <<>> /\ Top(t) = stack[t][1] /\ stack[t][1].at = l
        /\ stack[t][1] \in Activations /\ c \in Classes
    BY <2>1, ClassTop
  <2>3. 1 \in 1..Len(stack[t])
    BY <1>0, <2>2, StackTypes
  <2> QED
    BY <2>1, <2>2, <2>3 DEF LinkedInv, Aloof, AtLeastLinked
<1>2. \A l \in LinkLabels : ~At(t, l)
  BY <1>1 DEF At
<1>3. \/ findHashedClass(t) \/ linkClass(t) \/ testState(t) \/ initSuper(t)
      \/ superInitialised(t) \/ runBody(t) \/ endInit(t) \/ interruptWait(t)
  BY <1>1, <1>2 DEF ClassStep, loadSystemClass, addClassToHash, setSuper, prepareFields,
     allocTable, fillTable, setLinked, LinkLabels
<1>4. CASE findHashedClass(t) \/ linkClass(t)
  <2>1. Return(t) \/ \E x : Become(t, Activation("link", x))
    BY <1>1, <1>4 DEF findHashedClass, linkClass, Found
  <2>2. "link" \notin LinkLabels
    BY DEF LinkLabels
  <2> QED
    BY <1>0, <1>1, <2>1, <2>2, GoesAloof
<1>5. CASE testState(t) \/ interruptWait(t)
  <2>1. Return(t) \/ \E l : l \in {"waiting", "init_super", "woken"} /\ Goto(t, l)
    BY <1>5 DEF testState, interruptWait
  <2>2. {"waiting", "init_super", "woken"} \cap LinkLabels = {}
    BY DEF LinkLabels
  <2> QED
    BY <1>0, <1>1, <2>1, <2>2, GoesAloof
<1>6. CASE initSuper(t)
  <2>1. CASE Goto(t, "body")
    <3>1. "body" \notin LinkLabels
      BY DEF LinkLabels
    <3> QED
      BY <1>0, <1>1, <2>1, <3>1, GoesAloof
  <2>2. CASE stack' = [stack EXCEPT ![t] =
             InitClass(Super[c], <<[Head(@) EXCEPT !.at = "super_initialised"]>> \o Tail(@))]
    <3>1. PICK a, b, e : /\ a = [stack[t][1] EXCEPT !.at = "super_initialised"]
                         /\ b = Activation("link", Super[c]) /\ e = Activation("lock", Super[c])
      OBVIOUS
    <3>2. a.at = "super_initialised"
      BY <1>1, <3>1, Relabelled
    <3>3. b.at = "link" /\ e.at = "lock"
      BY <3>1, Activated
    <3>4. stack[t] \in Seq(Activations) /\ Head(stack[t]) = stack[t][1]
          /\ stack \in [Threads -> Seq(Activations)]
      BY <1>0, <1>1 DEF TypeOK, StacksTypeOK
    <3>5. /\ stack'[t] = <<b, e>> \o (<<a>> \o Tail(stack[t]))
          /\ \A u \in Threads \ {t} : stack'[u] = stack[u]
      BY <2>2, <3>1, <3>4 DEF InitClass
    <3>6. /\ Len(stack[t]) \in Nat \ {0} /\ Len(stack'[t]) = Len(stack[t]) - 1 + 3
          /\ stack'[t][1] = b /\ stack'[t][2] = e /\ stack'[t][3] = a
          /\ \A k \in 2..Len(stack[t]) : stack'[t][k + 2] = stack[t][k]
      BY <1>1, <3>4, <3>5
    <3>7. \A k \in 2..Len(stack[t]) : k + (3 - 1) = k + 2
      BY <3>6
    <3>8. \A k \in 1..3 : stack'[t][k].at \notin LinkLabels
      BY <3>2, <3>3, <3>6 DEF LinkLabels
    <3> QED
      BY <1>0, <1>1, <3>5, <3>6, <3>7, <3>8, StaysAloof
  <2> QED
    BY <1>6, <2>1, <2>2 DEF initSuper, executeStaticMethod
<1>7. CASE superInitialised(t)
  <2>1. \E l : l \in {"failed", "body"} /\ Goto(t, l)
    BY <1>7 DEF superInitialised, executeStaticMethod
  <2>2. {"failed", "body"} \cap LinkLabels = {}
    BY DEF LinkLabels
  <2> QED
    BY <1>0, <1>1, <2>1, <2>2, GoesAloof
<1>8. CASE runBody(t)
  <2>1. CASE \E l : l \in {"failed", "initialised"} /\ Goto(t, l)
    <3>1. {"failed", "initialised"} \cap LinkLabels = {}
      BY DEF LinkLabels
    <3> QED
      BY <1>0, <1>1, <2>1, <3>1, GoesAloof
  <2>2. CASE stack' = [stack EXCEPT ![t] =
             <<Activation("dispatch", Body[c][Top(t).next]),
               [Top(t) EXCEPT !.next = @ + 1]>> \o Tail(@)]
    <3>1. PICK a, b : /\ a = [Top(t) EXCEPT !.next = @ + 1]
                      /\ b = Activation("dispatch", Body[c][Top(t).next])
      OBVIOUS
    <3>2. a.at = stack[t][1].at
      BY <1>1, <3>1 DEF Activations
    <3>3. b.at = "dispatch"
      BY <3>1, Activated
    <3>4. Pushes(t, b, a)
      BY <2>2, <3>1 DEF Pushes
    <3>5. {a.at, b.at} \cap LinkLabels = {}
      BY <1>1, <3>2, <3>3 DEF LinkLabels
    <3> QED
      BY <1>0, <1>1, <3>4, <3>5, PushesAloof
  <2> QED
    BY <1>8, <2>1, <2>2 DEF runBody
<1>9. CASE endInit(t)
  <2>1. PICK s : s = [stack EXCEPT ![t] = Tail(@)]
    OBVIOUS
  <2>2. stack \in [Threads -> Seq(Activations)] /\ stack[t] \in Seq(Activations)
    BY <1>0 DEF TypeOK, StacksTypeOK
  <2>3. ASSUME NEW u \in Threads
        PROVE  /\ s[u] \in Seq(Activations)
               /\ \A k \in 1..Len(s[u]) : s[u][k].at \notin LinkLabels
    <3>1. CASE u = t
      <4>1. s[t] = Tail(stack[t])
        BY <2>1, <2>2
      <4>2. /\ s[t] \in Seq(Activations)
            /\ \A k \in 1..Len(s[t]) : s[t][k] = stack[t][k + 1] /\ k + 1 \in 1..Len(stack[t])
        BY <1>1, <2>2, <4>1
      <4> QED
        BY <3>1, <4>2 DEF LinkedInv, Aloof
    <3>2. CASE u # t
      BY <2>1, <2>2, <3>2 DEF LinkedInv, Aloof
    <3> QED
      BY <3>1, <3>2
  <2>4. ASSUME NEW u \in Threads PROVE Aloof(u)'
    <3>1. stack'[u] = WakeAll(s, c)[u]
      BY <1>9, <2>1 DEF endInit
    <3>2. /\ Len(stack'[u]) = Len(s[u])
          /\ \A k \in 2..Len(s[u]) : stack'[u][k] = s[u][k]
          /\ s[u] # <<>> => stack'[u][1] = s[u][1] \/ stack'[u][1].at = "woken"
      BY <2>3, <3>1, Woken
    <3>3. \A k \in 1..Len(s[u]) : stack'[u][k] = s[u][k] \/ stack'[u][k].at = "woken"
      BY <2>3, <3>2
    <3>4. "woken" \notin LinkLabels
      BY DEF LinkLabels
    <3> QED
      BY <2>3, <3>2, <3>3, <3>4 DEF Aloof
  <2> QED
    BY <2>4
<1> QED
  BY <1>3, <1>4, <1>5, <1>6, <1>7, <1>8, <1>9

LEMMA CodeAloof ==
    ASSUME IInv, TypeOK', LinkedInv, NEW t \in Threads, ThreadStep(t), ~ClassStep(t)
    PROVE  \A u \in Threads : Aloof(u)'
<1>0. TypeOK
  BY DEF IInv
<1>1. CASE nextInstruction(t)
  <2>1. PICK a : a = Activation("dispatch", Main[t][position[t]])
    OBVIOUS
  <2>2. /\ stack'[t] = <<a>> /\ a.at = "dispatch"
        /\ \A u \in Threads \ {t} : stack'[u] = stack[u]
    BY <1>0, <1>1, <2>1, Activated DEF nextInstruction, TypeOK, StacksTypeOK
  <2>3. Len(stack'[t]) = 1 /\ stack'[t][1] = a
    BY <2>2
  <2> QED
    BY <2>2, <2>3 DEF LinkedInv, Aloof, LinkLabels
<1>2. CASE ~nextInstruction(t)
  <2>1. \/ Return(t)
        \/ \E l \in Code : Goto(t, l)
        \/ \E x, l : l \in Code /\ Call(t, Activation("find", x), l)
        \/ \E x, l : l \in Code /\ Call(t, Activation("resolve", x), l)
        \/ \E c : stack' = [stack EXCEPT ![t] = InitClass(c, Tail(@))]
    BY <1>2, CodeShapes DEF ThreadStep
  <2>2. stack[t] # <<>>
    BY <1>2 DEF ThreadStep, At, readType, readIndex, checkType, lookup, setInfo, setResolved,
       dispatch, readOperand, checkOpcode, resolved, rewriteOperand, rewriteOpcode, useQuick
  <2>3. (Code \cup {"find", "resolve"}) \cap LinkLabels = {}
    BY DEF Code, LinkLabels, EntryLabels, InstrLabels
  <2> QED
    BY <1>0, <2>1, <2>2, <2>3, GoesAloof
<1> QED
  BY <1>1, <1>2

LEMMA LinkedStays == ASSUME Linked = Classes PROVE Spec => []LinkedInv
<1>1. Init => LinkedInv
  BY DEF Init, InitClasses, LinkedInv, AtLeastLinked, Aloof
<1>2. ASSUME IInv, TypeOK', LinkedInv, [Next]_vars PROVE LinkedInv'
  <2>1. \A c \in Classes : AtLeastLinked(c)'
    BY <1>2, LinkedFlags
  <2>2. ASSUME NEW t \in Threads, ThreadStep(t) \/ interrupted(t)
        PROVE  \A u \in Threads : Aloof(u)'
    BY <1>2, <2>2, ClassesAloof, CodeAloof DEF interrupted
  <2>3. CASE UNCHANGED vars
    <3>1. UNCHANGED stack
      BY <2>3 DEF vars, threadVars
    <3>2. \A u \in Threads : Aloof(u)'
      BY <1>2, <3>1 DEF LinkedInv, Aloof
    <3> QED
      BY <2>1, <3>2 DEF LinkedInv
  <2> QED
    BY <1>2, <2>1, <2>2, <2>3 DEF LinkedInv, Next
<1>3. IInv' => TypeOK'
  BY DEF IInv
<1> QED
  BY <1>1, <1>2, <1>3, Invariance, PTL DEF Spec

LEMMA NobodyRelinksLinked == ASSUME Linked = Classes PROVE Spec => []NobodyRelinks
<1>1. IInv /\ LinkedInv => NobodyRelinks
  <2> SUFFICES ASSUME IInv, LinkedInv, NEW t \in Threads, At(t, "prepare") \/ At(t, "linked")
               PROVE  FALSE
    BY DEF NobodyRelinks
  <2>1. stack[t] # <<>> /\ stack[t][1].at \in {"prepare", "linked"} /\ 1 \in 1..Len(stack[t])
    BY ClassTop, StackTypes DEF ClassLabels, IInv
  <2> QED
    BY <2>1 DEF LinkedInv, Aloof, LinkLabels
<1> QED
  BY <1>1, LinkedStays, Invariance, PTL

(* Once all classes are linked, initClass keeps its promises whatever the  *)
(* threads do: <clinit> runs once, its static fields stay, nobody waits    *)
(* for a class that nobody initialises.                                    *)
THEOREM LinkedAreInitialised ==
    ASSUME Linked = Classes
    PROVE  Spec => [](InitialisedOnce /\ StaticsAreKept /\ WaitersHaveInitialiser)
BY NobodyRelinksLinked, RunsOnce, StaticsStay, NobodyWaitsForNothing, PTL

-----------------------------------------------------------------------------
(* The use of classes.  The entries of the static fields and methods that  *)
(* byte codes use:                                                         *)
StaticRefs == {Ref[i] : i \in {j \in Instrs : Kind[j] = "static"}}

(* No <clinit> has a byte code that shares its entry with one of those.    *)
(* Where one does, as in a class whose <clinit> reads a static field of    *)
(* its own, the byte code becomes quick while the class is initialised,    *)
(* and other threads that share it do not wait any more (interp.c:1140).   *)
BodiesApart == \A c \in Classes : \A n \in 1..Len(Body[c]) : Ref[Body[c][n]] \notin StaticRefs

(* Where a thread is that initialises a class or waits for it.             *)
LockLabels == InitLabels \cup {"lock", "woken", "waiting"}

(* Activation a returns with class c ready, or with an exception.          *)
Gets(a, c) == a.on = c /\ a.at \in EntryLabels \cup LockLabels

(* What an activation b counts on from a, which it called; and where the   *)
(* entries of static fields, and the byte codes that use them, are: the    *)
(* last on the stack.                                                      *)
Counts(b, a) ==
    /\ b.at = "lookup" /\ b.on \in StaticRefs => Gets(a, ClassOf[b.on])
    /\ b.at = "resolved" /\ Kind[b.on] = "new" => Gets(a, Ref[b.on])
    /\ b.at = "resolved" /\ Kind[b.on] = "static" => a.at \in EntryLabels /\ a.on = Ref[b.on]
    /\ a.at \in EntryLabels /\ a.on \in StaticRefs => b.at = "resolved" /\ Ref[b.on] = a.on
    /\ a.at \in InstrLabels => Ref[a.on] \notin StaticRefs

(* What the first activation of a thread knows.                            *)
Sure(t, a) ==
    /\ a.at = "lookup" /\ a.on \in StaticRefs /\ ~exception[t] => UsableBy(t, ClassOf[a.on])
    /\ a.at \in {"set_info", "set_resolved"} => ~Raw(a.on)
    /\ a.at = "resolved" /\ Kind[a.on] = "new" /\ ~exception[t] => UsableBy(t, Ref[a.on])
    /\ a.at = "resolved" /\ Kind[a.on] = "static" /\ ~exception[t] => ~Raw(Ref[a.on])
    /\ a.at \in {"rewrite_1", "rewrite_2", "rewrite_opcode"} => Kind[a.on] # "static"
    /\ a.at = "use" /\ Kind[a.on] = "new" => UsableBy(t, Ref[a.on])
    /\ a.at = "quick" /\ Kind[a.on] = "static" => flags[ClassOf[Ref[a.on]]] = "INITED"
    /\ a.at = "failed" => exception[t]

SureLabels == {"lookup", "set_info", "set_resolved", "resolved", "rewrite_1", "rewrite_2",
               "rewrite_opcode", "use", "quick", "failed"}

Chain(t) == \A k \in 2..Len(stack[t]) : Counts(stack[t][k], stack[t][k - 1])
FirstSure(t) == stack[t] # <<>> => Sure(t, stack[t][1])

(* A static field or method that was resolved, or is used by a quick byte  *)
(* code, belongs to an initialised class.                                  *)
StaticsReady ==
    /\ \A e \in StaticRefs : ~Raw(e) => flags[ClassOf[e]] = "INITED"
    /\ \A i \in Instrs : Kind[i] = "static" /\ code[i].opcode = "quick" =>
                            flags[ClassOf[Ref[i]]] = "INITED"

UInv == StaticsReady /\ \A t \in Threads : Chain(t) /\ FirstSure(t)

LEMMA StaticTypes ==
    /\ StaticRefs \subseteq Refs
    /\ \A e \in StaticRefs : ClassOf[e] \in Classes /\ e \in Entries /\ e \notin Classes
    /\ \A i \in Instrs : Kind[i] = "static" => Ref[i] \in StaticRefs
    /\ \A i \in Instrs : Kind[i] = "new" => Ref[i] \in Classes
<1>1. \A i \in Instrs : Kind[i] = "static" => Ref[i] \in Refs /\ ClassOf[Ref[i]] \in Classes
  BY CodeAssumption
<1>2. \A i \in Instrs : Kind[i] = "new" => Ref[i] \in Classes
  BY CodeAssumption
<1> QED
  BY <1>1, <1>2, CodeAssumption DEF StaticRefs, Entries

LEMMA LabelsApart ==
    /\ EntryLabels \cap (LockLabels \cup InstrLabels) = {} /\ LockLabels \cap InstrLabels = {}
    /\ LockLabels \subseteq ClassLabels /\ ClassLabels \cap (EntryLabels \cup InstrLabels) = {}
    /\ SureLabels \cap ClassLabels = {"failed"}
BY DEF EntryLabels, LockLabels, InstrLabels, InitLabels, ClassLabels, SureLabels

(* The stack of the thread that takes a step.                              *)
LEMMA ChainKeeps ==
    ASSUME TypeOK, TypeOK', NEW t \in Threads, stack[t] # <<>>, Chain(t),
           NEW m \in {0, 1, 2, 3}, Len(stack'[t]) = Len(stack[t]) - 1 + m,
           \A k \in 2..Len(stack[t]) : stack'[t][k + (m - 1)] = stack[t][k],
           \A k \in 2..m : Counts(stack'[t][k], stack'[t][k - 1]),
           m >= 1 /\ Len(stack[t]) >= 2 => Counts(stack[t][2], stack'[t][m])
    PROVE  Chain(t)'
<1>1. Len(stack[t]) \in Nat \ {0} /\ Len(stack'[t]) \in Nat
  BY StackTypes
<1>2. SUFFICES ASSUME NEW k \in 2..Len(stack'[t]) PROVE Counts(stack'[t][k], stack'[t][k - 1])
  BY DEF Chain, Counts, Gets
<1>3. CASE k <= m
  BY <1>3
<1>4. CASE k = m + 1
  <2>1. Len(stack[t]) >= 2 /\ m >= 1 /\ 2 \in 2..Len(stack[t]) /\ 2 + (m - 1) = k /\ k - 1 = m
    BY <1>1, <1>4
  <2>2. stack'[t][k] = stack[t][2]
    BY <2>1
  <2> QED
    BY <2>1, <2>2
<1>5. CASE k > m + 1
  <2>1. PICK j \in 3..Len(stack[t]) : k = j + (m - 1)
    <3>1. k - (m - 1) \in 3..Len(stack[t]) /\ k = (k - (m - 1)) + (m - 1)
      BY <1>1, <1>5
    <3> QED
      BY <3>1
  <2>2. j - 1 \in 2..Len(stack[t]) /\ j \in 2..Len(stack[t]) /\ k - 1 = (j - 1) + (m - 1)
    BY <1>1, <2>1
  <2>3. stack'[t][k] = stack[t][j] /\ stack'[t][k - 1] = stack[t][j - 1]
    BY <2>1, <2>2
  <2> QED
    BY <2>2, <2>3 DEF Chain
<1> QED
  BY <1>1, <1>3, <1>4, <1>5

Mine(t) == Chain(t) /\ FirstSure(t)

LEMMA MineReplaces ==
    ASSUME TypeOK, TypeOK', NEW t \in Threads, stack[t] # <<>>, Mine(t),
           NEW a, Replaces(t, a), Sure(t, a)',
           \A b \in Activations : Counts(b, stack[t][1]) => Counts(b, a)
    PROVE  Mine(t)'
<1>1. stack \in [Threads -> Seq(Activations)] /\ stack[t] \in Seq(Activations)
  BY DEF TypeOK, StacksTypeOK
<1>2. stack'[t] = <<a>> \o Tail(stack[t])
  BY <1>1 DEF Replaces
<1>3. /\ Len(stack[t]) \in Nat \ {0} /\ Len(stack'[t]) = Len(stack[t]) - 1 + 1 /\ stack'[t][1] = a
      /\ \A k \in 2..Len(stack[t]) : stack'[t][k + (1 - 1)] = stack[t][k]
  BY <1>1, <1>2
<1>4. Len(stack[t]) >= 2 => Counts(stack[t][2], a)
  <2>1. SUFFICES ASSUME Len(stack[t]) >= 2 PROVE Counts(stack[t][2], a)
    OBVIOUS
  <2>2. 2 \in 2..Len(stack[t]) /\ stack[t][2] \in Activations
    BY <1>1, <1>3, <2>1
  <2>3. Counts(stack[t][2], stack[t][2 - 1])
    BY <2>2 DEF Mine, Chain
  <2> QED
    BY <2>2, <2>3
<1>5. \A k \in 2..1 : Counts(stack'[t][k], stack'[t][k - 1])
  OBVIOUS
<1>6. Chain(t)'
  BY <1>3, <1>4, <1>5, ChainKeeps DEF Mine
<1> QED
  BY <1>3, <1>6 DEF Mine, FirstSure

LEMMA MinePushes ==
    ASSUME TypeOK, TypeOK', NEW t \in Threads, stack[t] # <<>>, Mine(t),
           NEW a, NEW b, Pushes(t, b, a), Sure(t, b)', Counts(a, b),
           \A x \in Activations : Counts(x, stack[t][1]) => Counts(x, a)
    PROVE  Mine(t)'
<1>1. stack \in [Threads -> Seq(Activations)] /\ stack[t] \in Seq(Activations)
  BY DEF TypeOK, StacksTypeOK
<1>2. stack'[t] = <<b, a>> \o Tail(stack[t])
  BY <1>1 DEF Pushes
<1>3. /\ Len(stack[t]) \in Nat \ {0} /\ Len(stack'[t]) = Len(stack[t]) - 1 + 2
      /\ stack'[t][1] = b /\ stack'[t][2] = a
      /\ \A k \in 2..Len(stack[t]) : stack'[t][k + (2 - 1)] = stack[t][k]
  BY <1>1, <1>2
<1>4. Len(stack[t]) >= 2 => Counts(stack[t][2], a)
  <2>1. SUFFICES ASSUME Len(stack[t]) >= 2 PROVE Counts(stack[t][2], a)
    OBVIOUS
  <2>2. 2 \in 2..Len(stack[t]) /\ stack[t][2] \in Activations
    BY <1>1, <1>3, <2>1
  <2>3. Counts(stack[t][2], stack[t][2 - 1])
    BY <2>2 DEF Mine, Chain
  <2> QED
    BY <2>2, <2>3
<1>5. \A k \in 2..2 : Counts(stack'[t][k], stack'[t][k - 1])
  BY <1>3
<1>6. Chain(t)'
  BY <1>3, <1>4, <1>5, ChainKeeps DEF Mine
<1> QED
  BY <1>3, <1>6 DEF Mine, FirstSure

(* What the caller is sure of after a return.                              *)
Earns(t, a) ==
    \/ exception'[t]
    \/ a.at \notin EntryLabels \cup LockLabels
    \/ a.at \in LockLabels /\ UsableBy(t, a.on)'
    \/ a.at \in EntryLabels /\ a.on \notin Classes /\ ~Raw(a.on)'

LEMMA Returned ==
    ASSUME TypeOK, NEW t \in Threads, Return(t)
    PROVE  stack'[t] = Tail(stack[t])
BY DEF Return, TypeOK, StacksTypeOK

LEMMA MineReturns ==
    ASSUME IInv, TypeOK', NEW t \in Threads, stack[t] # <<>>, Mine(t),
           stack'[t] = Tail(stack[t]), NEW a, a = stack[t][1],
           \/ Earns(t, a)
           \/ Len(stack[t]) >= 2 => stack[t][2].at = "resolved" /\ Kind[stack[t][2].on] = "test"
    PROVE  Mine(t)'
<1>1. TypeOK /\ ThreadOK(t)
  BY DEF IInv
<1>2. stack \in [Threads -> Seq(Activations)] /\ stack[t] \in Seq(Activations)
  BY <1>1 DEF TypeOK, StacksTypeOK
<1>3. /\ Len(stack[t]) \in Nat \ {0} /\ Len(stack'[t]) = Len(stack[t]) - 1 + 0
      /\ \A k \in 2..Len(stack[t]) : stack'[t][k + (0 - 1)] = stack[t][k]
      /\ stack'[t] # <<>> => Len(stack[t]) >= 2 /\ stack'[t][1] = stack[t][2]
  BY <1>2
<1>4. \A k \in 2..0 : Counts(stack'[t][k], stack'[t][k - 1])
  OBVIOUS
<1>5. Chain(t)'
  <2>1. Chain(t) /\ 0 \in {0, 1, 2, 3} /\ ~(0 >= 1)
    BY DEF Mine
  <2>2. ~(0 >= 1 /\ Len(stack[t]) >= 2)
    BY <2>1
  <2> QED
    BY <1>1, <1>3, <1>4, <2>1, <2>2, ChainKeeps
<1>6. ASSUME Len(stack[t]) >= 2, NEW b, b = stack[t][2] PROVE Sure(t, b)'
  <2>1. 2 \in 2..Len(stack[t]) /\ b \in Activations /\ a \in Activations
    BY <1>2, <1>3, <1>6
  <2>2. Counts(b, a) /\ b.at \in CallLabels
    BY <1>1, <1>6, <2>1 DEF Mine, Chain, ThreadOK, Waits
  <2>3. b.at = "resolved" => b.on \in Instrs
    BY <2>1, Subjects DEF InstrLabels
  <2>4. CASE b.at = "resolved" /\ Kind[b.on] = "test"
    BY <2>4 DEF Sure
  <2>5. CASE Earns(t, a)
    <3>1. b.at = "lookup" /\ b.on \in StaticRefs /\ ~exception'[t] => UsableBy(t, ClassOf[b.on])'
      BY <2>2, <2>5, StaticTypes, LabelsApart DEF Counts, Gets, Earns
    <3>2. b.at = "resolved" /\ Kind[b.on] = "new" /\ ~exception'[t] => UsableBy(t, Ref[b.on])'
      BY <2>2, <2>3, <2>5, StaticTypes, LabelsApart DEF Counts, Gets, Earns
    <3>3. b.at = "resolved" /\ Kind[b.on] = "static" /\ ~exception'[t] => ~Raw(Ref[b.on])'
      BY <2>2, <2>3, <2>5, StaticTypes, LabelsApart DEF Counts, Gets, Earns
    <3>4. b.at \in SureLabels => b.at \in {"lookup", "resolved"}
      BY <2>2 DEF CallLabels, SureLabels
    <3> QED
      BY <3>1, <3>2, <3>3, <3>4 DEF Sure, SureLabels
  <2>6. \/ Earns(t, a)
        \/ b.at = "resolved" /\ Kind[b.on] = "test"
    BY <1>6
  <2> QED
    BY <2>4, <2>5, <2>6
<1>7. ASSUME stack'[t] # <<>> PROVE Sure(t, stack[t][1])'
  <2>1. PICK b : b = stack[t][2]
    OBVIOUS
  <2>2. Sure(t, b)' /\ stack'[t][1] = b
    BY <1>3, <1>6, <1>7, <2>1
  <2> QED
    BY <2>2 DEF Sure
<1> QED
  BY <1>5, <1>7 DEF Mine, FirstSure

-----------------------------------------------------------------------------
(* The class that is initialised stays so, and the one that is being       *)
(* initialised stays with its thread until that ends it.                   *)
LEMMA FlagsStay ==
    ASSUME IInv, CInv, NobodyRelinks, NEW t \in Threads, ThreadStep(t) \/ interrupted(t),
           NEW c \in Classes
    PROVE  /\ flags[c] = "INITED" => flags'[c] = "INITED"
           /\ flags[c] = "INITING" => \/ flags'[c] = "INITING" /\ tid'[c] = tid[c]
                                      \/ endInit(t) /\ c = Top(t).on /\ tid[c] = t
<1>1. flags \in [Classes -> Flags] /\ tid \in [Classes -> Threads \cup {Nil}]
  BY DEF IInv, TypeOK, ClassesTypeOK
<1>2. CASE UNCHANGED <<flags, tid>>
  BY <1>2
<1>3. CASE addClassToHash(t)
  BY <1>1, <1>3 DEF addClassToHash
<1>4. CASE setLinked(t)
  BY <1>1, <1>4 DEF setLinked, NobodyRelinks, Begun
<1>5. CASE testState(t)
  BY <1>1, <1>5 DEF testState
<1>6. CASE endInit(t)
  <2>1. PICK l \in InitLabels : At(t, l)
    BY <1>6 DEF endInit, InitLabels
  <2>2. flags[Top(t).on] = "INITING" /\ tid[Top(t).on] = t
    BY <2>1, OwnClass
  <2>3. UNCHANGED tid /\ \E f : flags' = [flags EXCEPT ![Top(t).on] = f]
    BY <1>6 DEF endInit
  <2> QED
    BY <1>1, <1>6, <2>2, <2>3
<1>7. CASE ThreadStep(t) /\ ~ClassStep(t)
  BY <1>2, <1>7 DEF ThreadStep, classVars, readType, readIndex, checkType, lookup, setInfo,
     setResolved, nextInstruction, dispatch, readOperand, checkOpcode, resolved, rewriteOperand,
     rewriteOpcode, useQuick
<1>8. CASE \/ findHashedClass(t) \/ loadSystemClass(t) \/ setSuper(t) \/ linkClass(t)
           \/ prepareFields(t) \/ allocTable(t) \/ fillTable(t) \/ initSuper(t)
           \/ superInitialised(t) \/ runBody(t) \/ interrupted(t)
  BY <1>2, <1>8 DEF findHashedClass, loadSystemClass, setSuper, linkClass, prepareFields,
     allocTable, fillTable, initSuper, superInitialised, runBody, interrupted, interruptWait,
     classVars
<1> QED
  BY <1>3, <1>4, <1>5, <1>6, <1>7, <1>8 DEF ClassStep, ThreadStep

(* Nor does an entry become raw.                                           *)
LEMMA NeverRaw ==
    ASSUME IInv, NEW t \in Threads, ThreadStep(t) \/ interrupted(t)
    PROVE  \A e \in Entries : ~Raw(e) => ~Raw(e)'
<1>1. cp \in [Entries -> [type : {"raw", "locked", "resolved"}, info : {"index", "pointer"}]]
  BY DEF IInv, TypeOK, SharedTypeOK
<1>2. CASE UNCHANGED cp
  BY <1>2 DEF Raw
<1>3. CASE lookup(t)
  <2>1. UNCHANGED cp \/ cp' = [cp EXCEPT ![Top(t).on].type = "locked"]
    BY <1>3 DEF lookup
  <2> QED
    BY <1>1, <1>2, <2>1 DEF Raw
<1>4. CASE setInfo(t)
  BY <1>1, <1>4 DEF setInfo, Raw
<1>5. CASE setResolved(t)
  <2>1. cp' = [cp EXCEPT ![Top(t).on].type = "resolved"]
    BY <1>5 DEF setResolved
  <2> QED
    BY <1>1, <2>1 DEF Raw
<1> QED
  BY <1>2, <1>3, <1>4, <1>5 DEF ThreadStep, interrupted, sharedVars, readType, readIndex,
     checkType, nextInstruction, dispatch, readOperand, checkOpcode, resolved, rewriteOperand,
     rewriteOpcode, useQuick

(* What thread u is sure of, when another one takes a step.                *)
LEMMA SureStays ==
    ASSUME IInv, CInv, NobodyRelinks, NEW t \in Threads, ThreadStep(t) \/ interrupted(t),
           NEW u \in Threads \ {t}, NEW a \in Activations, Sure(u, a), exception'[u] = exception[u]
    PROVE  Sure(u, a)'
<1>1. \A c \in Classes : /\ flags[c] = "INITED" => flags'[c] = "INITED"
                         /\ UsableBy(u, c) => UsableBy(u, c)'
  BY FlagsStay DEF UsableBy
<1>2. \A e \in Entries : ~Raw(e) => ~Raw(e)'
  BY NeverRaw
<1>3. CASE a.at \in EntryLabels
  <2>1. a.on \in Entries
    BY <1>3, Subjects
  <2> QED
    BY <1>1, <1>2, <1>3, <2>1, StaticTypes DEF Sure, EntryLabels
<1>4. CASE a.at \in InstrLabels
  <2>1. a.on \in Instrs /\ Ref[a.on] \in Entries
    BY <1>4, Subjects
  <2> QED
    BY <1>1, <1>2, <1>4, <2>1, StaticTypes DEF Sure, InstrLabels
<1>5. CASE a.at \notin EntryLabels \cup InstrLabels
  BY <1>5 DEF Sure, EntryLabels, InstrLabels
<1> QED
  BY <1>3, <1>4, <1>5

LEMMA UseStep ==
    ASSUME IInv, CInv, NobodyRelinks, UInv, NEW t \in Threads, ThreadStep(t) \/ interrupted(t),
           StaticsReady', Mine(t)',
           \A u \in Threads \ {t} : stack'[u] = stack[u] /\ exception'[u] = exception[u]
    PROVE  UInv'
<1>1. ASSUME NEW u \in Threads \ {t} PROVE Chain(u)' /\ FirstSure(u)'
  <2>1. Chain(u) /\ FirstSure(u)
    BY DEF UInv
  <2>2. Chain(u)'
    BY <2>1 DEF Chain, Counts, Gets
  <2>3. ASSUME stack[u] # <<>> PROVE Sure(u, stack[u][1])'
    <3>1. PICK a : a = stack[u][1]
      OBVIOUS
    <3>2. a \in Activations /\ Sure(u, a)
      BY <2>1, <2>3, <3>1, StackTypes DEF FirstSure, IInv
    <3>3. Sure(u, a)'
      BY <3>2, SureStays
    <3> QED
      BY <3>1, <3>3 DEF Sure
  <2> QED
    BY <2>2, <2>3 DEF FirstSure
<1> QED
  BY <1>1 DEF UInv, Mine

-----------------------------------------------------------------------------
(* Who has resolved the class of a static field or method finds it         *)
(* initialised: nothing on its stack initialises a class.                  *)
LEMMA LookupReady ==
    ASSUME IInv, CInv, UInv, NEW t \in Threads, At(t, "lookup"), ~exception[t],
           Top(t).on \in StaticRefs
    PROVE  flags[ClassOf[Top(t).on]] = "INITED"
<1> DEFINE c == ClassOf[Top(t).on]
<1>1. stack[t] # <<>> /\ Top(t) = stack[t][1] /\ stack[t][1].at = "lookup"
  BY AtTop
<1>2. c \in Classes
  BY StaticTypes
<1>3. /\ Len(stack[t]) \in Nat \ {0}
      /\ \A k \in 1..Len(stack[t]) : stack[t][k] \in Activations
  BY <1>1, StackTypes DEF IInv
<1>4. UsableBy(t, c)
  <2>1. Sure(t, stack[t][1])
    BY <1>1 DEF UInv, FirstSure
  <2> QED
    BY <1>1, <2>1 DEF Sure
<1>5. \A k \in 1..Len(stack[t]) : stack[t][k].at \notin InitLabels
  <2>1. Chain(t)
    BY DEF UInv
  <2>2. Len(stack[t]) >= 2 => stack[t][2].at = "resolved" /\ Ref[stack[t][2].on] \in StaticRefs
    <3>1. SUFFICES ASSUME Len(stack[t]) >= 2
                   PROVE  stack[t][2].at = "resolved" /\ Ref[stack[t][2].on] \in StaticRefs
      OBVIOUS
    <3>2. 2 \in 2..Len(stack[t]) /\ 2 - 1 = 1
      BY <1>3, <3>1
    <3>3. Counts(stack[t][2], stack[t][1])
      BY <2>1, <3>2 DEF Chain
    <3> QED
      BY <1>1, <3>3 DEF Counts, EntryLabels
  <2>3. Len(stack[t]) <= 2
    <3>1. SUFFICES ASSUME Len(stack[t]) >= 3 PROVE FALSE
      BY <1>3
    <3>2. 3 \in 2..Len(stack[t]) /\ 3 - 1 = 2
      BY <1>3, <3>1
    <3>3. Counts(stack[t][3], stack[t][2])
      BY <2>1, <3>2 DEF Chain
    <3> QED
      BY <2>2, <3>1, <3>3 DEF Counts, InstrLabels
  <2> QED
    BY <1>1, <1>3, <2>2, <2>3 DEF InitLabels
<1>6. flags[c] = "INITING" => Initialising(tid[c], c)
  BY <1>2 DEF CInv, ClassOK
<1> QED
  BY <1>4, <1>5, <1>6 DEF UsableBy, Initialising

LEMMA ReadyStays ==
    ASSUME IInv, CInv, NobodyRelinks, UInv, NEW t \in Threads, ThreadStep(t) \/ interrupted(t)
    PROVE  StaticsReady'
<1>1. /\ cp \in [Entries -> [type : {"raw", "locked", "resolved"}, info : {"index", "pointer"}]]
      /\ code \in [Instrs -> [opcode : {"slow", "lock", "quick"},
                              operands : [1..2 -> {"index", "value"}]]]
  BY DEF IInv, TypeOK, SharedTypeOK
<1>2. \A c \in Classes : flags[c] = "INITED" => flags'[c] = "INITED"
  BY FlagsStay
<1>3. /\ \A e \in StaticRefs : ~Raw(e) => flags[ClassOf[e]] = "INITED"
      /\ \A i \in Instrs : Kind[i] = "static" /\ code[i].opcode = "quick" =>
                              flags[ClassOf[Ref[i]]] = "INITED"
  BY DEF UInv, StaticsReady
<1>4. ASSUME NEW e \in StaticRefs, ~Raw(e)' PROVE flags'[ClassOf[e]] = "INITED"
  <2>1. SUFFICES flags[ClassOf[e]] = "INITED"
    BY <1>2, StaticTypes
  <2>2. CASE ~Raw(e)
    BY <1>3, <2>2
  <2>3. CASE Raw(e)
    <3>1. CASE lookup(t)
      <4>1. At(t, "lookup") /\ (UNCHANGED cp \/ (/\ ~exception[t]
                                             /\ cp' = [cp EXCEPT ![Top(t).on].type = "locked"]))
        BY <3>1 DEF lookup
      <4>2. ~exception[t] /\ e = Top(t).on
        BY <1>1, <1>4, <2>3, <4>1, StaticTypes DEF Raw
      <4> QED
        BY <1>4, <4>1, <4>2, LookupReady
    <3>2. CASE setInfo(t)
      BY <1>1, <1>4, <2>3, <3>2 DEF setInfo, Raw
    <3>3. CASE setResolved(t)
      <4>1. /\ cp' = [cp EXCEPT ![Top(t).on].type = "resolved"] /\ At(t, "set_resolved")
        BY <3>3 DEF setResolved
      <4>2. e = Top(t).on
        BY <1>1, <1>4, <2>3, <4>1 DEF Raw
      <4>3. stack[t] # <<>> /\ Top(t) = stack[t][1] /\ stack[t][1].at = "set_resolved"
        BY <4>1, AtTop
      <4>4. Sure(t, stack[t][1])
        BY <4>3 DEF UInv, FirstSure
      <4> QED
        BY <2>3, <4>2, <4>3, <4>4 DEF Sure
    <3>4. CASE UNCHANGED cp
      BY <1>4, <2>3, <3>4 DEF Raw
    <3> QED
      BY <3>1, <3>2, <3>3, <3>4 DEF ThreadStep, interrupted, sharedVars, readType, readIndex,
         checkType, nextInstruction, dispatch, readOperand, checkOpcode, resolved,
         rewriteOperand, rewriteOpcode, useQuick
  <2> QED
    BY <2>2, <2>3
<1>5. ASSUME NEW i \in Instrs, Kind[i] = "static", code'[i].opcode = "quick"
      PROVE  flags'[ClassOf[Ref[i]]] = "INITED"
  <2>1. SUFFICES flags[ClassOf[Ref[i]]] = "INITED"
    BY <1>2, <1>5, StaticTypes
  <2>2. CASE code[i].opcode = "quick"
    BY <1>3, <1>5, <2>2
  <2>3. CASE code[i].opcode # "quick"
    <3>1. CASE resolved(t)
      <4>1. At(t, "resolved")
        BY <3>1 DEF resolved
      <4>2. stack[t] # <<>> /\ Top(t) = stack[t][1] /\ stack[t][1].at = "resolved"
        BY <4>1, AtTop
      <4>3. /\ ~exception[t] \/ UNCHANGED code
            /\ UNCHANGED code \/ \E o : code' = [code EXCEPT ![Top(t).on].opcode = o]
        BY <3>1 DEF resolved
      <4>4. i = Top(t).on /\ ~exception[t]
        BY <1>1, <1>5, <2>3, <4>3
      <4>5. Sure(t, stack[t][1])
        BY <4>2 DEF UInv, FirstSure
      <4>6. ~Raw(Ref[i])
        BY <1>5, <4>2, <4>4, <4>5 DEF Sure
      <4> QED
        BY <1>3, <1>5, <4>6, StaticTypes
    <3>2. CASE rewriteOpcode(t)
      <4>1. At(t, "rewrite_opcode") /\ code' = [code EXCEPT ![Top(t).on].opcode = "quick"]
        BY <3>2 DEF rewriteOpcode
      <4>2. stack[t] # <<>> /\ Top(t) = stack[t][1] /\ stack[t][1].at = "rewrite_opcode"
        BY <4>1, AtTop
      <4>3. i = Top(t).on
        BY <1>1, <1>5, <2>3, <4>1
      <4>4. Sure(t, stack[t][1])
        BY <4>2 DEF UInv, FirstSure
      <4> QED
        BY <1>5, <4>2, <4>3, <4>4 DEF Sure
    <3>3. CASE rewriteOperand(t)
      <4>1. \/ code' = [code EXCEPT ![Top(t).on].operands[1] = "value"]
            \/ code' = [code EXCEPT ![Top(t).on].operands[2] = "value"]
        BY <3>3 DEF rewriteOperand
      <4> QED
        BY <1>1, <1>5, <2>3, <4>1
    <3>4. CASE UNCHANGED code
      BY <1>5, <2>3, <3>4
    <3> QED
      BY <3>1, <3>2, <3>3, <3>4 DEF ThreadStep, interrupted, sharedVars, readType, readIndex,
         checkType, lookup, setInfo, setResolved, nextInstruction, dispatch, readOperand,
         checkOpcode, useQuick
  <2> QED
    BY <2>2, <2>3
<1> QED
  BY <1>4, <1>5 DEF StaticsReady

-----------------------------------------------------------------------------
(* Who calls a function of class.c counts on it, whichever label it is at; *)
(* of the search and of linkClass nobody who uses the class expects        *)
(* anything.                                                               *)
Apart == ClassLabels \ LockLabels

LEMMA CountsKeeps ==
    ASSUME NEW a, NEW b, NEW x, Counts(x, a),
           \/ a.at \in Apart /\ b.at \in Apart
           \/ a.at \in LockLabels /\ b.at \in LockLabels /\ a.on = b.on
           \/ a.at \in EntryLabels /\ b.at \in EntryLabels /\ a.on = b.on
           \/ a.at \in InstrLabels /\ b.at \in InstrLabels /\ a.on = b.on
    PROVE  Counts(x, b)
<1>1. CASE a.at \in Apart /\ b.at \in Apart
  BY <1>1, LabelsApart DEF Counts, Gets, Apart
<1>2. CASE a.at \in LockLabels /\ b.at \in LockLabels /\ a.on = b.on
  BY <1>2, LabelsApart DEF Counts, Gets
<1>3. CASE a.at \in EntryLabels /\ b.at \in EntryLabels /\ a.on = b.on
  BY <1>3, LabelsApart DEF Counts, Gets
<1>4. CASE a.at \in InstrLabels /\ b.at \in InstrLabels /\ a.on = b.on
  BY <1>4, LabelsApart DEF Counts, Gets
<1> QED
  BY <1>1, <1>2, <1>3, <1>4

LEMMA ApartMine ==
    ASSUME IInv, TypeOK', UInv, NEW t \in Threads, stack[t] # <<>>, stack[t][1].at \in Apart,
           \/ Return(t)
           \/ \E l \in Apart : Goto(t, l)
           \/ \E l, x : l \in Apart /\ Become(t, Activation(l, x))
           \/ \E k, x, l : {k, l} \subseteq Apart /\ Call(t, Activation(k, x), l)
    PROVE  Mine(t)'
<1>1. TypeOK /\ Mine(t) /\ stack[t][1] \in Activations
  BY StackTypes, Shapes DEF IInv, UInv, Mine
<1>2. \A l : [stack[t][1] EXCEPT !.at = l].at = l
  BY <1>1, Relabelled
<1>3. \A l, x : Activation(l, x).at = l
  BY Activated
<1>4. ASSUME NEW a, a.at \in Apart
      PROVE  /\ Sure(t, a)' /\ \A x \in Activations : Counts(x, stack[t][1]) => Counts(x, a)
             /\ \A b : b.at \in Apart => Counts(a, b)
  <2>1. Sure(t, a)'
    BY <1>4, LabelsApart DEF Sure, Apart, SureLabels, LockLabels, InitLabels
  <2>2. \A x \in Activations : Counts(x, stack[t][1]) => Counts(x, a)
    BY <1>4, CountsKeeps
  <2>3. \A b : b.at \in Apart => Counts(a, b)
    BY <1>4, LabelsApart DEF Counts, Apart, EntryLabels, InstrLabels
  <2> QED
    BY <2>1, <2>2, <2>3
<1>5. CASE Return(t)
  <2>1. PICK a : a = stack[t][1]
    OBVIOUS
  <2>2. Earns(t, a)
    BY <2>1, LabelsApart DEF Earns, Apart
  <2> QED
    BY <1>1, <1>5, <2>1, <2>2, Returned, MineReturns
<1>6. ASSUME NEW l \in Apart, Goto(t, l) PROVE Mine(t)'
  <2>1. PICK a : a = [stack[t][1] EXCEPT !.at = l]
    OBVIOUS
  <2>2. Replaces(t, a) /\ a.at = l
    BY <1>1, <1>2, <1>6, <2>1, Shapes
  <2> QED
    BY <1>1, <1>4, <2>2, MineReplaces
<1>7. ASSUME NEW l \in Apart, NEW x, Become(t, Activation(l, x)) PROVE Mine(t)'
  <2>1. PICK a : a = Activation(l, x)
    OBVIOUS
  <2>2. Replaces(t, a) /\ a.at = l
    BY <1>1, <1>3, <1>7, <2>1, Shapes
  <2> QED
    BY <1>1, <1>4, <2>2, MineReplaces
<1>8. ASSUME NEW k \in Apart, NEW x, NEW l \in Apart, Call(t, Activation(k, x), l)
      PROVE  Mine(t)'
  <2>1. PICK a, b : a = [stack[t][1] EXCEPT !.at = l] /\ b = Activation(k, x)
    OBVIOUS
  <2>2. Pushes(t, b, a) /\ a.at = l /\ b.at = k
    BY <1>1, <1>2, <1>3, <1>8, <2>1, Shapes
  <2>3. /\ Sure(t, b)' /\ Counts(a, b)
        /\ \A y \in Activations : Counts(y, stack[t][1]) => Counts(y, a)
    BY <1>4, <2>2
  <2> QED
    BY <1>1, <2>2, <2>3, MinePushes
<1> QED
  BY <1>5, <1>6, <1>7, <1>8

LEMMA LockGoes ==
    ASSUME IInv, TypeOK', UInv, NEW t \in Threads, stack[t] # <<>>, stack[t][1].at \in LockLabels,
           NEW l \in LockLabels, Goto(t, l), l = "failed" => exception'[t]
    PROVE  Mine(t)'
<1>1. TypeOK /\ Mine(t) /\ stack[t][1] \in Activations
  BY StackTypes, Shapes DEF IInv, UInv, Mine
<1>2. PICK a : a = [stack[t][1] EXCEPT !.at = l]
  OBVIOUS
<1>3. Replaces(t, a) /\ a.at = l /\ a.on = stack[t][1].on
  BY <1>1, <1>2, Shapes, Relabelled
<1>4. Sure(t, a)'
  BY <1>3, LabelsApart DEF Sure, SureLabels
<1>5. \A x \in Activations : Counts(x, stack[t][1]) => Counts(x, a)
  BY <1>3, CountsKeeps
<1> QED
  BY <1>1, <1>3, <1>4, <1>5, MineReplaces

(* The threads other than the one that takes a step.                       *)
Alone(t) == \A u \in Threads \ {t} : stack'[u] = stack[u] /\ exception'[u] = exception[u]

LEMMA FindUse ==
    ASSUME IInv, TypeOK', UInv, NEW t \in Threads,
           \/ findHashedClass(t) \/ loadSystemClass(t) \/ addClassToHash(t) \/ setSuper(t)
           \/ linkClass(t) \/ prepareFields(t) \/ allocTable(t) \/ fillTable(t) \/ setLinked(t)
    PROVE  Mine(t)'
<1>1. /\ {"find", "parsed", "super_found", "link", "prepare", "allocate_table", "fill_table",
         "linked"} \subseteq Apart
  BY DEF Apart, ClassLabels, LockLabels, InitLabels
<1>2. stack[t] # <<>> /\ stack[t][1].at \in Apart
  <2>1. PICK l \in {"find", "parsed", "super_found", "link", "prepare", "allocate_table",
                    "fill_table", "linked"} : At(t, l)
    BY DEF findHashedClass, loadSystemClass, addClassToHash, setSuper, linkClass, prepareFields,
       allocTable, fillTable, setLinked
  <2> QED
    BY <1>1, <2>1, AtTop
<1>3. Found(t) => Return(t) \/ \E l, x : l \in Apart /\ Become(t, Activation(l, x))
  BY <1>1 DEF Found
<1>4. CASE findHashedClass(t) \/ setSuper(t)
  BY <1>2, <1>3, <1>4, ApartMine DEF findHashedClass, setSuper
<1>5. CASE loadSystemClass(t)
  <2>1. \/ Return(t) \/ Goto(t, "parsed") \/ \E x : Call(t, Activation("find", x), "parsed")
    BY <1>5 DEF loadSystemClass, defineClass
  <2> QED
    BY <1>1, <1>2, <2>1, ApartMine
<1>6. CASE addClassToHash(t)
  <2>1. \/ Return(t) \/ Found(t) \/ \E x : Call(t, Activation("find", x), "super_found")
    BY <1>6 DEF addClassToHash
  <2> QED
    BY <1>1, <1>2, <1>3, <2>1, ApartMine
<1>7. CASE linkClass(t)
  <2>1. \/ Return(t) \/ Goto(t, "prepare") \/ \E x : Call(t, Activation("link", x), "prepare")
    BY <1>7 DEF linkClass
  <2> QED
    BY <1>1, <1>2, <2>1, ApartMine
<1>8. CASE prepareFields(t) \/ allocTable(t) \/ fillTable(t) \/ setLinked(t)
  <2>1. Return(t) \/ \E l \in {"allocate_table", "fill_table", "linked"} : Goto(t, l)
    BY <1>8 DEF prepareFields, allocTable, fillTable, setLinked
  <2> QED
    BY <1>1, <1>2, <2>1, ApartMine
<1> QED
  BY <1>4, <1>5, <1>6, <1>7, <1>8

(* initClass returns when the class is initialised, or by this thread.     *)
LEMMA TestUse ==
    ASSUME IInv, TypeOK', UInv, NEW t \in Threads, testState(t) \/ interruptWait(t)
    PROVE  Mine(t)'
<1> USE DEF InitLabels, LockLabels
<1>1. /\ stack[t] # <<>> /\ Top(t) = stack[t][1] /\ stack[t][1].at \in LockLabels
      /\ stack[t][1] \in Activations /\ Top(t).on \in Classes /\ Mine(t) /\ TypeOK
  <2>1. PICK l \in {"lock", "woken", "waiting"} : At(t, l)
    BY DEF testState, interruptWait
  <2> QED
    BY <2>1, ClassTop DEF ClassLabels, UInv, Mine, IInv
<1>2. CASE \E l \in {"waiting", "init_super", "woken"} : Goto(t, l)
  BY <1>1, <1>2, LockGoes
<1>3. CASE /\ Return(t)
           /\ \/ exception'[t]
              \/ UNCHANGED <<flags, tid>> /\ UsableBy(t, Top(t).on)
  <2>1. PICK a : a = stack[t][1]
    OBVIOUS
  <2>2. Earns(t, a)
    BY <1>1, <1>3, <2>1 DEF Earns, UsableBy
  <2> QED
    BY <1>1, <1>3, <2>1, <2>2, Returned, MineReturns
<1>4. CASE testState(t)
  <2>1. Throw(t) => exception'[t]
    BY DEF Throw, IInv, TypeOK, LocalsTypeOK
  <2> QED
    BY <1>2, <1>3, <1>4, <2>1 DEF testState, UsableBy
<1>5. CASE interruptWait(t)
  BY <1>2, <1>5 DEF interruptWait
<1> QED
  BY <1>4, <1>5

LEMMA InitUse ==
    ASSUME IInv, TypeOK', UInv, BodiesApart, NEW t \in Threads,
           initSuper(t) \/ superInitialised(t) \/ runBody(t)
    PROVE  Mine(t)'
<1> DEFINE c == Top(t).on
<1>1. /\ stack[t] # <<>> /\ Top(t) = stack[t][1] /\ stack[t][1].at \in LockLabels
      /\ stack[t][1] \in Activations /\ c \in Classes /\ Mine(t) /\ TypeOK
  <2>1. PICK l \in {"init_super", "super_initialised", "body"} : At(t, l)
    BY DEF initSuper, superInitialised, runBody
  <2> QED
    BY <2>1, ClassTop DEF ClassLabels, UInv, Mine, IInv, InitLabels, LockLabels
<1>2. {"body", "initialised", "failed"} \subseteq LockLabels
  BY DEF LockLabels, InitLabels
<1>3. CASE Goto(t, "body") \/ Goto(t, "initialised") \/ (Goto(t, "failed") /\ exception'[t])
  BY <1>1, <1>2, <1>3, LockGoes
<1>4. /\ stack[t] \in Seq(Activations) /\ Len(stack[t]) \in Nat \ {0}
      /\ stack \in [Threads -> Seq(Activations)] /\ Head(stack[t]) = stack[t][1]
  BY <1>1, StackTypes DEF TypeOK, StacksTypeOK
<1>5. CASE stack' = [stack EXCEPT ![t] =
             InitClass(Super[c], <<[Head(@) EXCEPT !.at = "super_initialised"]>> \o Tail(@))]
  <2>1. PICK a, b, e : /\ a = [stack[t][1] EXCEPT !.at = "super_initialised"]
                       /\ b = Activation("link", Super[c]) /\ e = Activation("lock", Super[c])
    OBVIOUS
  <2>2. a.at = "super_initialised" /\ a.on = stack[t][1].on
    BY <1>1, <2>1, Relabelled
  <2>3. b.at = "link" /\ e.at = "lock"
    BY <2>1, Activated
  <2>4. stack'[t] = <<b, e>> \o (<<a>> \o Tail(stack[t]))
    BY <1>4, <1>5, <2>1 DEF InitClass
  <2>5. /\ Len(stack'[t]) = Len(stack[t]) - 1 + 3
        /\ stack'[t][1] = b /\ stack'[t][2] = e /\ stack'[t][3] = a
        /\ \A k \in 2..Len(stack[t]) : stack'[t][k + 2] = stack[t][k]
    BY <1>4, <2>4
  <2>6. \A k \in 2..Len(stack[t]) : stack'[t][k + (3 - 1)] = stack[t][k]
    <3>1. \A k \in 2..Len(stack[t]) : k + (3 - 1) = k + 2
      BY <1>4
    <3> QED
      BY <2>5, <3>1
  <2>7. Counts(e, b) /\ Counts(a, e) /\ Sure(t, b)'
    BY <2>2, <2>3 DEF Counts, Sure, EntryLabels, InstrLabels
  <2>8. \A k \in 2..3 : Counts(stack'[t][k], stack'[t][k - 1])
    BY <2>5, <2>7
  <2>9. Len(stack[t]) >= 2 => Counts(stack[t][2], a)
    <3>1. SUFFICES ASSUME Len(stack[t]) >= 2 PROVE Counts(stack[t][2], a)
      OBVIOUS
    <3>2. 2 \in 2..Len(stack[t]) /\ 2 - 1 = 1
      BY <1>4, <3>1
    <3>3. Counts(stack[t][2], stack[t][1])
      BY <1>1, <3>2 DEF Mine, Chain
    <3>4. a.at \in LockLabels
      BY <2>2 DEF LockLabels, InitLabels
    <3> QED
      BY <1>1, <2>2, <3>3, <3>4, CountsKeeps
  <2>10. Chain(t)'
    BY <1>1, <2>5, <2>6, <2>8, <2>9, ChainKeeps DEF Mine
  <2> QED
    BY <2>5, <2>7, <2>10 DEF Mine, FirstSure
<1>6. CASE /\ runBody(t)
           /\ Top(t).next <= Len(Body[c])
           /\ stack' = [stack EXCEPT ![t] =
                 <<Activation("dispatch", Body[c][Top(t).next]),
                   [Top(t) EXCEPT !.next = @ + 1]>> \o Tail(@)]
  <2>1. PICK a, b : /\ a = [Top(t) EXCEPT !.next = @ + 1]
                    /\ b = Activation("dispatch", Body[c][Top(t).next])
    OBVIOUS
  <2>2. Top(t).at = "body" /\ Top(t).next \in Nat \ {0}
    BY <1>1, <1>6, Subjects DEF runBody, At
  <2>3. a.at = "body" /\ a.on = c /\ b.at = "dispatch" /\ b.on = Body[c][Top(t).next]
    BY <1>1, <2>1, <2>2, Activated DEF Activations
  <2>4. Pushes(t, b, a)
    BY <1>6, <2>1 DEF Pushes
  <2>5. Ref[b.on] \notin StaticRefs
    <3>1. Body[c] \in Seq(Instrs)
      BY <1>1, CodeAssumption
    <3>2. Top(t).next \in 1..Len(Body[c])
      BY <1>6, <2>2, <3>1
    <3> QED
      BY <1>1, <2>3, <3>2 DEF BodiesApart
  <2>6. Counts(a, b) /\ Sure(t, b)'
    BY <2>3, <2>5 DEF Counts, Sure, EntryLabels
  <2>7. \A x \in Activations : Counts(x, stack[t][1]) => Counts(x, a)
    BY <1>1, <1>2, <2>3, CountsKeeps
  <2> QED
    BY <1>1, <2>4, <2>6, <2>7, MinePushes
<1>7. CASE initSuper(t)
  BY <1>3, <1>5, <1>7 DEF initSuper, executeStaticMethod
<1>8. CASE superInitialised(t)
  BY <1>3, <1>8 DEF superInitialised, executeStaticMethod
<1>9. CASE runBody(t)
  <2>1. Throw(t) => exception'[t]
    BY <1>1 DEF Throw, TypeOK, LocalsTypeOK
  <2> QED
    BY <1>3, <1>6, <1>9, <2>1 DEF runBody
<1> QED
  BY <1>7, <1>8, <1>9

(* The end of initClass: with an exception, or the class initialised.      *)
LEMMA EndUse ==
    ASSUME IInv, TypeOK', CInv, UInv, NobodyRelinks, StaticsReady', NEW t \in Threads,
           endInit(t), ThreadStep(t) \/ interrupted(t)
    PROVE  UInv'
<1> DEFINE c == Top(t).on
           stk == [stack EXCEPT ![t] = Tail(@)]
<1>1. /\ stack[t] # <<>> /\ Top(t) = stack[t][1] /\ stack[t][1].at \in {"failed", "initialised"}
      /\ stack[t][1] \in Activations /\ c \in Classes /\ Mine(t) /\ TypeOK /\ ThreadOK(t)
  <2>1. PICK l \in {"failed", "initialised"} : At(t, l)
    BY DEF endInit
  <2> QED
    BY <2>1, ClassTop DEF ClassLabels, UInv, Mine, IInv
<1>2. /\ stack[t] \in Seq(Activations) /\ Len(stack[t]) \in Nat \ {0}
      /\ stack \in [Threads -> Seq(Activations)] /\ flags \in [Classes -> Flags]
  BY <1>1, StackTypes DEF TypeOK, StacksTypeOK, ClassesTypeOK
<1>3. stack' = WakeAll(stk, c) /\ UNCHANGED exception
  BY DEF endInit
<1>4. /\ stk[t] = Tail(stack[t])
      /\ \A u \in Threads \ {t} : stk[u] = stack[u]
      /\ \A u \in Threads : stk[u] \in Seq(Activations)
  BY <1>1, <1>2
<1>5. stack'[t] = Tail(stack[t])
  <2>1. stack'[t] = stk[t] \/ (stk[t] # <<>> /\ Head(stk[t]).at = "waiting")
    BY <1>3 DEF WakeAll
  <2>2. SUFFICES ASSUME stk[t] # <<>> PROVE Head(stk[t]).at # "waiting"
    BY <1>4, <2>1
  <2>3. 2 \in 2..Len(stack[t]) /\ Head(stk[t]) = stack[t][2]
    BY <1>2, <1>4, <2>2
  <2>4. Waits(stack[t][2], stack[t][2 - 1])
    BY <1>1, <2>3 DEF ThreadOK
  <2> QED
    BY <2>3, <2>4 DEF Waits, CallLabels
<1>6. Mine(t)'
  <2>1. PICK a : a = stack[t][1]
    OBVIOUS
  <2>2. CASE a.at = "failed"
    <3>1. exception[t]
      BY <1>1, <2>1, <2>2 DEF Mine, FirstSure, Sure
    <3> QED
      BY <1>1, <1>3, <1>5, <2>1, <3>1, MineReturns DEF Earns
  <2>3. CASE a.at = "initialised"
    <3>1. flags' = [flags EXCEPT ![c] = "INITED"]
      BY <1>1, <2>1, <2>3 DEF endInit, At
    <3>2. UsableBy(t, a.on)' /\ a.at \in LockLabels
      BY <1>1, <1>2, <2>1, <2>3, <3>1 DEF UsableBy, LockLabels, InitLabels
    <3> QED
      BY <1>1, <1>5, <2>1, <3>2, MineReturns DEF Earns
  <2> QED
    BY <1>1, <2>1, <2>2, <2>3
<1>7. ASSUME NEW u \in Threads \ {t} PROVE Chain(u)' /\ FirstSure(u)'
  <2>1. Chain(u) /\ FirstSure(u)
    BY DEF UInv
  <2>2. PICK s : s = stk
    OBVIOUS
  <2>3. stack'[u] = WakeAll(s, c)[u] /\ s[u] = stack[u] /\ s[u] \in Seq(Activations)
    BY <1>3, <1>4, <2>2
  <2>4. /\ Len(stack'[u]) = Len(stack[u])
        /\ \A k \in 2..Len(stack[u]) : stack'[u][k] = stack[u][k]
        /\ stack[u] # <<>> =>
              \/ stack'[u][1] = stack[u][1]
              \/ /\ stack'[u][1].at = "woken" /\ stack[u][1].at = "waiting"
                 /\ stack'[u][1].on = stack[u][1].on
    BY <2>3, Woken
  <2>5. /\ Len(stack[u]) \in Nat /\ (stack[u] # <<>> <=> Len(stack[u]) >= 1)
        /\ (stack'[u] # <<>> <=> Len(stack'[u]) >= 1)
    BY <1>1, StackTypes
  <2>6. Chain(u)'
    <3>1. SUFFICES ASSUME NEW k \in 2..Len(stack[u]) PROVE Counts(stack'[u][k], stack'[u][k - 1])
      BY <2>4 DEF Chain, Counts, Gets
    <3>2. Counts(stack[u][k], stack[u][k - 1]) /\ stack'[u][k] = stack[u][k]
      BY <2>1, <2>4 DEF Chain
    <3>3. CASE k = 2
      <4>1. PICK a, b, x : a = stack[u][1] /\ b = stack'[u][1] /\ x = stack[u][2]
        OBVIOUS
      <4>2. Counts(x, a) /\ (b = a \/ (a.at = "waiting" /\ b.at = "woken" /\ b.on = a.on))
        BY <2>4, <2>5, <3>2, <3>3, <4>1
      <4>3. Counts(x, b)
        <5>1. {"waiting", "woken"} \subseteq LockLabels
          BY DEF LockLabels
        <5> QED
          BY <4>2, <5>1, CountsKeeps
      <4> QED
        BY <3>2, <3>3, <4>1, <4>3
    <3>4. CASE k # 2
      <4>1. k - 1 \in 2..Len(stack[u])
        BY <2>5, <3>4
      <4> QED
        BY <2>4, <3>2, <4>1
    <3> QED
      BY <3>3, <3>4
  <2>7. ASSUME stack'[u] # <<>> PROVE Sure(u, stack[u][1])'
    <3>1. PICK a, b : a = stack[u][1] /\ b = stack'[u][1]
      OBVIOUS
    <3>2. stack[u] # <<>> /\ a \in Activations /\ Sure(u, a)
      BY <1>1, <2>1, <2>4, <2>5, <2>7, <3>1, StackTypes DEF FirstSure
    <3>3. CASE b = a
      <4>1. Sure(u, a)'
        BY <1>3, <3>2, SureStays
      <4> QED
        BY <3>1, <3>3, <4>1 DEF Sure
    <3>4. CASE b.at = "woken"
      BY <3>1, <3>4 DEF Sure
    <3> QED
      BY <2>4, <3>1, <3>2, <3>3, <3>4
  <2> QED
    BY <2>6, <2>7 DEF FirstSure
<1> QED
  BY <1>6, <1>7 DEF UInv, Mine

-----------------------------------------------------------------------------
(* Resolution and the interpreter.                                         *)
SameKind(k, l) == {k, l} \subseteq EntryLabels \/ {k, l} \subseteq InstrLabels

LEMMA CodeGoes ==
    ASSUME IInv, TypeOK', UInv, NEW t \in Threads, stack[t] # <<>>,
           NEW l, SameKind(stack[t][1].at, l), Goto(t, l),
           \A a \in Activations : a.at = l /\ a.on = Top(t).on => Sure(t, a)'
    PROVE  Mine(t)'
<1>1. TypeOK /\ Mine(t) /\ Top(t) = stack[t][1] /\ stack[t][1] \in Activations
  BY StackTypes, Shapes DEF IInv, UInv, Mine
<1>2. PICK a : a = [stack[t][1] EXCEPT !.at = l]
  OBVIOUS
<1>3. Replaces(t, a) /\ a.at = l /\ a.on = stack[t][1].on /\ a \in Activations
  BY <1>1, <1>2, Shapes, Relabelled DEF SameKind
<1>4. Sure(t, a)'
  BY <1>1, <1>3
<1>5. \A x \in Activations : Counts(x, stack[t][1]) => Counts(x, a)
  BY <1>3, CountsKeeps DEF SameKind
<1> QED
  BY <1>1, <1>3, <1>4, <1>5, MineReplaces

LEMMA CodeCalls ==
    ASSUME IInv, TypeOK', UInv, NEW t \in Threads, stack[t] # <<>>,
           NEW k \in {"find", "resolve"}, NEW x, NEW l, SameKind(stack[t][1].at, l),
           Call(t, Activation(k, x), l),
           \A a, b : a.at = l /\ a.on = Top(t).on /\ b.at = k /\ b.on = x => Counts(a, b)
    PROVE  Mine(t)'
<1>1. TypeOK /\ Mine(t) /\ Top(t) = stack[t][1] /\ stack[t][1] \in Activations
  BY StackTypes, Shapes DEF IInv, UInv, Mine
<1>2. PICK a, b : a = [stack[t][1] EXCEPT !.at = l] /\ b = Activation(k, x)
  OBVIOUS
<1>3. Pushes(t, b, a) /\ a.at = l /\ a.on = stack[t][1].on /\ b.at = k /\ b.on = x
  <2>1. a.at = l /\ a.on = stack[t][1].on
    BY <1>1, <1>2, Relabelled
  <2>2. b.at = k /\ b.on = x
    BY <1>2, Activated
  <2>3. Pushes(t, b, a)
    BY <1>1, <1>2, Shapes
  <2> QED
    BY <2>1, <2>2, <2>3
<1>4. Sure(t, b)'
  BY <1>3 DEF Sure
<1>5. Counts(a, b)
  BY <1>1, <1>3
<1>6. \A y \in Activations : Counts(y, stack[t][1]) => Counts(y, a)
  BY <1>3, CountsKeeps DEF SameKind
<1> QED
  BY <1>1, <1>3, <1>4, <1>5, <1>6, MinePushes

LEMMA CodeInits ==
    ASSUME IInv, TypeOK', UInv, NEW t \in Threads, stack[t] # <<>>,
           stack[t][1].at \in EntryLabels, NEW c \in Classes, c = Top(t).on,
           stack' = [stack EXCEPT ![t] = InitClass(c, Tail(@))]
    PROVE  Mine(t)'
<1>1. TypeOK /\ Mine(t) /\ Top(t) = stack[t][1] /\ stack[t][1] \in Activations
  BY StackTypes, Shapes DEF IInv, UInv, Mine
<1>2. PICK a, b : a = Activation("lock", c) /\ b = Activation("link", c)
  OBVIOUS
<1>3. a.at = "lock" /\ a.on = c /\ b.at = "link" /\ Pushes(t, b, a)
  BY <1>2, Activated DEF InitClass, Pushes
<1>4. Sure(t, b)' /\ Counts(a, b)
  BY <1>3 DEF Sure, Counts, EntryLabels, InstrLabels
<1>5. ASSUME NEW x \in Activations, Counts(x, stack[t][1]) PROVE Counts(x, a)
  <2>1. x.at = "resolved" => x.on \in Instrs
    BY Subjects DEF InstrLabels
  <2>2. a.at \in LockLabels /\ a.at \notin EntryLabels \cup InstrLabels
    BY <1>3 DEF LockLabels, EntryLabels, InstrLabels
  <2>3. stack[t][1].on = c
    BY <1>1
  <2>4. x.at = "resolved" => Kind[x.on] # "static"
    BY <1>5, <2>1, <2>3, StaticTypes DEF Counts
  <2> QED
    BY <1>3, <1>5, <2>2, <2>3, <2>4 DEF Counts, Gets
<1> QED
  BY <1>1, <1>3, <1>4, <1>5, MinePushes

LEMMA EntryUse ==
    ASSUME IInv, TypeOK', UInv, NEW t \in Threads, NEW e, e = Top(t).on,
           \/ readType(t) \/ readIndex(t) \/ checkType(t) \/ lookup(t) \/ setInfo(t)
           \/ setResolved(t)
    PROVE  Mine(t)'
<1>1. /\ stack[t] # <<>> /\ Top(t) = stack[t][1] /\ stack[t][1].at \in EntryLabels
      /\ e \in Entries /\ Mine(t) /\ TypeOK
      /\ \A l : At(t, l) => stack[t][1].at = l
  <2>1. PICK l \in EntryLabels : At(t, l)
    BY DEF readType, readIndex, checkType, lookup, setInfo, setResolved, EntryLabels
  <2>2. stack[t] # <<>> /\ Top(t) = stack[t][1] /\ stack[t][1].at = l
    BY <2>1, AtTop
  <2>3. TypeOK /\ Mine(t) /\ stack[t][1] \in Activations
    BY <2>2, Shapes DEF IInv, UInv, Mine
  <2> QED
    BY <2>2, <2>3, Subjects DEF At
<1>2. \A l \in EntryLabels : SameKind(stack[t][1].at, l)
  BY <1>1 DEF SameKind
<1>3. cp \in [Entries -> [type : {"raw", "locked", "resolved"}, info : {"index", "pointer"}]]
  BY <1>1 DEF TypeOK, SharedTypeOK
(* The entry is resolved, and not one of a class to be initialised.        *)
<1>4. CASE Return(t) /\ ~(e \in Classes /\ Initialises(t)) /\ ~Raw(e)'
  <2>1. PICK a : a = stack[t][1]
    OBVIOUS
  <2>2. CASE e \notin Classes
    <3>1. Earns(t, a)
      BY <1>1, <1>4, <2>1, <2>2 DEF Earns
    <3> QED
      BY <1>1, <1>4, <2>1, <3>1, Returned, MineReturns
  <2>3. CASE e \in Classes
    <3>1. PICK i \in Instrs : stack[t][2] = Activation("resolved", i) /\ Kind[i] = "test"
      BY <1>4, <2>3 DEF Initialises
    <3>2. stack[t][2].at = "resolved" /\ Kind[stack[t][2].on] = "test"
      BY <3>1, Activated
    <3> QED
      BY <1>1, <1>4, <2>1, <3>2, Returned, MineReturns
  <2> QED
    BY <2>2, <2>3
<1>5. CASE e \in Classes /\ stack' = [stack EXCEPT ![t] = InitClass(e, Tail(@))]
  BY <1>1, <1>5, CodeInits
<1>6. ASSUME NEW l \in EntryLabels \ SureLabels, Goto(t, l) PROVE Mine(t)'
  <2>1. \A a \in Activations : a.at = l => Sure(t, a)'
    BY <1>6 DEF Sure, SureLabels
  <2> QED
    BY <1>1, <1>2, <1>6, <2>1, CodeGoes
<1>7. CASE readType(t)
  <2>1. CASE Goto(t, "read_index")
    BY <1>6, <2>1 DEF EntryLabels, SureLabels
  <2>2. CASE cp[e].type = "resolved" /\ Return(t) /\ ~(e \in Classes /\ Initialises(t))
    <3>1. UNCHANGED cp
      BY <1>7 DEF readType, sharedVars
    <3>2. ~Raw(e)'
      BY <2>2, <3>1 DEF Raw
    <3> QED
      BY <1>4, <2>2, <3>2
  <2> QED
    BY <1>5, <1>7, <2>1, <2>2 DEF readType
<1>8. CASE readIndex(t)
  BY <1>6, <1>8 DEF readIndex, EntryLabels, SureLabels
<1>9. CASE checkType(t)
  <2>1. CASE Goto(t, "resolve")
    BY <1>6, <2>1 DEF EntryLabels, SureLabels
  <2>2. CASE e \in Classes /\ Call(t, Activation("find", e), "lookup")
    <3>1. \A a, b : a.at = "lookup" /\ a.on = e /\ b.at = "find" => Counts(a, b)
      BY <2>2, StaticTypes DEF Counts, EntryLabels, InstrLabels
    <3>2. "lookup" \in EntryLabels
      BY DEF EntryLabels
    <3> QED
      BY <1>1, <1>2, <2>2, <3>1, <3>2, CodeCalls
  <2>3. CASE ClassOf[e] = Nil /\ e \notin Classes /\ Goto(t, "lookup")
    <3>1. e \notin StaticRefs
      BY <2>3, StaticTypes, HierarchyAssumption
    <3>2. \A a \in Activations : a.at = "lookup" /\ a.on = e => Sure(t, a)'
      BY <3>1 DEF Sure
    <3>3. "lookup" \in EntryLabels
      BY DEF EntryLabels
    <3> QED
      BY <1>1, <1>2, <2>3, <3>2, <3>3, CodeGoes
  <2>4. CASE /\ e \notin Classes /\ ClassOf[e] # Nil
             /\ Call(t, Activation("resolve", ClassOf[e]), "lookup")
    <3>1. ClassOf[e] \in Classes
      BY <1>1, <2>4, CodeAssumption DEF Entries
    <3>2. ASSUME NEW a, NEW b, a.at = "lookup", a.on = e, b.at = "resolve", b.on = ClassOf[e]
          PROVE  Counts(a, b)
      BY <3>1, <3>2, StaticTypes DEF Counts, Gets, EntryLabels, InstrLabels
    <3>3. "lookup" \in EntryLabels
      BY DEF EntryLabels
    <3> QED
      BY <1>1, <1>2, <2>4, <3>2, <3>3, CodeCalls
  <2> QED
    BY <1>9, <2>1, <2>2, <2>3, <2>4 DEF checkType
<1>10. CASE lookup(t)
  <2>1. CASE exception[t] /\ Return(t)
    <3>1. exception'[t]
      BY <1>10, <2>1 DEF lookup
    <3>2. PICK a : a = stack[t][1]
      OBVIOUS
    <3>3. Earns(t, a)
      BY <3>1 DEF Earns
    <3> QED
      BY <1>1, <2>1, <3>2, <3>3, Returned, MineReturns
  <2>2. CASE cp' = [cp EXCEPT ![e].type = "locked"] /\ Goto(t, "set_info")
    <3>1. ~Raw(e)'
      BY <1>1, <1>3, <2>2 DEF Raw
    <3>2. \A a \in Activations : a.at = "set_info" /\ a.on = e => Sure(t, a)'
      BY <3>1 DEF Sure
    <3>3. "set_info" \in EntryLabels
      BY DEF EntryLabels
    <3> QED
      BY <1>1, <1>2, <2>2, <3>2, <3>3, CodeGoes
  <2> QED
    BY <1>10, <2>1, <2>2 DEF lookup
<1>11. CASE setInfo(t)
  <2>1. stack[t][1].at = "set_info" /\ Sure(t, stack[t][1])
    BY <1>1, <1>11 DEF setInfo, Mine, FirstSure
  <2>2. ~Raw(e)'
    <3>1. ~Raw(e)
      BY <1>1, <2>1 DEF Sure
    <3> QED
      BY <1>1, <1>11, <3>1, NeverRaw DEF ThreadStep
  <2>3. \A a \in Activations : a.at = "set_resolved" /\ a.on = e => Sure(t, a)'
    BY <2>2 DEF Sure
  <2>4. "set_resolved" \in EntryLabels
    BY DEF EntryLabels
  <2> QED
    BY <1>1, <1>2, <1>11, <2>3, <2>4, CodeGoes DEF setInfo
<1>12. CASE setResolved(t)
  <2>1. cp' = [cp EXCEPT ![e].type = "resolved"]
    BY <1>12 DEF setResolved
  <2>2. ~Raw(e)'
    BY <1>1, <1>3, <2>1 DEF Raw
  <2> QED
    BY <1>4, <1>5, <1>12, <2>2 DEF setResolved
<1> QED
  BY <1>7, <1>8, <1>9, <1>10, <1>11, <1>12

LEMMA InstrUse ==
    ASSUME IInv, TypeOK', UInv, NEW t \in Threads, NEW i, i = Top(t).on,
           \/ dispatch(t) \/ readOperand(t) \/ checkOpcode(t) \/ resolved(t)
           \/ rewriteOperand(t) \/ rewriteOpcode(t) \/ useQuick(t)
    PROVE  Mine(t)'
<1>1. /\ stack[t] # <<>> /\ Top(t) = stack[t][1] /\ stack[t][1].at \in InstrLabels
      /\ i \in Instrs /\ Mine(t) /\ TypeOK /\ Sure(t, stack[t][1])
      /\ \A l : At(t, l) => stack[t][1].at = l
  <2>1. PICK l \in InstrLabels : At(t, l)
    BY DEF dispatch, readOperand, checkOpcode, resolved, rewriteOperand, rewriteOpcode,
       useQuick, InstrLabels
  <2>2. stack[t] # <<>> /\ Top(t) = stack[t][1] /\ stack[t][1].at = l
    BY <2>1, AtTop
  <2>3. TypeOK /\ Mine(t) /\ stack[t][1] \in Activations
    BY <2>2, Shapes DEF IInv, UInv, Mine
  <2> QED
    BY <2>2, <2>3, Subjects DEF At, Mine, FirstSure
<1>2. \A l \in InstrLabels : SameKind(stack[t][1].at, l)
  BY <1>1 DEF SameKind
<1>3. UNCHANGED classVars
  BY DEF dispatch, readOperand, checkOpcode, resolved, rewriteOperand, rewriteOpcode, useQuick
<1>4. ASSUME NEW l \in InstrLabels \ SureLabels, Goto(t, l) PROVE Mine(t)'
  <2>1. \A a \in Activations : a.at = l => Sure(t, a)'
    BY <1>4 DEF Sure, SureLabels
  <2> QED
    BY <1>1, <1>2, <1>4, <2>1, CodeGoes
<1>5. CASE Return(t)
  <2>1. PICK a : a = stack[t][1]
    OBVIOUS
  <2>2. Earns(t, a)
    BY <1>1, <2>1, LabelsApart DEF Earns
  <2> QED
    BY <1>1, <1>5, <2>1, <2>2, Returned, MineReturns
<1>6. CASE Call(t, Activation("resolve", Ref[i]), "resolved")
  <2>1. ASSUME NEW a, NEW b, a.at = "resolved", a.on = i, b.at = "resolve", b.on = Ref[i]
        PROVE  Counts(a, b)
    BY <2>1 DEF Counts, Gets, EntryLabels, InstrLabels
  <2>2. "resolved" \in InstrLabels
    BY DEF InstrLabels
  <2> QED
    BY <1>1, <1>2, <1>6, <2>1, <2>2, CodeCalls
<1>7. ASSUME NEW l \in {"rewrite_1", "rewrite_2", "rewrite_opcode"}, Goto(t, l),
             Kind[i] # "static"
      PROVE  Mine(t)'
  <2>1. \A a \in Activations : a.at = l /\ a.on = i => Sure(t, a)'
    BY <1>7 DEF Sure
  <2>2. l \in InstrLabels
    BY DEF InstrLabels
  <2> QED
    BY <1>1, <1>2, <1>7, <2>1, <2>2, CodeGoes
<1>8. CASE dispatch(t)
  <2>1. CASE code[i].opcode = "quick" /\ Goto(t, "quick")
    <3>1. Kind[i] = "static" => flags'[ClassOf[Ref[i]]] = "INITED"
      BY <1>1, <1>3, <2>1 DEF UInv, StaticsReady, classVars
    <3>2. \A a \in Activations : a.at = "quick" /\ a.on = i => Sure(t, a)'
      BY <3>1 DEF Sure
    <3>3. "quick" \in InstrLabels
      BY DEF InstrLabels
    <3> QED
      BY <1>1, <1>2, <2>1, <3>2, <3>3, CodeGoes
  <2>2. CASE Goto(t, "operand_1")
    BY <1>4, <2>2 DEF InstrLabels, SureLabels
  <2> QED
    BY <1>6, <1>8, <2>1, <2>2 DEF dispatch
<1>9. CASE readOperand(t)
  BY <1>4, <1>9 DEF readOperand, InstrLabels, SureLabels
<1>10. CASE checkOpcode(t)
  BY <1>4, <1>6, <1>10 DEF checkOpcode, InstrLabels, SureLabels
<1>11. CASE resolved(t)
  <2>1. CASE ~exception[t] /\ Kind[i] \in {"new", "test"} /\ Goto(t, "use")
    <3>1. stack[t][1].at = "resolved"
      BY <1>1, <1>11 DEF resolved
    <3>2. Kind[i] = "new" => UsableBy(t, Ref[i])'
      BY <1>1, <1>3, <2>1, <3>1 DEF Sure, UsableBy, classVars
    <3>3. \A a \in Activations : a.at = "use" /\ a.on = i => Sure(t, a)'
      BY <3>2 DEF Sure
    <3>4. "use" \in InstrLabels
      BY DEF InstrLabels
    <3> QED
      BY <1>1, <1>2, <2>1, <3>3, <3>4, CodeGoes
  <2>2. CASE Goto(t, "dispatch")
    BY <1>4, <2>2 DEF InstrLabels, SureLabels
  <2>3. CASE ChangesOperands(i) /\ Goto(t, "rewrite_1")
    BY <1>7, <2>3 DEF ChangesOperands
  <2> QED
    BY <1>5, <1>11, <2>1, <2>2, <2>3 DEF resolved
<1>12. CASE rewriteOperand(t)
  <2>1. stack[t][1].at \in {"rewrite_1", "rewrite_2"}
    BY <1>1, <1>12 DEF rewriteOperand
  <2>2. Kind[i] # "static"
    BY <1>1, <2>1 DEF Sure
  <2>3. Goto(t, "rewrite_2") \/ Goto(t, "rewrite_opcode")
    BY <1>12 DEF rewriteOperand
  <2> QED
    BY <1>7, <2>2, <2>3
<1>13. CASE rewriteOpcode(t)
  BY <1>4, <1>13 DEF rewriteOpcode, InstrLabels, SureLabels
<1>14. CASE useQuick(t)
  BY <1>5, <1>14 DEF useQuick
<1> QED
  BY <1>8, <1>9, <1>10, <1>11, <1>12, <1>13, <1>14

LEMMA InstructionUse ==
    ASSUME TypeOK, TypeOK', NEW t \in Threads, nextInstruction(t)
    PROVE  Mine(t)'
<1>1. PICK a : a = Activation("dispatch", Main[t][position[t]])
  OBVIOUS
<1>2. stack'[t] = <<a>> /\ a.at = "dispatch"
  BY <1>1, Activated DEF nextInstruction, TypeOK, StacksTypeOK
<1>3. Len(stack'[t]) = 1 /\ stack'[t][1] = a
  BY <1>2
<1>4. Sure(t, a)'
  BY <1>2 DEF Sure
<1> QED
  BY <1>3, <1>4 DEF Mine, Chain, FirstSure

LEMMA StepAlone ==
    ASSUME IInv, NEW t \in Threads, ThreadStep(t) \/ interrupted(t), ~endInit(t)
    PROVE  Alone(t)
<1>1. stack \in [Threads -> Seq(Activations)] /\ exception \in [Threads -> BOOLEAN]
  BY DEF IInv, TypeOK, StacksTypeOK, LocalsTypeOK
<1>2. \A u \in Threads \ {t} : exception'[u] = exception[u]
  BY <1>1 DEF ThreadStep, ClassStep, interrupted, interruptWait, Throw, findHashedClass,
     loadSystemClass, addClassToHash, setSuper, linkClass, prepareFields, allocTable, fillTable,
     setLinked, testState, initSuper, superInitialised, runBody, readType, readIndex, checkType,
     lookup, setInfo, setResolved, nextInstruction, dispatch, readOperand, checkOpcode, resolved,
     rewriteOperand, rewriteOpcode, useQuick
<1>3. ASSUME NEW u \in Threads \ {t},
             \/ Return(t)
             \/ \E l : Goto(t, l)
             \/ \E a : Become(t, a)
             \/ \E a, l : Call(t, a, l)
             \/ \E x : stack' = [stack EXCEPT ![t] = x]
      PROVE  stack'[u] = stack[u]
  BY <1>1, <1>3 DEF Return, Goto, Become, Call
<1>4. ASSUME NEW u \in Threads \ {t} PROVE stack'[u] = stack[u]
  <2>1. CASE ClassStep(t) \/ interrupted(t)
    BY <1>3, <2>1 DEF ClassStep, Found, defineClass, executeStaticMethod, interrupted,
       interruptWait, findHashedClass,
       loadSystemClass, addClassToHash, setSuper, linkClass, prepareFields, allocTable, fillTable,
       setLinked, testState, initSuper, superInitialised, runBody
  <2>2. CASE nextInstruction(t)
    BY <1>3, <2>2 DEF nextInstruction
  <2>3. CASE ThreadStep(t) /\ ~ClassStep(t) /\ ~nextInstruction(t)
    <3>1. \/ Return(t)
          \/ \E l \in Code : Goto(t, l)
          \/ \E x, l : l \in Code /\ Call(t, Activation("find", x), l)
          \/ \E x, l : l \in Code /\ Call(t, Activation("resolve", x), l)
          \/ \E c : stack' = [stack EXCEPT ![t] = InitClass(c, Tail(@))]
      BY <2>3, CodeShapes DEF ThreadStep
    <3>2. \/ Return(t)
          \/ \E l : Goto(t, l)
          \/ \E a, l : Call(t, a, l)
          \/ \E x : stack' = [stack EXCEPT ![t] = x]
      BY <3>1
    <3> QED
      BY <1>3, <3>2
  <2> QED
    BY <2>1, <2>2, <2>3
<1> QED
  BY <1>2, <1>4 DEF Alone

LEMMA UseKeeps ==
    ASSUME BodiesApart, IInv, TypeOK', CInv, NobodyRelinks, UInv, [Next]_vars
    PROVE  UInv'
<1>1. ASSUME NEW t \in Threads, ThreadStep(t) \/ interrupted(t) PROVE UInv'
  <2>1. StaticsReady'
    BY <1>1, ReadyStays
  <2>2. CASE endInit(t)
    BY <1>1, <2>1, <2>2, EndUse
  <2>3. CASE ~endInit(t)
    <3>1. Mine(t)'
      <4>1. PICK e : e = Top(t).on
        OBVIOUS
      <4>2. TypeOK
        BY DEF IInv
      <4> QED
        BY <1>1, <2>3, <4>1, <4>2, FindUse, TestUse, InitUse, EntryUse, InstrUse, InstructionUse
           DEF ThreadStep, ClassStep, interrupted
    <3>2. Alone(t)
      BY <1>1, <2>3, StepAlone
    <3> QED
      BY <1>1, <2>1, <3>1, <3>2, UseStep DEF Alone
  <2> QED
    BY <2>2, <2>3
<1>2. CASE UNCHANGED vars
  <2>1. UNCHANGED <<flags, tid, stack, exception, cp, code>>
    BY <1>2 DEF vars, classVars, threadVars, sharedVars
  <2> QED
    BY <2>1 DEF UInv, StaticsReady, Chain, FirstSure, Sure, Counts, Gets, UsableBy, Raw
<1> QED
  BY <1>1, <1>2 DEF Next

LEMMA UseBegins == Init => UInv
<1> SUFFICES ASSUME Init PROVE UInv
  OBVIOUS
<1>1. \A t \in Threads : stack[t] = <<>> /\ Len(stack[t]) = 0
  BY DEF Init, InitClasses
<1>2. \A e \in StaticRefs : Raw(e)
  BY StaticTypes DEF Init, Raw
<1>3. \A i \in Instrs : code[i].opcode # "quick"
  BY DEF Init
<1> QED
  BY <1>1, <1>2, <1>3 DEF UInv, StaticsReady, Chain, FirstSure

LEMMA UseStays == ASSUME BodiesApart PROVE Spec /\ []NobodyRelinks => []UInv
<1>1. IInv /\ IInv' /\ CInv /\ NobodyRelinks /\ UInv /\ [Next]_vars => UInv'
  <2>1. IInv' => TypeOK'
    BY DEF IInv
  <2> QED
    BY <2>1, UseKeeps
<1> QED
  BY <1>1, UseBegins, Initialisation, Invariance, PTL DEF Spec

LEMMA UseHolds == UInv => UsedWhenInitialised
<1> SUFFICES ASSUME UInv, NEW t \in Threads, stack[t] # <<>>, NEW i, i = Top(t).on
             PROVE  /\ Top(t).at = "use" /\ Kind[i] = "new" => UsableBy(t, Ref[i])
                    /\ Top(t).at = "quick" /\ Kind[i] = "static" => UsableBy(t, ClassOf[Ref[i]])
  BY DEF UsedWhenInitialised
<1>1. Sure(t, Head(stack[t]))
  BY DEF UInv, FirstSure
<1> QED
  BY <1>1 DEF Sure, Top, UsableBy

(* A static field or method is used, and an object allocated, only when    *)
(* the class is initialised or by the thread that initialises it: a byte   *)
(* code becomes quick after that, though initClass is not asked again.     *)
THEOREM UsedAfterInitialisation ==
    ASSUME BodiesApart
    PROVE  Spec /\ []NobodyRelinks => []UsedWhenInitialised
BY UseStays, UseHolds, PTL

(* So it is, whatever the threads do, once all classes are linked.         *)
THEOREM LinkedAreUsedWhenInitialised ==
    ASSUME BodiesApart, Linked = Classes
    PROVE  Spec => []UsedWhenInitialised
BY UsedAfterInitialisation, NobodyRelinksLinked, PTL

-----------------------------------------------------------------------------
(* What a class inherits.  No thread begins to initialise a class while it *)
(* initialises the superclass, as a <clinit> that uses a subclass of its   *)
(* class would make it: should that <clinit> fail later, the subclass may  *)
(* be initialised and its superclass is in error.                          *)
SupersLeaveSubclasses ==
    \A t \in Threads : \A j, k \in 1..Len(stack[t]) :
        j < k /\ {stack[t][j].at, stack[t][k].at} \subseteq InitLabels
            => stack[t][k].on # Super[stack[t][j].on]

(* An activation that waits for the superclass has it above, in initClass; *)
(* if that is gone, the superclass is ready or there is an exception.  One *)
(* that failed has an exception too.                                       *)
Climbs(t) ==
    \A k \in 1..Len(stack[t]) : LET b == stack[t][k] IN
        /\ b.at = "super_initialised" =>
            /\ Super[b.on] # Nil
            /\ k > 1 => LET a == stack[t][k - 1] IN a.on = Super[b.on] /\ a.at \in LockLabels
            /\ k = 1 /\ ~exception[t] => UsableBy(t, Super[b.on])
        /\ b.at = "failed" => k = 1 /\ exception[t]

WholeInv == \A c \in Classes : table[c] = "whole" /\ (super[c] <=> Super[c] # Nil)

(* The superclass of a class whose <clinit> has been run is initialised.   *)
SupersInv == \A c \in Classes : ran[c] > 0 /\ Super[c] \notin {Nil, c} => flags[Super[c]] = "INITED"

(* Where an activation below the first one comes to be.                    *)
LEMMA Shifted ==
    ASSUME NEW n \in Nat \ {0}, NEW m \in {0, 1, 2, 3}, NEW k \in 1..(n - 1 + m), k > m
    PROVE  \E j \in 2..n :
              /\ k = j + (m - 1) /\ j > 1 /\ j \in 1..n /\ j \in Nat
              /\ j = 2 => k = m + 1
              /\ j > 2 => j - 1 \in 2..n /\ k - 1 = (j - 1) + (m - 1) /\ k > 1
<1>1. /\ k - (m - 1) \in 2..n /\ k = (k - (m - 1)) + (m - 1)
      /\ k - (m - 1) > 1 /\ k - (m - 1) \in 1..n /\ k - (m - 1) \in Nat
  OBVIOUS
<1>2. k - (m - 1) = 2 => k = m + 1
  OBVIOUS
<1>3. k - (m - 1) > 2 => /\ (k - (m - 1)) - 1 \in 2..n /\ k > 1
                         /\ k - 1 = ((k - (m - 1)) - 1) + (m - 1)
  OBVIOUS
<1> QED
  BY <1>1, <1>2, <1>3

LEMMA ClimbsOn ==
    ASSUME TypeOK, TypeOK', NEW t \in Threads, stack[t] # <<>>, Climbs(t),
           NEW m \in {0, 1, 2, 3}, Len(stack'[t]) = Len(stack[t]) - 1 + m,
           \A k \in 2..Len(stack[t]) : stack'[t][k + (m - 1)] = stack[t][k],
           \A k \in 1..m : stack'[t][k].at = "super_initialised" =>
              /\ k > 1 /\ Super[stack'[t][k].on] # Nil
              /\ stack'[t][k - 1].on = Super[stack'[t][k].on] /\ stack'[t][k - 1].at \in LockLabels,
           \A k \in 1..m : stack'[t][k].at = "failed" => k = 1 /\ exception'[t],
           NEW c, c = stack[t][1].on,
           stack[t][1].at \in LockLabels /\ m = 0 => exception'[t] \/ UsableBy(t, c)',
           stack[t][1].at \in LockLabels /\ m > 0 =>
              stack'[t][m].at \in LockLabels /\ stack'[t][m].on = stack[t][1].on
    PROVE  Climbs(t)'
<1>1. Len(stack[t]) \in Nat \ {0} /\ Len(stack'[t]) \in Nat
  BY StackTypes
<1> DEFINE Knows(k, b) ==
        /\ Super[b.on] # Nil
        /\ k > 1 => LET a == stack'[t][k - 1] IN a.on = Super[b.on] /\ a.at \in LockLabels
        /\ k = 1 /\ ~exception'[t] => (flags'[Super[b.on]] = "INITED"
                 \/ (flags'[Super[b.on]] = "INITING" /\ tid'[Super[b.on]] = t))
<1>2. SUFFICES ASSUME NEW k \in 1..Len(stack'[t]), NEW b, b = stack'[t][k]
               PROVE  /\ b.at = "super_initialised" => Knows(k, b)
                      /\ b.at = "failed" => k = 1 /\ exception'[t]
  BY DEF Climbs, UsableBy
<1>3. CASE k <= m
  <2>1. k \in 1..m
    BY <1>2, <1>3
  <2> QED
    BY <1>2, <2>1
<1>4. CASE k > m
  <2>1. PICK j \in 2..Len(stack[t]) :
              /\ k = j + (m - 1) /\ j > 1 /\ j \in 1..Len(stack[t]) /\ j \in Nat
              /\ j = 2 => k = m + 1
              /\ j > 2 => j - 1 \in 2..Len(stack[t]) /\ k - 1 = (j - 1) + (m - 1) /\ k > 1
    <3>1. PICK n : n = Len(stack[t]) /\ n \in Nat \ {0}
      BY <1>1
    <3>2. k \in 1..(n - 1 + m)
      BY <1>2, <3>1
    <3>3. \E j \in 2..n :
              /\ k = j + (m - 1) /\ j > 1 /\ j \in 1..n /\ j \in Nat
              /\ j = 2 => k = m + 1
              /\ j > 2 => j - 1 \in 2..n /\ k - 1 = (j - 1) + (m - 1) /\ k > 1
      BY <1>4, <3>1, <3>2, Shifted
    <3> QED
      BY <3>1, <3>3
  <2>2. PICK a : a = stack[t][j - 1]
    OBVIOUS
  <2>3. stack'[t][k] = b /\ b = stack[t][j]
    BY <1>2, <2>1
  <2>4. j > 1 /\ j # 1 /\ j \in 1..Len(stack[t])
    BY <2>1
  <2>5. b.at # "failed"
    BY <2>3, <2>4 DEF Climbs
  <2>6. SUFFICES ASSUME b.at = "super_initialised" PROVE Knows(k, b)
    BY <2>5
  <2>7. Super[b.on] # Nil /\ a.on = Super[b.on] /\ a.at \in LockLabels
    BY <2>2, <2>3, <2>4, <2>6 DEF Climbs
  <2>8. CASE j > 2
    <3>1. j - 1 \in 2..Len(stack[t]) /\ k - 1 = (j - 1) + (m - 1) /\ k > 1 /\ k # 1
      BY <2>1, <2>8
    <3>2. stack'[t][k - 1] = a
      BY <2>2, <3>1
    <3> QED
      BY <2>7, <3>1, <3>2
  <2>9. CASE j = 2 /\ m > 0
    <3>1. k - 1 = m /\ k > 1 /\ k # 1 /\ a = stack[t][1]
      BY <2>1, <2>2, <2>9
    <3> QED
      BY <2>7, <2>9, <3>1
  <2>10. CASE j = 2 /\ m = 0
    <3>1. k = 1 /\ ~(k > 1) /\ a = stack[t][1]
      BY <2>1, <2>2, <2>10
    <3>2. exception'[t] \/ UsableBy(t, c)'
      BY <2>7, <2>10, <3>1
    <3> QED
      BY <2>7, <3>1, <3>2 DEF UsableBy
  <2> QED
    BY <2>1, <2>8, <2>9, <2>10
<1> QED
  BY <1>1, <1>3, <1>4

(* The forms of a step of the thread itself.                               *)
LEMMA ClimbsReplaces ==
    ASSUME TypeOK, TypeOK', NEW t \in Threads, stack[t] # <<>>, Climbs(t),
           NEW a, Replaces(t, a), a.at # "super_initialised", a.at = "failed" => exception'[t],
           stack[t][1].at \in LockLabels => a.at \in LockLabels /\ a.on = stack[t][1].on
    PROVE  Climbs(t)'
<1>1. /\ stack[t] \in Seq(Activations) /\ stack'[t] = <<a>> \o Tail(stack[t])
  BY StackTypes DEF Replaces, TypeOK, StacksTypeOK
<1>2. /\ Len(stack'[t]) = Len(stack[t]) - 1 + 1 /\ stack'[t][1] = a
      /\ \A k \in 2..Len(stack[t]) : stack'[t][k + (1 - 1)] = stack[t][k]
  BY <1>1
<1>3. \A k \in 1..1 : stack'[t][k] = a
  BY <1>2
<1>4. 1 \in {0, 1, 2, 3} /\ 1 > 0 /\ 1 # 0 /\ \A k \in 1..1 : k = 1
  OBVIOUS
<1> QED
  BY <1>2, <1>3, <1>4, ClimbsOn

LEMMA ClimbsPushes ==
    ASSUME TypeOK, TypeOK', NEW t \in Threads, stack[t] # <<>>, Climbs(t),
           NEW a, NEW b, Pushes(t, b, a), {a.at, b.at} \cap {"super_initialised", "failed"} = {},
           stack[t][1].at \in LockLabels => a.at \in LockLabels /\ a.on = stack[t][1].on
    PROVE  Climbs(t)'
<1>1. /\ stack[t] \in Seq(Activations) /\ stack'[t] = <<b, a>> \o Tail(stack[t])
  BY StackTypes DEF Pushes, TypeOK, StacksTypeOK
<1>2. /\ Len(stack'[t]) = Len(stack[t]) - 1 + 2 /\ stack'[t][1] = b /\ stack'[t][2] = a
      /\ \A k \in 2..Len(stack[t]) : stack'[t][k + (2 - 1)] = stack[t][k]
  BY <1>1
<1>3. \A k \in 1..2 : stack'[t][k] \in {a, b}
  BY <1>2
<1>4. 2 \in {0, 1, 2, 3} /\ 2 > 0 /\ 2 # 0
  OBVIOUS
<1> QED
  BY <1>2, <1>3, <1>4, ClimbsOn

LEMMA ClimbsReturns ==
    ASSUME TypeOK, TypeOK', NEW t \in Threads, stack[t] # <<>>, Climbs(t),
           stack'[t] = Tail(stack[t]), NEW c, c = stack[t][1].on,
           stack[t][1].at \in LockLabels => exception'[t] \/ UsableBy(t, c)'
    PROVE  Climbs(t)'
<1>1. stack[t] \in Seq(Activations)
  BY StackTypes
<1>2. /\ Len(stack'[t]) = Len(stack[t]) - 1 + 0
      /\ \A k \in 2..Len(stack[t]) : stack'[t][k + (0 - 1)] = stack[t][k]
  BY <1>1
<1>3. 0 \in {0, 1, 2, 3} /\ ~(0 > 0) /\ \A k \in 1..0 : FALSE
  OBVIOUS
<1> QED
  BY <1>2, <1>3, ClimbsOn

(* initClass is called, by the activation a or as the last thing it does.  *)
LEMMA ClimbsInits ==
    ASSUME TypeOK, TypeOK', NEW t \in Threads, stack[t] # <<>>, Climbs(t), NEW c,
           \/ /\ stack'[t] = InitClass(c, Tail(stack[t])) /\ stack[t][1].at \notin LockLabels
           \/ \E a : /\ a.on = stack[t][1].on /\ a.at = "super_initialised"
                     /\ Super[a.on] = c /\ c # Nil
                     /\ stack'[t] = InitClass(c, <<a>> \o Tail(stack[t]))
    PROVE  Climbs(t)'
<1>1. stack[t] \in Seq(Activations) /\ Len(stack[t]) \in Nat \ {0}
  BY StackTypes
<1>2. PICK b, e : b = Activation("link", c) /\ e = Activation("lock", c)
  OBVIOUS
<1>3. b.at = "link" /\ e.at = "lock" /\ e.on = c /\ {"lock", "super_initialised"} \subseteq LockLabels
  BY <1>2, Activated DEF LockLabels, InitLabels
<1>4. CASE stack'[t] = InitClass(c, Tail(stack[t])) /\ stack[t][1].at \notin LockLabels
  <2>1. stack'[t] = <<b, e>> \o Tail(stack[t])
    BY <1>2, <1>4 DEF InitClass
  <2>2. /\ Len(stack'[t]) = Len(stack[t]) - 1 + 2 /\ stack'[t][1] = b /\ stack'[t][2] = e
        /\ \A k \in 2..Len(stack[t]) : stack'[t][k + (2 - 1)] = stack[t][k]
    BY <1>1, <2>1
  <2>3. \A k \in 1..2 : stack'[t][k] \in {b, e}
    BY <2>2
  <2> QED
    BY <1>3, <1>4, <2>2, <2>3, ClimbsOn
<1>5. ASSUME NEW a, a.on = stack[t][1].on, a.at = "super_initialised", Super[a.on] = c, c # Nil,
             stack'[t] = InitClass(c, <<a>> \o Tail(stack[t]))
      PROVE  Climbs(t)'
  <2>1. stack'[t] = <<b, e>> \o (<<a>> \o Tail(stack[t]))
    BY <1>2, <1>5 DEF InitClass
  <2>2. /\ Len(stack'[t]) = Len(stack[t]) - 1 + 3
        /\ stack'[t][1] = b /\ stack'[t][2] = e /\ stack'[t][3] = a
        /\ \A k \in 2..Len(stack[t]) : stack'[t][k + 2] = stack[t][k]
    <3>1. PICK s : s = stack[t] /\ s \in Seq(Activations) /\ Len(s) \in Nat \ {0}
      BY <1>1
    <3>2. stack'[t] = <<b, e>> \o (<<a>> \o Tail(s))
      BY <2>1, <3>1
    <3>3. /\ Len(stack'[t]) = Len(s) - 1 + 3
          /\ stack'[t][1] = b /\ stack'[t][2] = e /\ stack'[t][3] = a
      BY <3>1, <3>2
    <3>4. \A k \in 2..Len(s) : stack'[t][k + 2] = s[k]
      BY <3>1, <3>2
    <3> QED
      BY <3>1, <3>3, <3>4
  <2>3. \A k \in 2..Len(stack[t]) : stack'[t][k + (3 - 1)] = stack[t][k]
    <3>1. \A k \in 2..Len(stack[t]) : k + (3 - 1) = k + 2
      BY <1>1
    <3> QED
      BY <2>2, <3>1
  <2>4. \A k \in 1..3 : stack'[t][k].at = "super_initialised" =>
              /\ k > 1 /\ Super[stack'[t][k].on] # Nil
              /\ stack'[t][k - 1].on = Super[stack'[t][k].on] /\ stack'[t][k - 1].at \in LockLabels
    <3>1. \A k \in 1..3 : stack'[t][k].at = "super_initialised" => k = 3
      BY <1>3, <2>2
    <3>2. 3 > 1 /\ stack'[t][3 - 1] = e
      BY <2>2
    <3> QED
      BY <1>3, <1>5, <2>2, <3>1, <3>2
  <2>5. 3 \in {0, 1, 2, 3} /\ 3 > 0 /\ 3 # 0
    OBVIOUS
  <2>6. \A k \in 1..3 : stack'[t][k].at # "failed"
    BY <1>3, <1>5, <2>2
  <2> QED
    BY <1>3, <1>5, <2>2, <2>3, <2>4, <2>5, <2>6, ClimbsOn
<1> QED
  BY <1>4, <1>5

LEMMA ClimbsSteps ==
    ASSUME TypeOK, TypeOK', NEW t \in Threads, stack[t] # <<>>, Climbs(t),
           \/ stack[t][1].at \notin LockLabels /\ Return(t)
           \/ \E l \in LockLabels \ {"super_initialised"} :
                 Goto(t, l) /\ (l = "failed" => exception'[t])
           \/ \E l : stack[t][1].at \notin LockLabels /\ l \notin LockLabels /\ Goto(t, l)
           \/ \E l, x : /\ stack[t][1].at \notin LockLabels /\ l \notin LockLabels
                        /\ Become(t, Activation(l, x))
           \/ \E l, k, x : /\ stack[t][1].at \notin LockLabels
                           /\ {k, l} \cap LockLabels = {} /\ Call(t, Activation(k, x), l)
           \/ \E c : /\ stack' = [stack EXCEPT ![t] = InitClass(c, Tail(@))]
                     /\ stack[t][1].at \notin LockLabels
    PROVE  Climbs(t)'
<1>1. /\ stack[t][1] \in Activations /\ stack \in [Threads -> Seq(Activations)]
      /\ {"super_initialised", "failed"} \subseteq LockLabels
  BY Shapes DEF TypeOK, StacksTypeOK, LockLabels, InitLabels
<1>2. CASE stack[t][1].at \notin LockLabels /\ Return(t)
  BY <1>2, Returned, ClimbsReturns
<1>3. ASSUME NEW l, Goto(t, l), l # "super_initialised", l = "failed" => exception'[t],
             l \in LockLabels \/ stack[t][1].at \notin LockLabels
      PROVE  Climbs(t)'
  <2>1. PICK a : a = [stack[t][1] EXCEPT !.at = l]
    OBVIOUS
  <2>2. a.at = l /\ a.on = stack[t][1].on /\ Replaces(t, a)
    BY <1>1, <1>3, <2>1, Relabelled, Shapes
  <2> QED
    BY <1>3, <2>2, ClimbsReplaces
<1>4. ASSUME NEW l, NEW x, stack[t][1].at \notin LockLabels, l \notin LockLabels,
             Become(t, Activation(l, x))
      PROVE  Climbs(t)'
  <2>1. PICK a : a = Activation(l, x)
    OBVIOUS
  <2>2. a.at = l /\ Replaces(t, a)
    BY <1>4, <2>1, Activated, Shapes
  <2> QED
    BY <1>1, <1>4, <2>2, ClimbsReplaces
<1>5. ASSUME NEW l, NEW k, NEW x, stack[t][1].at \notin LockLabels,
             {k, l} \cap LockLabels = {}, Call(t, Activation(k, x), l)
      PROVE  Climbs(t)'
  <2>1. PICK a, b : a = [stack[t][1] EXCEPT !.at = l] /\ b = Activation(k, x)
    OBVIOUS
  <2>2. a.at = l /\ b.at = k
    BY <1>1, <2>1, Activated, Relabelled
  <2>3. Pushes(t, b, a)
    BY <1>5, <2>1, Shapes
  <2> QED
    BY <1>1, <1>5, <2>2, <2>3, ClimbsPushes
<1>6. ASSUME NEW c, stack' = [stack EXCEPT ![t] = InitClass(c, Tail(@))],
             stack[t][1].at \notin LockLabels
      PROVE  Climbs(t)'
  <2>1. stack'[t] = InitClass(c, Tail(stack[t]))
    BY <1>1, <1>6
  <2> QED
    BY <1>6, <2>1, ClimbsInits
<1>7. \A l : l \notin LockLabels => l \notin {"super_initialised", "failed"}
  BY <1>1
<1> QED
  BY <1>2, <1>3, <1>4, <1>5, <1>6, <1>7

(* The stacks of the others.                                               *)
LEMMA ClimbsStays ==
    ASSUME IInv, CInv, NobodyRelinks, NEW t \in Threads, ThreadStep(t) \/ interrupted(t),
           NEW u \in Threads \ {t}, Climbs(u), exception'[u] = exception[u],
           Len(stack'[u]) = Len(stack[u]),
           \A k \in 2..Len(stack[u]) : stack'[u][k] = stack[u][k],
           stack[u] # <<>> =>
              \/ stack'[u][1] = stack[u][1]
              \/ /\ stack'[u][1].at = "woken" /\ stack[u][1].at = "waiting"
                 /\ stack'[u][1].on = stack[u][1].on
    PROVE  Climbs(u)'
<1>1. \A c \in Classes : UsableBy(u, c) => UsableBy(u, c)'
  BY FlagsStay DEF UsableBy
<1>2. /\ Len(stack[u]) \in Nat /\ (stack[u] # <<>> <=> Len(stack[u]) >= 1)
      /\ \A k \in 1..Len(stack[u]) : stack[u][k] \in Activations
  BY StackTypes DEF IInv
<1>3. \A k \in 1..Len(stack[u]) :
         \/ stack'[u][k] = stack[u][k]
         \/ /\ stack'[u][k].at = "woken" /\ stack[u][k].at = "waiting"
            /\ stack'[u][k].on = stack[u][k].on
  BY <1>2
<1>4. SUFFICES ASSUME NEW k \in 1..Len(stack[u]), NEW b, b = stack'[u][k],
                      b.at \in {"super_initialised", "failed"}
               PROVE  /\ b.at = "super_initialised" =>
                            /\ Super[b.on] # Nil
                            /\ k > 1 => LET a == stack'[u][k - 1] IN
                                        a.on = Super[b.on] /\ a.at \in LockLabels
                            /\ k = 1 /\ ~exception'[u] => UsableBy(u, Super[b.on])'
                      /\ b.at = "failed" => k = 1 /\ exception'[u]
  BY DEF Climbs, UsableBy
<1>5. b = stack[u][k] /\ b \in Activations
  BY <1>2, <1>3, <1>4
<1>6. CASE b.at = "failed"
  BY <1>4, <1>5, <1>6 DEF Climbs
<1>7. CASE b.at = "super_initialised"
  <2>1. /\ Super[b.on] # Nil
        /\ k > 1 => LET a == stack[u][k - 1] IN a.on = Super[b.on] /\ a.at \in LockLabels
        /\ k = 1 /\ ~exception[u] => UsableBy(u, Super[b.on])
    BY <1>4, <1>5, <1>7 DEF Climbs
  <2>2. Super[b.on] \in Classes
    <3>1. b.on \in Classes
      BY <1>5, <1>7, Subjects DEF ClassLabels
    <3> QED
      BY <2>1, <3>1, HierarchyAssumption
  <2>3. ASSUME k > 1 PROVE LET a == stack'[u][k - 1] IN a.on = Super[b.on] /\ a.at \in LockLabels
    <3>1. k - 1 \in 1..Len(stack[u])
      BY <1>2, <1>4, <2>3
    <3>2. PICK a, d : a = stack[u][k - 1] /\ d = stack'[u][k - 1]
      OBVIOUS
    <3>3. d = a \/ (d.at = "woken" /\ d.on = a.on)
      BY <1>3, <3>1, <3>2
    <3> QED
      BY <2>1, <2>3, <3>2, <3>3 DEF LockLabels
  <2>4. ASSUME k = 1, ~exception'[u] PROVE UsableBy(u, Super[b.on])'
    <3>1. PICK c \in Classes : c = Super[b.on]
      BY <2>2
    <3>2. UsableBy(u, c)
      BY <2>1, <2>4, <3>1
    <3>3. UsableBy(u, c)'
      BY <1>1, <3>2
    <3> QED
      BY <3>1, <3>3
  <2> QED
    BY <1>7, <2>1, <2>3, <2>4
<1> QED
  BY <1>4, <1>6, <1>7

(* The steps of the thread itself.                                         *)
LEMMA FindClimbs ==
    ASSUME IInv, TypeOK', NEW t \in Threads, Climbs(t),
           \/ findHashedClass(t) \/ loadSystemClass(t) \/ addClassToHash(t) \/ setSuper(t)
           \/ linkClass(t) \/ prepareFields(t) \/ allocTable(t) \/ fillTable(t) \/ setLinked(t)
    PROVE  Climbs(t)'
<1> DEFINE Finding == {"find", "parsed", "super_found", "link", "prepare", "allocate_table",
                       "fill_table", "linked"}
<1>1. Finding \cap LockLabels = {} /\ TypeOK
  BY DEF LockLabels, InitLabels, IInv
<1>2. stack[t] # <<>> /\ stack[t][1].at \in Finding
  <2>1. PICK l \in Finding : At(t, l)
    BY DEF findHashedClass, loadSystemClass, addClassToHash, setSuper, linkClass, prepareFields,
       allocTable, fillTable, setLinked
  <2> QED
    BY <2>1, AtTop
<1>3. Found(t) => Return(t) \/ \E x : Become(t, Activation("link", x))
  BY DEF Found
<1>4. \/ Return(t)
      \/ \E l \in Finding : Goto(t, l)
      \/ \E x : Become(t, Activation("link", x))
      \/ \E k \in Finding, l \in Finding : \E x : Call(t, Activation(k, x), l)
  <2>1. CASE findHashedClass(t) \/ setSuper(t)
    BY <1>3, <2>1 DEF findHashedClass, setSuper
  <2>2. CASE loadSystemClass(t)
    BY <2>2 DEF loadSystemClass, defineClass
  <2>3. CASE addClassToHash(t)
    BY <1>3, <2>3 DEF addClassToHash
  <2>4. CASE linkClass(t)
    BY <2>4 DEF linkClass
  <2>5. CASE prepareFields(t) \/ allocTable(t) \/ fillTable(t) \/ setLinked(t)
    BY <2>5 DEF prepareFields, allocTable, fillTable, setLinked
  <2> QED
    BY <2>1, <2>2, <2>3, <2>4, <2>5
<1>5. stack[t][1].at \notin LockLabels /\ \A l \in Finding : l \notin LockLabels
  BY <1>1, <1>2
<1>6. "link" \in Finding
  OBVIOUS
<1> HIDE DEF Finding
<1> QED
  BY <1>1, <1>2, <1>4, <1>5, <1>6, ClimbsSteps

LEMMA TestClimbs ==
    ASSUME IInv, TypeOK', NEW t \in Threads, Climbs(t), testState(t) \/ interruptWait(t)
    PROVE  Climbs(t)'
<1> USE DEF InitLabels, LockLabels
<1>1. stack[t] # <<>> /\ Top(t) = stack[t][1] /\ TypeOK
  <2>1. PICK l \in {"lock", "woken", "waiting"} : At(t, l)
    BY DEF testState, interruptWait
  <2> QED
    BY <2>1, AtTop DEF IInv
<1>2. CASE \E l \in {"waiting", "init_super", "woken"} : Goto(t, l)
  BY <1>1, <1>2, ClimbsSteps
<1>3. CASE /\ Return(t)
           /\ \/ exception'[t]
              \/ UNCHANGED <<flags, tid>> /\ UsableBy(t, Top(t).on)
  <2>1. PICK c : c = Top(t).on
    OBVIOUS
  <2>2. exception'[t] \/ UsableBy(t, c)'
    BY <1>3, <2>1 DEF UsableBy
  <2> QED
    BY <1>1, <1>3, <2>1, <2>2, Returned, ClimbsReturns
<1>4. CASE testState(t)
  <2>1. Throw(t) => exception'[t]
    BY DEF Throw, IInv, TypeOK, LocalsTypeOK
  <2> QED
    BY <1>2, <1>3, <1>4, <2>1 DEF testState, UsableBy
<1>5. CASE interruptWait(t)
  BY <1>2, <1>5 DEF interruptWait
<1> QED
  BY <1>4, <1>5

LEMMA InitClimbs ==
    ASSUME IInv, TypeOK', NEW t \in Threads, Climbs(t),
           initSuper(t) \/ superInitialised(t) \/ runBody(t)
    PROVE  Climbs(t)'
<1> DEFINE c == Top(t).on
<1>1. /\ stack[t] # <<>> /\ Top(t) = stack[t][1] /\ stack[t][1].at \in LockLabels
      /\ stack[t][1] \in Activations /\ c \in Classes /\ TypeOK
  <2>1. PICK l \in {"init_super", "super_initialised", "body"} : At(t, l)
    BY DEF initSuper, superInitialised, runBody
  <2> QED
    BY <2>1, ClassTop DEF ClassLabels, IInv, InitLabels, LockLabels
<1>2. {"body", "initialised", "failed"} \subseteq LockLabels \ {"super_initialised"}
  BY DEF LockLabels, InitLabels
<1>3. CASE Goto(t, "body") \/ Goto(t, "initialised") \/ (Goto(t, "failed") /\ exception'[t])
  <2>1. \E l \in LockLabels \ {"super_initialised"} : Goto(t, l) /\ (l = "failed" => exception'[t])
    BY <1>2, <1>3
  <2> QED
    BY <1>1, <2>1, ClimbsSteps
<1>4. stack \in [Threads -> Seq(Activations)] /\ Head(stack[t]) = stack[t][1]
  BY <1>1, StackTypes DEF TypeOK, StacksTypeOK
<1>5. CASE /\ super[c]
           /\ stack' = [stack EXCEPT ![t] =
                 InitClass(Super[c], <<[Head(@) EXCEPT !.at = "super_initialised"]>> \o Tail(@))]
  <2>1. PICK a : a = [stack[t][1] EXCEPT !.at = "super_initialised"]
    OBVIOUS
  <2>2. a.at = "super_initialised" /\ a.on = stack[t][1].on
    BY <1>1, <2>1, Relabelled
  <2>3. Super[c] # Nil
    BY <1>1, <1>5 DEF TypeOK, ClassesTypeOK
  <2>4. stack'[t] = InitClass(Super[c], <<a>> \o Tail(stack[t]))
    BY <1>4, <1>5, <2>1
  <2> QED
    BY <1>1, <2>2, <2>3, <2>4, ClimbsInits
<1>6. CASE /\ runBody(t)
           /\ stack' = [stack EXCEPT ![t] =
                 <<Activation("dispatch", Body[c][Top(t).next]),
                   [Top(t) EXCEPT !.next = @ + 1]>> \o Tail(@)]
  <2>1. PICK a, b : /\ a = [Top(t) EXCEPT !.next = @ + 1]
                    /\ b = Activation("dispatch", Body[c][Top(t).next])
    OBVIOUS
  <2>2. Top(t).at = "body"
    BY <1>6 DEF runBody, At
  <2>3. a.at = "body" /\ a.on = c /\ b.at = "dispatch"
    BY <1>1, <2>1, <2>2, Activated DEF Activations
  <2>4. Pushes(t, b, a)
    BY <1>6, <2>1 DEF Pushes
  <2> QED
    BY <1>1, <1>2, <2>3, <2>4, ClimbsPushes
<1>7. CASE initSuper(t)
  BY <1>3, <1>5, <1>7 DEF initSuper, executeStaticMethod
<1>8. CASE superInitialised(t)
  <2>1. exception[t] => exception'[t]
    BY <1>8 DEF superInitialised
  <2> QED
    BY <1>3, <1>8, <2>1 DEF superInitialised, executeStaticMethod
<1>9. CASE runBody(t)
  <2>1. Throw(t) => exception'[t]
    BY <1>1 DEF Throw, TypeOK, LocalsTypeOK
  <2> QED
    BY <1>3, <1>6, <1>9, <2>1 DEF runBody
<1> QED
  BY <1>7, <1>8, <1>9

LEMMA EndClimbs ==
    ASSUME IInv, TypeOK', CInv, NobodyRelinks, NEW t \in Threads, endInit(t),
           ThreadStep(t) \/ interrupted(t), \A u \in Threads : Climbs(u)
    PROVE  \A u \in Threads : Climbs(u)'
<1> DEFINE c == Top(t).on
           stk == [stack EXCEPT ![t] = Tail(@)]
<1>1. /\ stack[t] # <<>> /\ Top(t) = stack[t][1] /\ stack[t][1].at \in {"failed", "initialised"}
      /\ c \in Classes /\ TypeOK /\ ThreadOK(t)
  <2>1. PICK l \in {"failed", "initialised"} : At(t, l)
    BY DEF endInit
  <2> QED
    BY <2>1, ClassTop DEF ClassLabels, IInv
<1>2. /\ stack[t] \in Seq(Activations) /\ Len(stack[t]) \in Nat \ {0}
      /\ stack \in [Threads -> Seq(Activations)] /\ flags \in [Classes -> Flags]
  BY <1>1, StackTypes DEF TypeOK, StacksTypeOK, ClassesTypeOK
<1>3. stack' = WakeAll(stk, c) /\ UNCHANGED exception
  BY DEF endInit
<1>4. /\ stk[t] = Tail(stack[t])
      /\ \A u \in Threads \ {t} : stk[u] = stack[u]
      /\ \A u \in Threads : stk[u] \in Seq(Activations)
  BY <1>1, <1>2
<1>5. stack'[t] = Tail(stack[t])
  <2>1. stack'[t] = stk[t] \/ (stk[t] # <<>> /\ Head(stk[t]).at = "waiting")
    BY <1>3 DEF WakeAll
  <2>2. SUFFICES ASSUME stk[t] # <<>> PROVE Head(stk[t]).at # "waiting"
    BY <1>4, <2>1
  <2>3. 2 \in 2..Len(stack[t]) /\ Head(stk[t]) = stack[t][2]
    BY <1>2, <1>4, <2>2
  <2>4. Waits(stack[t][2], stack[t][2 - 1])
    BY <1>1, <2>3 DEF ThreadOK
  <2> QED
    BY <2>3, <2>4 DEF Waits, CallLabels
<1>6. Climbs(t)'
  <2>1. PICK x : x = c
    OBVIOUS
  <2>2. CASE stack[t][1].at = "failed"
    <3>1. exception[t]
      BY <1>2, <2>2 DEF Climbs
    <3> QED
      BY <1>1, <1>3, <1>5, <2>1, <3>1, ClimbsReturns
  <2>3. CASE stack[t][1].at = "initialised"
    <3>1. flags' = [flags EXCEPT ![x] = "INITED"]
      BY <1>1, <2>1, <2>3 DEF endInit, At
    <3>2. UsableBy(t, x)'
      BY <1>1, <1>2, <2>1, <3>1 DEF UsableBy
    <3> QED
      BY <1>1, <1>5, <2>1, <3>2, ClimbsReturns
  <2> QED
    BY <1>1, <2>2, <2>3
<1>7. ASSUME NEW u \in Threads \ {t} PROVE Climbs(u)'
  <2>1. PICK s : s = stk
    OBVIOUS
  <2>2. stack'[u] = WakeAll(s, c)[u] /\ s[u] = stack[u] /\ s[u] \in Seq(Activations)
    BY <1>3, <1>4, <2>1
  <2>3. /\ Len(stack'[u]) = Len(stack[u])
        /\ \A k \in 2..Len(stack[u]) : stack'[u][k] = stack[u][k]
        /\ stack[u] # <<>> =>
              \/ stack'[u][1] = stack[u][1]
              \/ /\ stack'[u][1].at = "woken" /\ stack[u][1].at = "waiting"
                 /\ stack'[u][1].on = stack[u][1].on
    BY <2>2, Woken
  <2> QED
    BY <1>3, <2>3, ClimbsStays
<1> QED
  BY <1>6, <1>7

LEMMA CodeClimbs ==
    ASSUME IInv, TypeOK', NEW t \in Threads, Climbs(t),
           \/ readType(t) \/ readIndex(t) \/ checkType(t) \/ lookup(t) \/ setInfo(t)
           \/ setResolved(t)
           \/ dispatch(t) \/ readOperand(t) \/ checkOpcode(t)
           \/ resolved(t) \/ rewriteOperand(t) \/ rewriteOpcode(t) \/ useQuick(t)
    PROVE  Climbs(t)'
<1>1. Code \cap LockLabels = {} /\ {"find", "resolve"} \cap LockLabels = {} /\ TypeOK
  BY DEF Code, EntryLabels, InstrLabels, LockLabels, InitLabels, IInv
<1>2. stack[t] # <<>> /\ stack[t][1].at \in Code
  <2>1. PICK l \in Code : At(t, l)
    BY DEF readType, readIndex, checkType, lookup, setInfo, setResolved, dispatch, readOperand,
       checkOpcode, resolved, rewriteOperand, rewriteOpcode, useQuick, Code, EntryLabels, InstrLabels
  <2> QED
    BY <2>1, AtTop
<1>3. stack[t][1].at \notin LockLabels /\ \A l \in Code : l \notin LockLabels
  BY <1>1, <1>2
<1> QED
  BY <1>1, <1>2, <1>3, CodeShapes, ClimbsSteps

LEMMA InstructionClimbs ==
    ASSUME TypeOK, TypeOK', NEW t \in Threads, nextInstruction(t)
    PROVE  Climbs(t)'
<1>1. PICK a : a = Activation("dispatch", Main[t][position[t]])
  OBVIOUS
<1>2. stack'[t] = <<a>> /\ a.at = "dispatch"
  BY <1>1, Activated DEF nextInstruction, TypeOK, StacksTypeOK
<1>3. \A k \in 1..Len(stack'[t]) : stack'[t][k].at = "dispatch"
  BY <1>2
<1> QED
  BY <1>3 DEF Climbs

LEMMA ClimbsKeeps ==
    ASSUME IInv, TypeOK', CInv, NobodyRelinks, \A u \in Threads : Climbs(u), [Next]_vars
    PROVE  \A u \in Threads : Climbs(u)'
<1>1. ASSUME NEW t \in Threads, ThreadStep(t) \/ interrupted(t)
      PROVE  \A u \in Threads : Climbs(u)'
  <2>1. CASE endInit(t)
    BY <1>1, <2>1, EndClimbs
  <2>2. CASE ~endInit(t)
    <3>1. Climbs(t)'
      <4>1. TypeOK
        BY DEF IInv
      <4> QED
        BY <1>1, <2>2, <4>1, FindClimbs, TestClimbs, InitClimbs, CodeClimbs, InstructionClimbs
           DEF ThreadStep, ClassStep, interrupted
    <3>2. ASSUME NEW u \in Threads \ {t} PROVE Climbs(u)'
      <4>1. stack'[u] = stack[u] /\ exception'[u] = exception[u]
        BY <1>1, <2>2, StepAlone DEF Alone
      <4> QED
        BY <1>1, <4>1, ClimbsStays
    <3> QED
      BY <3>1, <3>2
  <2> QED
    BY <2>1, <2>2
<1>2. CASE UNCHANGED vars
  <2>1. UNCHANGED <<flags, tid, stack, exception>>
    BY <1>2 DEF vars, classVars, threadVars
  <2> QED
    BY <2>1 DEF Climbs, UsableBy
<1> QED
  BY <1>1, <1>2 DEF Next

(* Once all classes are linked nobody fills a table or sets a superclass.  *)
LEMMA WholeStays ==
    ASSUME IInv, LinkedInv, WholeInv, [Next]_vars
    PROVE  WholeInv'
<1>1. ASSUME NEW t \in Threads, NEW l \in LinkLabels, At(t, l) PROVE FALSE
  <2>1. stack[t] # <<>> /\ stack[t][1].at = l
    BY <1>1, AtTop
  <2>2. 1 \in 1..Len(stack[t])
    BY <2>1, StackTypes DEF IInv
  <2> QED
    BY <2>1, <2>2 DEF LinkedInv, Aloof
<1>2. UNCHANGED <<table, super>>
  <2>1. ASSUME NEW t \in Threads, ClassStep(t) \/ interruptWait(t) PROVE UNCHANGED <<table, super>>
    <3>1. ~setSuper(t) /\ ~allocTable(t) /\ ~fillTable(t)
      BY <1>1 DEF setSuper, allocTable, fillTable, LinkLabels
    <3> QED
      BY <2>1, <3>1 DEF ClassStep, interruptWait, findHashedClass, loadSystemClass, addClassToHash,
         linkClass, prepareFields, setLinked, testState, initSuper, superInitialised, runBody,
         endInit, classVars
  <2>2. ASSUME NEW t \in Threads, ThreadStep(t), ~ClassStep(t) PROVE UNCHANGED <<table, super>>
    BY <2>2 DEF ThreadStep, classVars, readType, readIndex, checkType, lookup, setInfo, setResolved,
       nextInstruction, dispatch, readOperand, checkOpcode, resolved, rewriteOperand,
       rewriteOpcode, useQuick
  <2>3. UNCHANGED vars => UNCHANGED <<table, super>>
    BY DEF vars, classVars
  <2> QED
    BY <2>1, <2>2, <2>3 DEF Next, interrupted
<1> QED
  BY <1>2 DEF WholeInv

(* When <clinit> is run, the superclass is initialised: it is not being    *)
(* initialised by this very thread, which would be at it further down.     *)
LEMMA SupersReady ==
    ASSUME IInv, CInv, WholeInv, SupersLeaveSubclasses, NEW t \in Threads, Climbs(t),
           initSuper(t) \/ superInitialised(t), ran' # ran,
           NEW c, c = Top(t).on, Super[c] \notin {Nil, c}
    PROVE  flags[Super[c]] = "INITED"
<1>1. /\ stack[t] # <<>> /\ stack[t][1].on = c /\ c \in Classes
      /\ stack[t][1].at \in {"init_super", "super_initialised"} /\ 1 \in 1..Len(stack[t])
  <2>1. PICK l \in {"init_super", "super_initialised"} : At(t, l)
    BY DEF initSuper, superInitialised
  <2> QED
    BY <2>1, ClassTop, StackTypes DEF ClassLabels, IInv
<1>2. Super[c] \in Classes /\ super[c]
  BY <1>1, HierarchyAssumption DEF WholeInv
<1>3. CASE initSuper(t)
  BY <1>2, <1>3 DEF initSuper
<1>4. CASE superInitialised(t)
  <2>1. ~exception[t] /\ stack[t][1].at = "super_initialised"
    BY <1>1, <1>4, AtTop DEF superInitialised
  <2>2. UsableBy(t, Super[c])
    BY <1>1, <2>1 DEF Climbs
  <2>3. SUFFICES ASSUME flags[Super[c]] = "INITING", tid[Super[c]] = t PROVE FALSE
    BY <2>2 DEF UsableBy
  <2>4. PICK k \in 1..Len(stack[t]) : stack[t][k].on = Super[c] /\ stack[t][k].at \in InitLabels
    BY <1>2, <2>3 DEF CInv, ClassOK, Initialising
  <2>5. k # 1 /\ 1 < k
    <3>1. k # 1
      BY <1>1, <2>4
    <3> QED
      BY <3>1, <2>4
  <2>6. {stack[t][1].at, stack[t][k].at} \subseteq InitLabels
    BY <1>1, <2>4 DEF InitLabels
  <2> QED
    BY <1>1, <2>4, <2>5, <2>6 DEF SupersLeaveSubclasses
<1> QED
  BY <1>3, <1>4

LEMMA SupersStay ==
    ASSUME IInv, CInv, NobodyRelinks, WholeInv, SupersLeaveSubclasses, \A u \in Threads : Climbs(u),
           SupersInv, [Next]_vars
    PROVE  SupersInv'
<1>1. ran \in [Classes -> Nat]
  BY DEF IInv, TypeOK, ClassesTypeOK
<1>2. ASSUME NEW t \in Threads, ThreadStep(t) \/ interrupted(t) PROVE SupersInv'
  <2>1. \A x \in Classes : flags[x] = "INITED" => flags'[x] = "INITED"
    BY <1>2, FlagsStay
  <2>2. CASE ran' = ran
    <3>1. SUFFICES ASSUME NEW c \in Classes, ran[c] > 0, Super[c] \notin {Nil, c}
                   PROVE  flags'[Super[c]] = "INITED"
      BY <2>2 DEF SupersInv
    <3>2. flags[Super[c]] = "INITED" /\ Super[c] \in Classes
      BY <3>1, HierarchyAssumption DEF SupersInv
    <3> QED
      BY <2>1, <3>2
  <2>3. CASE ran' # ran
    <3>1. initSuper(t) \/ superInitialised(t)
      BY <1>2, <2>3 DEF ThreadStep, ClassStep, interrupted, interruptWait, classVars,
         findHashedClass, loadSystemClass, addClassToHash, setSuper, linkClass, prepareFields,
         allocTable, fillTable, setLinked, testState, runBody, endInit, readType, readIndex,
         checkType, lookup, setInfo, setResolved, nextInstruction, dispatch, readOperand,
         checkOpcode, resolved, rewriteOperand, rewriteOpcode, useQuick
    <3>2. PICK x : x = Top(t).on
      OBVIOUS
    <3>3. ran' = [ran EXCEPT ![x] = @ + 1]
      BY <2>3, <3>1, <3>2 DEF initSuper, superInitialised, executeStaticMethod
    <3>4. SUFFICES ASSUME NEW c \in Classes, ran'[c] > 0, Super[c] \notin {Nil, c}
                   PROVE  flags'[Super[c]] = "INITED"
      BY DEF SupersInv
    <3>5. Super[c] \in Classes
      BY <3>4, HierarchyAssumption
    <3>6. flags[Super[c]] = "INITED"
      <4>1. CASE c = x
        BY <2>3, <3>1, <3>2, <3>4, <4>1, SupersReady
      <4>2. CASE c # x
        BY <1>1, <3>3, <3>4, <4>2 DEF SupersInv
      <4> QED
        BY <4>1, <4>2
    <3> QED
      BY <2>1, <3>5, <3>6
  <2> QED
    BY <2>2, <2>3
<1>3. CASE UNCHANGED vars
  BY <1>3 DEF vars, classVars, SupersInv
<1> QED
  BY <1>2, <1>3 DEF Next

(* The inductive invariant.                                                *)
InheritInv == WholeInv /\ SupersInv /\ \A t \in Threads : Climbs(t)

LEMMA InheritStays ==
    ASSUME IInv, TypeOK', CInv, NobodyRelinks, LinkedInv, SupersLeaveSubclasses, InheritInv,
           [Next]_vars
    PROVE  InheritInv'
<1>1. WholeInv'
  BY WholeStays DEF InheritInv
<1>2. \A t \in Threads : Climbs(t)'
  BY ClimbsKeeps DEF InheritInv
<1>3. SupersInv'
  BY SupersStay DEF InheritInv
<1> QED
  BY <1>1, <1>2, <1>3 DEF InheritInv

(* Once all classes are linked, a class whose <clinit> runs or has run has *)
(* a whole method table and its superclass is initialised before, however  *)
(* the initialisations of the two interleave and fail (initClass).         *)
THEOREM LinkedInherit ==
    ASSUME Linked = Classes
    PROVE  Spec /\ []SupersLeaveSubclasses => []InheritsWhatItShould
<1>1. Init => InheritInv
  <2>1. SUFFICES ASSUME Init PROVE InheritInv
    OBVIOUS
  <2>2. /\ \A t \in Threads : stack[t] = <<>> /\ Len(stack[t]) = 0
        /\ \A c \in Classes : /\ table[c] = "whole" /\ (super[c] <=> Super[c] # Nil)
                              /\ ran[c] = 0
    BY <2>1 DEF Init, InitClasses
  <2> QED
    BY <2>2 DEF InheritInv, WholeInv, SupersInv, Climbs
<1>2. IInv /\ IInv' /\ CInv /\ NobodyRelinks /\ LinkedInv /\ SupersLeaveSubclasses /\ InheritInv
      /\ [Next]_vars => InheritInv'
  <2>1. IInv' => TypeOK'
    BY DEF IInv
  <2> QED
    BY <2>1, InheritStays
<1>3. InheritInv => InheritsWhatItShould
  <2> SUFFICES ASSUME WholeInv, SupersInv, NEW c \in Classes, flags[c] \in {"INITING", "INITED"}
               PROVE  /\ table[c] = "whole"
                      /\ ran[c] > 0 /\ Super[c] # Nil =>
                            flags[Super[c]] \in {"INITING", "INITED"}
    BY DEF InheritInv, InheritsWhatItShould
  <2> QED
    BY DEF WholeInv, SupersInv
<1> QED
  BY <1>1, <1>2, <1>3, Invariance, Initialisation, NobodyRelinksLinked, LinkedStays, PTL DEF Spec
====
