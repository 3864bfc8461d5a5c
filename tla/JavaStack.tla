------------------------------- MODULE JavaStack -------------------------------
(***************************************************************************)
(* The Java stack of a thread: frames, calls, returns and exceptions       *)
(* (interp.c, execute.c, excep.c, frame.h), the local references of JNI    *)
(* methods, which live on it too (jni.c), and the way the collector scans  *)
(* it (alloc.c).                                                           *)
(*                                                                         *)
(* The stack is a range of words.  A frame is a header of sizeof(Frame)    *)
(* words; the local variables of the method lie below it and its operands  *)
(* above it, so that the operands a caller pushed become the locals of the *)
(* callee.  executeMethod, with which C code calls Java, puts a dummy      *)
(* frame in between.  C functions that wait for Java code to return are    *)
(* the elements of calls: the interpreter, a native method, and, with the  *)
(* first frame of either, the executeMethod that called it.                *)
(***************************************************************************)
EXTENDS Naturals, Sequences, FiniteSets

CONSTANTS
    Methods, NativeMethods,
    Synchronized,      \* Methods -> "no", "static" or "instance"
    ArgsCount, MaxLocals, MaxStack, \* Methods -> Nat; MaxStack is 0 if native
    Handlers,          \* the methods with an exception table
    Constructor,       \* <init> of the exceptions the VM throws
    Overwrites,        \* the methods whose byte code stores to local variable 0
    Objects, Class,    \* the objects and the Class methods are synchronized on
    HeaderSize,        \* sizeof(Frame) in words
    LIST_INCR,         \* by how many words local references are expanded
    StackSize,         \* words of the stack, without the last 1024 bytes
    RedZone,           \* those 1024 bytes
    MaxCalls,          \* bound: how deep C and Java code call one another
    MaxOverflows,      \* bound: how often the stack overflows
    Nil

ASSUME StackAssumption ==
    /\ NativeMethods \subseteq Methods /\ Handlers \subseteq Methods \ NativeMethods
    /\ Constructor \in Methods
    /\ Overwrites \subseteq Methods \ NativeMethods
    /\ Synchronized \in [Methods -> {"no", "static", "instance"}]
    /\ ArgsCount \in [Methods -> Nat] /\ MaxStack \in [Methods -> Nat]
    /\ MaxLocals \in [Methods -> Nat]
    /\ \A m \in Methods : ArgsCount[m] <= MaxLocals[m]
    /\ \A m \in NativeMethods : MaxStack[m] = 0 /\ MaxLocals[m] = ArgsCount[m]
    /\ \A m \in Handlers : MaxStack[m] > 0
    /\ \A m \in Overwrites : MaxLocals[m] > 0
    /\ Class \notin Objects /\ Nil \notin Objects \cup Methods \cup {Class, "thread"} \cup Nat
    /\ "thread" \notin Methods
    /\ HeaderSize \in Nat \ {0} /\ LIST_INCR \in Nat /\ LIST_INCR >= HeaderSize
    /\ StackSize \in Nat /\ RedZone \in Nat

VARIABLES
    frames,     \* the frames there are, by the address of their header
    last,       \* ee->last_frame
    stackEnd,   \* ee->stack_end
    exception,  \* whether ee->exception is set
    calls,      \* the C functions that are active, the innermost first
    locked      \* how often the thread has locked each object

vars == <<frames, last, stackEnd, exception, calls, locked>>

-----------------------------------------------------------------------------
(* initialiseJavaStack: a frame of a method that is none, with max_stack 0.*)
(* The thread itself is a C function that calls executeMethod.             *)
Base == 0

(* sync is what was locked for the frame, which the code does not store;   *)
(* local0 the object in lvars[0], or Nil where that is something else.     *)
Frame(mb, lvars, prev) ==
    [mb |-> mb, lvars |-> lvars, prev |-> prev, local0 |-> Nil, sync |-> Nil,
     next |-> Nil, caught |-> FALSE]

Init ==
    /\ frames = [f \in {Base} |-> Frame("thread", Base, Nil)]
    /\ last = Base
    /\ stackEnd = StackSize
    /\ exception = FALSE
    /\ calls = <<[kind |-> "native", at |-> "run", frame |-> Base, sp |-> Base, this |-> Nil,
                  by |-> "thread", sync |-> Nil]>>
    /\ locked = [o \in Objects \cup {Class} |-> 0]

(* The frames with another one at f.                                       *)
Put(fs, f, frame) == [g \in DOMAIN fs \cup {f} |-> IF g = f THEN frame ELSE fs[g]]

Ostack(f) == f + HeaderSize
MaxStackOf(mb) == IF mb \in Methods THEN MaxStack[mb] ELSE 0

Top == Head(calls)
Running(kind) == Top.kind = kind /\ Top.at = "run"

(* The calls when the innermost goes on with another record.               *)
Now(c) == <<c>> \o Tail(calls)

(* The frames when those above f are popped.                               *)
UpTo(f) == [g \in {h \in DOMAIN frames : h <= f} |-> frames[g]]

(* objectUnlock does nothing for the lock of an object that the thread has *)
(* not locked; that it can do worse to a fat lock is ThinLock's subject.   *)
Enter(o) == IF o = Nil THEN locked ELSE [locked EXCEPT ![o] = @ + 1]
Exit(o) ==
    IF o = Nil THEN locked ELSE [locked EXCEPT ![o] = IF @ = 0 THEN 0 ELSE @ - 1]

(* sync_ob: the class, or what local variable 0 or a copy of it holds.     *)
sync_ob(m, o) ==
    CASE Synchronized[m] = "no"       -> Nil
      [] Synchronized[m] = "static"   -> Class
      [] Synchronized[m] = "instance" -> o

(* Fault: it is not asked whether the method is static.                    *)
sync_ob_instance(m, o) == IF Synchronized[m] = "no" THEN Nil ELSE o

(* What a method is called on, as far as it matters who that is.           *)
Receivers(m) == IF Synchronized[m] = "instance" THEN Objects ELSE {Nil}

-----------------------------------------------------------------------------
(* The byte codes that work on the operands.                               *)
push ==
    /\ Running("java")
    /\ Top.sp < Ostack(Top.frame) + MaxStackOf(frames[Top.frame].mb)
    /\ calls' = Now([Top EXCEPT !.sp = @ + 1])
    /\ UNCHANGED <<frames, last, stackEnd, exception, locked>>

(* ASTORE_0 and the like change lvars[0], and leave the register this.     *)
astore_0 ==
    /\ Running("java") /\ frames[Top.frame].mb \in Overwrites
    /\ Top.sp > Ostack(Top.frame)
    /\ \E o \in Objects : frames' = [frames EXCEPT ![Top.frame].local0 = o]
    /\ calls' = Now([Top EXCEPT !.sp = @ - 1])
    /\ UNCHANGED <<last, stackEnd, exception, locked>>

(* Whether the instruction the frame is at is in the range of a handler.   *)
(* The program counter of a frame is known when it calls or throws.        *)
AtInstruction(fs, f) ==
    {[fs EXCEPT ![f].caught = c] : c \in IF fs[f].mb \in Handlers THEN BOOLEAN ELSE {FALSE}}

(* Fault: the dummy frame is put where the operands are.                   *)
Dummy_low(f) == Ostack(f)

(* CREATE_TOP_FRAME and the rest of executeMethodVaList and -List, up to   *)
(* the call of executeJava or of the native method.                        *)
Dummy(f) == Ostack(f) + MaxStackOf(frames[f].mb)

ExecuteMethod(m, o, callers, fs) ==
    LET ob == sync_ob(m, o)
        dummy == Dummy(last)
        sp == Ostack(dummy)
        new == sp + MaxLocals[m]
    IN
    /\ Len(calls) < MaxCalls
    /\ frames' = Put(Put(fs, dummy, Frame(Nil, sp, last)), new,
                     [Frame(m, sp, dummy) EXCEPT !.local0 = o, !.sync = ob,
                         !.next = IF m \in NativeMethods THEN new ELSE Nil])
    /\ last' = new
    /\ locked' = Enter(ob)
    /\ calls' = <<[kind |-> IF m \in NativeMethods THEN "native" ELSE "java", at |-> "run",
                   frame |-> new, sp |-> Ostack(new), this |-> o, by |-> "execute",
                   sync |-> ob]>> \o callers

(* POP_TOP_FRAME and the end of executeMethod: its caller goes on, with an *)
(* exception or not.  c is the record of executeMethod, f the frame that   *)
(* is ee->last_frame at this point.  Code that called executeMethod for a  *)
(* byte code throws the exception; signalException sets one.               *)
Resumed(c, thrown) ==
    IF c.kind = "java" THEN [c EXCEPT !.at = IF thrown \/ @ = "signal" THEN "throw" ELSE "run"]
    ELSE c

(* Fault: executeMethod leaves it to the interpreter to unlock.            *)
EndOfExecuteMethod_locked(f, thrown) ==
    LET caller == frames[frames[f].prev].prev
        c == calls[2]
    IN
    /\ last' = caller
    /\ frames' = UpTo(caller)
    /\ calls' = <<Resumed(c, thrown)>> \o Tail(Tail(calls))
    /\ exception' = (thrown \/ (c.kind = "java" /\ c.at = "signal"))
    /\ UNCHANGED locked

EndOfExecuteMethod(f, thrown) ==
    LET caller == frames[frames[f].prev].prev
        c == calls[2]
    IN
    /\ locked' = Exit(Top.sync)
    /\ last' = caller
    /\ frames' = UpTo(caller)
    /\ calls' = <<Resumed(c, thrown)>> \o Tail(Tail(calls))
    /\ exception' = (thrown \/ (c.kind = "java" /\ c.at = "signal"))

-----------------------------------------------------------------------------
(* A byte code that needs Java code to be run by C: a class is initialised.*)
callFromByteCode(m) ==
    /\ Running("java")
    /\ \E fs \in AtInstruction(frames, Top.frame), o \in Receivers(m) :
          ExecuteMethod(m, o, Now([Top EXCEPT !.at = "call"]), fs)
    /\ UNCHANGED <<stackEnd, exception>>

(* THROW_EXCEPTION: signalException makes the exception and calls its      *)
(* constructor.                                                            *)
throwNew ==
    /\ Running("java")
    /\ \E fs \in AtInstruction(frames, Top.frame) :
          ExecuteMethod(Constructor, Nil, Now([Top EXCEPT !.at = "signal"]), fs)
    /\ UNCHANGED <<stackEnd, exception>>

(* ATHROW.                                                                 *)
athrow ==
    /\ Running("java")
    /\ frames' \in AtInstruction(frames, Top.frame)
    /\ exception' = TRUE
    /\ calls' = Now([Top EXCEPT !.at = "throw"])
    /\ UNCHANGED <<last, stackEnd, locked>>

(* Fault: no room is left for the locals that are no arguments.            *)
NewFrame_tight(m) == Top.sp

(* invokeMethod: the arguments are the locals of the new frame.            *)
NewFrame(m) == Top.sp - ArgsCount[m] + MaxLocals[m]

Invokes(m) == Running("java") /\ Top.sp >= Ostack(Top.frame) + ArgsCount[m]

stackOverflow(m) ==
    /\ Invokes(m) /\ NewFrame(m) > stackEnd
    /\ stackEnd < StackSize + RedZone * MaxOverflows
    /\ stackEnd' = stackEnd + RedZone
    /\ \E fs \in AtInstruction(frames, Top.frame) :
          ExecuteMethod(Constructor, Nil, Now([Top EXCEPT !.at = "signal"]), fs)
    /\ UNCHANGED exception

invokeMethod(m) ==
    /\ Invokes(m) /\ NewFrame(m) <= stackEnd
    /\ \E fs \in AtInstruction(frames, Top.frame), o \in Receivers(m) :
          LET new == NewFrame(m)
              inC == m \in NativeMethods
              ob == sync_ob(m, o)
          IN
          /\ frames' = Put(fs, new, [Frame(m, Top.sp - ArgsCount[m], Top.frame) EXCEPT
                          !.local0 = o, !.sync = ob, !.next = IF inC THEN new ELSE Nil])
          /\ locked' = Enter(ob)
          /\ last' = new
          /\ IF inC
             THEN /\ Len(calls) < MaxCalls
                  /\ calls' = <<[kind |-> "native", at |-> "run", frame |-> new,
                                 sp |-> Ostack(new), this |-> Nil, by |-> "invoke",
                                 sync |-> ob]>> \o calls
             ELSE calls' = Now([Top EXCEPT !.frame = new, !.sp = Ostack(new), !.this = o])
    /\ UNCHANGED <<stackEnd, exception>>

(* methodReturn: the result takes the place of the arguments.  What is     *)
(* unlocked is the class or this, which is then loaded from local variable *)
(* 0 of the caller.                                                        *)
methodReturn ==
    LET f == Top.frame
        prev == frames[f].prev
    IN
    /\ Running("java")
    /\ IF frames[prev].mb = Nil
       THEN EndOfExecuteMethod(last, FALSE)
       ELSE /\ \E words \in 0..1 :
                  /\ frames[f].lvars + words <= Ostack(prev) + MaxStackOf(frames[prev].mb)
                  /\ calls' = Now([Top EXCEPT !.frame = prev, !.sp = frames[f].lvars + words,
                                              !.this = frames[prev].local0])
            /\ locked' = Exit(sync_ob(frames[f].mb, Top.this))
            /\ last' = prev
            /\ frames' = UpTo(prev)
            /\ UNCHANGED exception
    /\ UNCHANGED stackEnd

(* throwException and findCatchBlock, one frame of the latter at a time.   *)
(* For the frames that are left, the class or what local variable 0 holds  *)
(* is unlocked, but for the last before a dummy one: whoever called        *)
(* executeMethod has the exception.                                        *)
throwException ==
    /\ Top.kind = "java" /\ Top.at = "throw"
    /\ exception' = FALSE
    /\ calls' = Now([Top EXCEPT !.at = "unwind", !.frame = last])
    /\ UNCHANGED <<frames, last, stackEnd, locked>>

findCatchBlock ==
    LET f == Top.frame
        prev == frames[f].prev
    IN
    /\ Top.kind = "java" /\ Top.at = "unwind"
    /\ \/ /\ frames[f].caught
          /\ last' = f
          /\ frames' = UpTo(f)
          /\ calls' = Now([Top EXCEPT !.at = "run", !.sp = Ostack(f) + 1,
                                      !.this = frames[f].local0])
          /\ UNCHANGED <<locked, exception>>
       \/ /\ ~frames[f].caught /\ frames[prev].mb # Nil
          /\ calls' = Now([Top EXCEPT !.frame = prev])
          /\ locked' = Exit(sync_ob(frames[f].mb, frames[f].local0))
          /\ UNCHANGED <<frames, last, exception>>
       \/ /\ ~frames[f].caught /\ frames[prev].mb = Nil
          /\ EndOfExecuteMethod(f, TRUE)
    /\ UNCHANGED stackEnd

-----------------------------------------------------------------------------
(* Native methods.  C code of the VM and JNI methods call Java methods,    *)
(* set an exception, and return; the thread itself calls run().            *)
callFromNative(m) ==
    /\ Running("native") /\ ~exception
    /\ \E o \in Receivers(m) : ExecuteMethod(m, o, calls, frames)
    /\ UNCHANGED <<stackEnd, exception>>

setException ==
    /\ Running("native") /\ Top.by # "thread"
    /\ exception' = TRUE
    /\ UNCHANGED <<frames, last, stackEnd, calls, locked>>

(* detachThread or the loop of a VM thread: what run() threw is cleared.   *)
clearException ==
    /\ Top.by = "thread"
    /\ exception' = FALSE
    /\ UNCHANGED <<frames, last, stackEnd, calls, locked>>

(* Fault: the frame of the native method is not popped.                    *)
nativeReturn_leaves ==
    /\ Running("native") /\ Top.by = "invoke"
    /\ locked' = Exit(Top.sync)
    /\ calls' = <<[calls[2] EXCEPT !.at = IF exception THEN "throw" ELSE "run"]>>
                 \o Tail(Tail(calls))
    /\ UNCHANGED <<frames, last, stackEnd, exception>>

nativeReturn ==
    /\ Running("native")
    /\ \/ Top.by = "execute" /\ EndOfExecuteMethod(last, exception)
       \/ /\ Top.by = "invoke"
          /\ locked' = Exit(Top.sync)
          /\ last' = calls[2].frame
          /\ frames' = UpTo(calls[2].frame)
          /\ \E words \in 0..1 :
                /\ frames[last].lvars + words <= Dummy(calls[2].frame)
                /\ calls' = <<[calls[2] EXCEPT !.at = IF exception THEN "throw" ELSE "run",
                                              !.sp = frames[last].lvars + words]>>
                             \o Tail(Tail(calls))
          /\ UNCHANGED exception
    /\ UNCHANGED stackEnd

(* Fault: the references continue where the frame was and end behind it.   *)
Expanded_late(incr) ==
    Put([f \in DOMAIN frames \ {last} |-> frames[f]], last + incr,
        [frames[last] EXCEPT !.next = last + incr])

(* expandJNILrefs moves the frame of the native method up, and the words   *)
(* it leaves hold references.                                              *)
Expanded(incr) ==
    Put([f \in DOMAIN frames \ {last} |-> frames[f]], last + incr, frames[last])

InJNIMethod == Running("native") /\ Top.by # "thread"

(* The caller gets NULL when there is no room.                             *)
addJNILref ==
    LET full == frames[last].next = last
        fs == IF full THEN Expanded(LIST_INCR) ELSE frames
        f == IF full THEN last + LIST_INCR ELSE last
    IN
    /\ InJNIMethod
    /\ full => f <= stackEnd
    /\ frames' = [fs EXCEPT ![f].next = @ + 1]
    /\ last' = f
    /\ UNCHANGED <<stackEnd, exception, calls, locked>>

-----------------------------------------------------------------------------
Next ==
    \/ push \/ astore_0 \/ throwNew \/ athrow \/ methodReturn \/ throwException \/ findCatchBlock
    \/ \E m \in Methods : \/ callFromByteCode(m) \/ stackOverflow(m) \/ invokeMethod(m)
                         \/ callFromNative(m)
    \/ setException \/ clearException \/ nativeReturn \/ addJNILref

Spec == Init /\ [][Next]_vars

-----------------------------------------------------------------------------
(* What scanThread looks at: from the last word of the operands of the     *)
(* last frame down, without the headers, to the first dummy frame.         *)
Scanned_short ==
    UNION {Ostack(frames[g].prev)..(g - 1) :
               g \in {h \in DOMAIN frames : frames[h].prev # Nil /\ frames[frames[h].prev].prev # Nil}}

Scanned ==
    (IF frames[last].prev = Nil THEN {} ELSE Ostack(last)..Dummy(last))
    \cup (UNION {Ostack(frames[g].prev)..(g - 1) :
               g \in {h \in DOMAIN frames : frames[h].prev # Nil /\ frames[frames[h].prev].prev # Nil}})

(* The words in use: local variables and local references, the operands of *)
(* a method that waits for one it invoked, and those of a method that is   *)
(* interpreted or waits for C code.                                        *)
Locals(f) ==
    IF frames[f].mb \in NativeMethods THEN frames[f].lvars..(frames[f].next - 1)
    ELSE IF frames[f].mb \in Methods
         THEN frames[f].lvars..(frames[f].lvars + MaxLocals[frames[f].mb] - 1)
    ELSE {}

OperandsBelow(f) ==
    IF frames[f].mb \in Methods /\ frames[frames[f].prev].mb \in Methods
    THEN Ostack(frames[f].prev)..(frames[f].lvars - 1) ELSE {}

Computing == {k \in 1..Len(calls) : calls[k].kind = "java"
                                    /\ calls[k].at \in {"run", "call", "signal"}}

Live ==
    (UNION {Locals(f) \cup OperandsBelow(f) : f \in DOMAIN frames})
    \cup (UNION {Ostack(calls[k].frame)..(calls[k].sp - 1) : k \in Computing})

Header(f) == f..(f + HeaderSize - 1)

(* The types of the variables.                                             *)
TypeOK ==
    /\ DOMAIN frames \subseteq Nat /\ last \in DOMAIN frames
    /\ \A f \in DOMAIN frames :
          /\ frames[f].mb \in Methods \cup {"thread", Nil}
          /\ frames[f].prev \in DOMAIN frames \cup {Nil}
          /\ frames[f].sync \in Objects \cup {Class, Nil} /\ frames[f].local0 \in Objects \cup {Nil}
    /\ stackEnd \in Nat /\ exception \in BOOLEAN
    /\ calls \in Seq([kind : {"java", "native"}, at : {"run", "call", "signal", "throw", "unwind"},
                      frame : Nat, sp : Nat, this : Objects \cup {Nil},
                      by : {"thread", "execute", "invoke"}, sync : Objects \cup {Class, Nil}])
    /\ locked \in [Objects \cup {Class} -> Nat]

(* What the code of excep.c:115 and interp.c:1722 relies on: no method that *)
(* is synchronized on its receiver stores to local variable 0.  No Java    *)
(* compiler emits such a store, since this cannot be assigned to.          *)
ThisIsKept == \A m \in Overwrites : Synchronized[m] # "instance"

(* If no method overwrites this, every object is locked as often as there  *)
(* are frames of methods synchronized on it.  However those are left, by a *)
(* return or an exception, to the interpreter, to executeMethod or from a  *)
(* native method, what is unlocked is what was locked at the invocation,   *)
(* although the interpreter finds it a second time (methodReturn,          *)
(* findCatchBlock), in a register that others load.                        *)
LocksMatchFrames ==
    LET top == IF Top.kind = "java" /\ Top.at = "unwind" THEN Top.frame ELSE last IN
    ThisIsKept =>
       \A o \in Objects \cup {Class} :
          locked[o] = Cardinality({f \in DOMAIN frames : f <= top /\ frames[f].sync = o})

(* No frame header lies where there are operands, local variables or local *)
(* references of another frame, nor two headers over each other, whether   *)
(* methods are invoked by byte code or C, or local references are added.   *)
HeadersAreIntact ==
    /\ TypeOK
    /\ \A f \in DOMAIN frames :
          /\ Header(f) \cap Live = {}
          /\ \A g \in DOMAIN frames \ {f} : Header(f) \cap Header(g) = {}

(* The collector sees every word in use (scanThread follows the frames     *)
(* that the other functions leave behind).                                 *)
RootsAreScanned == Live \subseteq Scanned

(* The frames and the C functions that are active agree: there is a dummy  *)
(* frame for each executeMethod, and who runs, be it for the first time or *)
(* after the return of whatever it called, finds ee->last_frame its own.   *)
CallsMatchFrames ==
    /\ Cardinality({f \in DOMAIN frames : frames[f].mb = Nil})
         = Cardinality({k \in 1..Len(calls) : calls[k].by = "execute"})
    /\ Running("java") => last = Top.frame /\ frames[last].mb \in Methods \ NativeMethods
    /\ Running("native") => /\ frames[last].mb \in NativeMethods \cup {"thread"}
                            /\ \A f \in DOMAIN frames : f < last => f < Top.frame

===============================================================================
