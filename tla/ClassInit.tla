------------------------------- MODULE ClassInit -------------------------------
(***************************************************************************)
(* Finding, defining, linking and initialising classes: class.c.           *)
(*                                                                         *)
(* The functions of class.c call one another and, through <clinit>, the    *)
(* interpreter.  Each thread therefore has a stack of activations, the     *)
(* innermost first; an activation is at a label of its function and has a  *)
(* subject (a class here; an instruction or a constant pool entry in       *)
(* Quicken, which adds what the interpreter does and the next-state        *)
(* relation).  The test of cb->flags in linkClass holds no lock, so every  *)
(* access of linkClass to what other threads see is a step of its own;     *)
(* what initClass does between objectLock and objectUnlock or objectWait   *)
(* is one step.                                                            *)
(***************************************************************************)
EXTENDS Naturals, Sequences

CONSTANTS Threads,
          Classes,
          Super,       \* the superclass a class file names, or Nil
          Interface,   \* an interface it names, or Nil
          Linked,      \* the classes that are linked to begin with
          Missing,     \* the classes without a class file
          MayFail,     \* the classes whose <clinit> may throw an exception
          Body,        \* the instructions of <clinit> that use classes
          Interrupts,  \* whether a waiting thread may be interrupted
          Nil

ASSUME HierarchyAssumption ==
    /\ Nil \notin Threads \cup Classes
    /\ Super \in [Classes -> Classes \cup {Nil}]
    /\ Interface \in [Classes -> Classes \cup {Nil}]
    /\ Linked \subseteq Classes /\ Missing \subseteq Classes \ Linked
    /\ \A c \in Linked : Super[c] \in Linked \cup {Nil}
    /\ Interrupts \in BOOLEAN

VARIABLES
    flags,      \* cb->flags; "NONE" when the class is not in loaded_classes
    tid,        \* cb->initing_tid
    super,      \* whether cb->super is set
    table,      \* cb->method_table: absent, allocated, or filled with or
                \* without what the superclass has
    static,     \* the static field: as allocated, cleared, or as <clinit> left it
    stack,      \* the activations of each thread, the innermost first
    exception,  \* whether ee->exception is set
    inherits,   \* whether linkClass found a method table in the superclass
    ran         \* how often <clinit> was run (no variable of the program)

classVars == <<flags, tid, super, table, static, ran>>
threadVars == <<stack, exception, inherits>>

Flags == {"NONE", "LOADED", "LINKED", "BAD", "INITING", "INITED"}

(* cb->flags >= CLASS_LINKED: so is a bad class.                           *)
AtLeastLinked(c) == flags[c] \in {"LINKED", "BAD", "INITING", "INITED"}

-----------------------------------------------------------------------------
Activation(l, x) == [at |-> l, on |-> x, next |-> 1]

Top(t) == Head(stack[t])
At(t, l) == stack[t] # <<>> /\ Top(t).at = l

(* What a step does to the stack of its thread: go to another label, call  *)
(* a function and go on at label l after it, leave through a call (the     *)
(* last thing a function does), or return.                                 *)
Goto(t, l) == stack' = [stack EXCEPT ![t] = <<[Head(@) EXCEPT !.at = l]>> \o Tail(@)]
Call(t, a, l) ==
    stack' = [stack EXCEPT ![t] = <<a, [Head(@) EXCEPT !.at = l]>> \o Tail(@)]
Become(t, a) == stack' = [stack EXCEPT ![t] = <<a>> \o Tail(@)]
Return(t) == stack' = [stack EXCEPT ![t] = Tail(@)]

Throw(t) == exception' = [exception EXCEPT ![t] = TRUE]

InitClasses ==
    /\ flags = [c \in Classes |-> IF c \in Linked THEN "LINKED" ELSE "NONE"]
    /\ tid = [c \in Classes |-> Nil]
    /\ super = [c \in Classes |-> c \in Linked /\ Super[c] # Nil]
    /\ table = [c \in Classes |-> IF c \in Linked THEN "whole" ELSE "none"]
    /\ static = [c \in Classes |-> IF c \in Linked THEN "zero" ELSE "garbage"]
    /\ stack = [t \in Threads |-> <<>>]
    /\ exception = [t \in Threads |-> FALSE]
    /\ inherits = [t \in Threads |-> FALSE]
    /\ ran = [c \in Classes |-> 0]

-----------------------------------------------------------------------------
(* findClassFromClassLoader for the system loader, which is                *)
(* findSystemClass0: what is not in the table is loaded and defined, and   *)
(* what was found is linked.                                               *)
Found(t) ==
    IF exception[t] THEN Return(t) ELSE Become(t, Activation("link", Top(t).on))

findHashedClass(t) ==
    /\ At(t, "find") /\ flags[Top(t).on] # "NONE"
    /\ Found(t)
    /\ UNCHANGED <<classVars, exception, inherits>>

(* defineClass reads the class file, which is no business of other         *)
(* threads, up to the interfaces, whose classes it looks for.              *)
defineClass(t) ==
    LET c == Top(t).on IN
    IF Interface[c] # Nil THEN Call(t, Activation("find", Interface[c]), "parsed")
    ELSE Goto(t, "parsed")

loadSystemClass(t) ==
    /\ At(t, "find") /\ flags[Top(t).on] = "NONE"
    /\ \/ Top(t).on \in Missing /\ Throw(t) /\ Return(t)
       \/ Top(t).on \notin Missing /\ defineClass(t) /\ UNCHANGED exception
    /\ UNCHANGED <<classVars, inherits>>

(* The end of defineClass.  The class is found by others from now on; its  *)
(* superclass is looked for afterwards.  A thread that comes second leaves *)
(* its own Class and returns the other's.                                  *)
addClassToHash(t) ==
    LET c == Top(t).on IN
    /\ At(t, "parsed")
    /\ \/ exception[t] /\ Return(t) /\ UNCHANGED flags
       \/ /\ ~exception[t] /\ flags[c] = "NONE"
          /\ flags' = [flags EXCEPT ![c] = "LOADED"]
          /\ IF Super[c] # Nil THEN Call(t, Activation("find", Super[c]), "super_found")
             ELSE Found(t)
       \/ /\ ~exception[t] /\ flags[c] # "NONE"
          /\ Found(t)
          /\ UNCHANGED flags
    /\ UNCHANGED <<tid, super, table, static, ran, exception, inherits>>

setSuper(t) ==
    /\ At(t, "super_found")
    /\ \/ exception[t] /\ Return(t) /\ UNCHANGED super
       \/ /\ ~exception[t]
          /\ super' = [super EXCEPT ![Top(t).on] = TRUE]
          /\ Found(t)
    /\ UNCHANGED <<flags, tid, table, static, ran, exception, inherits>>

-----------------------------------------------------------------------------
(* Fault: what is linked is linked again.                                  *)
linkClass_again(t) ==
    LET c == Top(t).on IN
    /\ At(t, "link")
    /\ IF super[c] /\ ~AtLeastLinked(Super[c])
       THEN Call(t, Activation("link", Super[c]), "prepare")
       ELSE Goto(t, "prepare")
    /\ UNCHANGED <<classVars, exception, inherits>>

(* linkClass.  The test of the flags of the class and that of its          *)
(* superclass are one step: should the superclass be linked in between,    *)
(* the call returns at once.                                               *)
linkClass(t) ==
    LET c == Top(t).on IN
    /\ At(t, "link")
    /\ IF AtLeastLinked(c) THEN Return(t)
       ELSE IF super[c] /\ ~AtLeastLinked(Super[c])
            THEN Call(t, Activation("link", Super[c]), "prepare")
       ELSE Goto(t, "prepare")
    /\ UNCHANGED <<classVars, exception, inherits>>

(* It takes the size and the method table of the superclass, and clears    *)
(* the static fields.                                                      *)
prepareFields(t) ==
    LET c == Top(t).on IN
    /\ At(t, "prepare")
    /\ inherits' = [inherits EXCEPT ![t] =
                        IF super[c] THEN table[Super[c]] # "none" ELSE Super[c] = Nil]
    /\ static' = [static EXCEPT ![c] = "zero"]
    /\ Goto(t, "allocate_table")
    /\ UNCHANGED <<flags, tid, super, table, ran, exception>>

(* cb->method_table points to the new table before it is filled.           *)
allocTable(t) ==
    /\ At(t, "allocate_table")
    /\ table' = [table EXCEPT ![Top(t).on] = "hollow"]
    /\ Goto(t, "fill_table")
    /\ UNCHANGED <<flags, tid, super, static, ran, exception, inherits>>

(* What is copied is the table the superclass had at "prepare"; if its     *)
(* table was replaced since, it may have been a whole one or not.          *)
fillTable(t) ==
    LET c == Top(t).on
        whole == Super[c] = Nil \/ (super[c] /\ table[Super[c]] = "whole")
    IN
    /\ At(t, "fill_table")
    /\ \E result \in {"whole", "short"} :
          /\ result = "whole" => inherits[t]
          /\ result = "short" => ~(inherits[t] /\ whole)
          /\ table' = [table EXCEPT ![c] = result]
    /\ Goto(t, "linked")
    /\ UNCHANGED <<flags, tid, super, static, ran, exception, inherits>>

setLinked(t) ==
    /\ At(t, "linked")
    /\ flags' = [flags EXCEPT ![Top(t).on] = "LINKED"]
    /\ Return(t)
    /\ UNCHANGED <<tid, super, table, static, ran, exception, inherits>>

-----------------------------------------------------------------------------
(* initClass is entered with a call of linkClass; callers is the stack it  *)
(* returns to.                                                             *)
InitClass(c, callers) == <<Activation("link", c), Activation("lock", c)>> \o callers

(* Fault: who finds the class being initialised by another uses it.        *)
testState_hasty(t) ==
    LET c == Top(t).on IN
    /\ At(t, "lock") \/ At(t, "woken")
    /\ \/ /\ flags[c] \in {"INITING", "INITED"}
          /\ Return(t)
          /\ UNCHANGED <<flags, tid, exception>>
       \/ /\ flags[c] = "BAD"
          /\ Throw(t) /\ Return(t)
          /\ UNCHANGED <<flags, tid>>
       \/ /\ flags[c] \in {"LOADED", "LINKED"}
          /\ flags' = [flags EXCEPT ![c] = "INITING"]
          /\ tid' = [tid EXCEPT ![c] = t]
          /\ Goto(t, "init_super")
          /\ UNCHANGED exception
    /\ UNCHANGED <<super, table, static, ran, inherits>>

(* Fault: who was woken does not look again whether the class is being     *)
(* initialised (if for while).                                             *)
testState_if(t) ==
    LET c == Top(t).on IN
    /\ At(t, "lock") \/ At(t, "woken")
    /\ \/ /\ At(t, "lock") /\ flags[c] = "INITING" /\ tid[c] # t
          /\ Goto(t, "waiting")
          /\ UNCHANGED <<flags, tid, exception>>
       \/ /\ flags[c] = "INITED"
          /\ Return(t)
          /\ UNCHANGED <<flags, tid, exception>>
       \/ /\ flags[c] = "BAD"
          /\ Throw(t) /\ Return(t)
          /\ UNCHANGED <<flags, tid>>
       \/ /\ flags[c] \in {"LOADED", "LINKED"} \/ (At(t, "woken") /\ flags[c] = "INITING")
          /\ flags' = [flags EXCEPT ![c] = "INITING"]
          /\ tid' = [tid EXCEPT ![c] = t]
          /\ Goto(t, "init_super")
          /\ UNCHANGED exception
    /\ UNCHANGED <<super, table, static, ran, inherits>>

(* With the lock of the Class, at first and again after objectWait: the    *)
(* state of the class decides.  A bad one throws NoClassDefFoundError.     *)
testState(t) ==
    LET c == Top(t).on IN
    /\ At(t, "lock") \/ At(t, "woken")
    /\ \/ /\ flags[c] = "INITING" /\ tid[c] # t
          /\ Goto(t, "waiting")
          /\ UNCHANGED <<flags, tid, exception>>
       \/ /\ \/ flags[c] = "INITING" /\ tid[c] = t
             \/ flags[c] = "INITED"
          /\ Return(t)
          /\ UNCHANGED <<flags, tid, exception>>
       \/ /\ flags[c] = "BAD"
          /\ Throw(t) /\ Return(t)
          /\ UNCHANGED <<flags, tid>>
       \/ /\ flags[c] \in {"LOADED", "LINKED"}
          /\ flags' = [flags EXCEPT ![c] = "INITING"]
          /\ tid' = [tid EXCEPT ![c] = t]
          /\ Goto(t, "init_super")
          /\ UNCHANGED exception
    /\ UNCHANGED <<super, table, static, ran, inherits>>

(* Thread.interrupt() ends the wait: objectWait throws an exception, which *)
(* initClass does not look at.                                             *)
interruptWait(t) ==
    /\ Interrupts /\ At(t, "waiting")
    /\ Throw(t) /\ Goto(t, "woken")
    /\ UNCHANGED <<classVars, inherits>>

(* executeStaticMethod of <clinit>, unless the superclass failed.          *)
executeStaticMethod(t) ==
    LET c == Top(t).on IN
    /\ ran' = [ran EXCEPT ![c] = @ + 1]
    /\ Goto(t, "body")

(* Fault: the superclass is not initialised first.                         *)
initSuper_not(t) ==
    /\ At(t, "init_super")
    /\ executeStaticMethod(t)
    /\ UNCHANGED <<flags, tid, super, table, static, exception, inherits>>

initSuper(t) ==
    LET c == Top(t).on IN
    /\ At(t, "init_super")
    /\ \/ /\ super[c] /\ flags[Super[c]] # "INITED"
          /\ stack' = [stack EXCEPT ![t] =
                 InitClass(Super[c], <<[Head(@) EXCEPT !.at = "super_initialised"]>> \o Tail(@))]
          /\ UNCHANGED ran
       \/ /\ ~(super[c] /\ flags[Super[c]] # "INITED")
          /\ executeStaticMethod(t)
    /\ UNCHANGED <<flags, tid, super, table, static, exception, inherits>>

superInitialised(t) ==
    /\ At(t, "super_initialised")
    /\ \/ exception[t] /\ Goto(t, "failed") /\ UNCHANGED ran
       \/ ~exception[t] /\ executeStaticMethod(t)
    /\ UNCHANGED <<flags, tid, super, table, static, exception, inherits>>

(* The instructions of <clinit> one by one, until one throws; the last     *)
(* thing it does is to set the static field.                               *)
runBody(t) ==
    LET a == Top(t) IN
    /\ At(t, "body")
    /\ \/ exception[t] /\ Goto(t, "failed") /\ UNCHANGED <<static, exception>>
       \/ /\ ~exception[t] /\ a.next <= Len(Body[a.on])
          /\ stack' = [stack EXCEPT ![t] =
                 <<Activation("dispatch", Body[a.on][a.next]),
                   [a EXCEPT !.next = @ + 1]>> \o Tail(@)]
          /\ UNCHANGED <<static, exception>>
       \/ /\ ~exception[t] /\ a.next > Len(Body[a.on]) /\ a.on \in MayFail
          /\ Throw(t) /\ Goto(t, "failed")
          /\ UNCHANGED static
       \/ /\ ~exception[t] /\ a.next > Len(Body[a.on])
          /\ static' = [static EXCEPT ![a.on] = "set"]
          /\ Goto(t, "initialised")
          /\ UNCHANGED exception
    /\ UNCHANGED <<flags, tid, super, table, ran, inherits>>

(* objectNotifyAll: everyone who waits on the Class goes for its lock.     *)
WakeAll(stk, c) ==
    [u \in Threads |->
        IF stk[u] # <<>> /\ Head(stk[u]).at = "waiting" /\ Head(stk[u]).on = c
        THEN <<[Head(stk[u]) EXCEPT !.at = "woken"]>> \o Tail(stk[u])
        ELSE stk[u]]

(* Fault: a failure is not told to those who wait.                         *)
endInit_silent(t) ==
    LET c == Top(t).on IN
    /\ \/ /\ At(t, "failed")
          /\ flags' = [flags EXCEPT ![c] = "BAD"]
          /\ Return(t)
       \/ /\ At(t, "initialised")
          /\ flags' = [flags EXCEPT ![c] = "INITED"]
          /\ stack' = WakeAll([stack EXCEPT ![t] = Tail(@)], c)
    /\ UNCHANGED <<tid, super, table, static, ran, exception, inherits>>

(* The end of initClass, with the lock of the Class.  The exception, be it *)
(* wrapped or not, stays.                                                  *)
endInit(t) ==
    LET c == Top(t).on IN
    /\ \/ At(t, "failed") /\ flags' = [flags EXCEPT ![c] = "BAD"]
       \/ At(t, "initialised") /\ flags' = [flags EXCEPT ![c] = "INITED"]
    /\ stack' = WakeAll([stack EXCEPT ![t] = Tail(@)], c)
    /\ UNCHANGED <<tid, super, table, static, ran, exception, inherits>>

ClassStep(t) ==
    \/ findHashedClass(t) \/ loadSystemClass(t) \/ addClassToHash(t) \/ setSuper(t)
    \/ linkClass(t) \/ prepareFields(t) \/ allocTable(t) \/ fillTable(t) \/ setLinked(t)
    \/ testState(t) \/ initSuper(t) \/ superInitialised(t) \/ runBody(t) \/ endInit(t)

-----------------------------------------------------------------------------
(* Whether thread t may use class c: it is initialised, or t itself is     *)
(* about to.                                                               *)
UsableBy(t, c) == flags[c] = "INITED" \/ (flags[c] = "INITING" /\ tid[c] = t)

(* However many threads ask for a class at once, and however often a       *)
(* <clinit> asks for its own class, <clinit> runs once (the states         *)
(* CLASS_INITING and CLASS_INITED of initClass).                           *)
InitialisedOnce == \A c \in Classes : ran[c] <= 1

(* What <clinit> stored in a static field stays: linkClass, which clears   *)
(* the static fields, does not come after it.                              *)
StaticsAreKept == \A c \in Classes : flags[c] = "INITED" => static[c] = "set"

(* A class that is being or has been initialised has a whole method table, *)
(* what it inherits included, and its superclass was initialised before.   *)
InheritsWhatItShould ==
    \A c \in Classes : flags[c] \in {"INITING", "INITED"} =>
        /\ table[c] = "whole"
        /\ ran[c] > 0 /\ Super[c] # Nil => flags[Super[c]] \in {"INITING", "INITED"}

===============================================================================
