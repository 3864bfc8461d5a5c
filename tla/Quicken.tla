-------------------------------- MODULE Quicken --------------------------------
(***************************************************************************)
(* Constant pool resolution (resolve.c) and the byte codes the interpreter *)
(* rewrites into quick ones (interp.c), on top of the classes of ClassInit.*)
(*                                                                         *)
(* Threads share constant pools and byte code without a lock.  An entry of *)
(* the constant pool goes from its raw form, an index, through             *)
(* CONSTANT_Locked to CONSTANT_Resolved, a pointer; a byte code goes from  *)
(* its slow form, through OPC_LOCK when its operands are rewritten, to a   *)
(* quick form.  Every read and write of them is a step of its own, in the  *)
(* order of the program; on the processors the VM runs on, and with type   *)
(* and pc volatile, they are seen in that order.                           *)
(***************************************************************************)
EXTENDS ClassInit

CONSTANTS
    Instrs,      \* byte codes
    Kind,        \* "static"  GETSTATIC, PUTSTATIC, INVOKESTATIC: opcode rewritten
                 \* "wide"    GETFIELD and others whose operand does not fit
                 \* "field"   GETFIELD, PUTFIELD: the first operand rewritten too
                 \* "virtual" INVOKEVIRTUAL, INVOKESPECIAL: both operands
                 \* "new"     NEW, CHECKCAST: never rewritten, initialises
                 \* "test"    INSTANCEOF, ANEWARRAY: never rewritten
                 \* "string"  LDC of a string
    Ref,         \* the constant pool entry of an instruction
    Refs,        \* the entries for fields, methods and strings
    ClassOf,     \* the class a field or method belongs to; Nil for a string
    Main         \* the instructions a thread executes

ASSUME CodeAssumption ==
    /\ Kind \in [Instrs -> {"static", "wide", "field", "virtual", "new", "test", "string"}]
    /\ Ref \in [Instrs -> Refs \cup Classes]
    /\ \A i \in Instrs : Ref[i] \in Classes <=> Kind[i] \in {"new", "test"}
    /\ ClassOf \in [Refs -> Classes \cup {Nil}]
    /\ \A i \in Instrs : Ref[i] \in Refs => (ClassOf[Ref[i]] = Nil <=> Kind[i] = "string")
    /\ Refs \cap Classes = {}
    /\ Body \in [Classes -> Seq(Instrs)] /\ Main \in [Threads -> Seq(Instrs)]

Entries == Refs \cup Classes

VARIABLES
    cp,       \* type and info of each constant pool entry
    code,     \* opcode and operands of each instruction
    index,    \* what a thread took for the index in an entry
    operands, \* the operands a thread has read
    position  \* how far each thread is in Main

sharedVars == <<cp, code>>
localVars == <<index, operands, position>>
vars == <<classVars, threadVars, sharedVars, localVars>>

Init ==
    /\ InitClasses
    /\ cp = [e \in Entries |-> [type |-> "raw", info |-> "index"]]
    /\ code = [i \in Instrs |-> [opcode |-> "slow", operands |-> [n \in 1..2 |-> "index"]]]
    /\ index = [t \in Threads |-> "none"]
    /\ operands = [t \in Threads |-> [n \in 1..2 |-> "none"]]
    /\ position = [t \in Threads |-> 1]

-----------------------------------------------------------------------------
(* resolveClass, resolveMethod, resolveInterfaceMethod, resolveField and   *)
(* resolveSingleConstant share their first and last steps.  Whoever finds  *)
(* an entry locked tries again.  A resolved class is initialised, each     *)
(* time, if the caller asks for it; a resolved reference is returned.      *)
Initialises(t) ==
    ~(\E i \in Instrs : stack[t][2] = Activation("resolved", i) /\ Kind[i] = "test")

readType(t) ==
    LET e == Top(t).on IN
    /\ At(t, "resolve") /\ cp[e].type # "locked"
    /\ \/ cp[e].type = "raw" /\ Goto(t, "read_index")
       \/ /\ cp[e].type = "resolved" /\ e \in Classes /\ Initialises(t)
          /\ stack' = [stack EXCEPT ![t] = InitClass(e, Tail(@))]
       \/ /\ cp[e].type = "resolved" /\ ~(e \in Classes /\ Initialises(t))
          /\ Return(t)
    /\ UNCHANGED <<classVars, exception, inherits, sharedVars, localVars>>

readIndex(t) ==
    /\ At(t, "read_index")
    /\ index' = [index EXCEPT ![t] = cp[Top(t).on].info]
    /\ Goto(t, "check_type")
    /\ UNCHANGED <<classVars, exception, inherits, sharedVars, operands, position>>

(* Fault: the type is not read again.                                      *)
checkType_not(t) ==
    LET e == Top(t).on IN
    /\ At(t, "check_type")
    /\ IF e \in Classes THEN Call(t, Activation("find", e), "lookup")
       ELSE IF ClassOf[e] = Nil THEN Goto(t, "lookup")
       ELSE Call(t, Activation("resolve", ClassOf[e]), "lookup")
    /\ UNCHANGED <<classVars, exception, inherits, sharedVars, localVars>>

(* The type is read again: if another thread came first, the index may be  *)
(* its pointer.  With a good index the name is looked up: of a class, by   *)
(* findClassFromClass; of a method or field, after its class is resolved;  *)
(* a string is interned.                                                   *)
checkType(t) ==
    LET e == Top(t).on IN
    /\ At(t, "check_type")
    /\ IF cp[e].type # "raw" THEN Goto(t, "resolve")
       ELSE IF e \in Classes THEN Call(t, Activation("find", e), "lookup")
       ELSE IF ClassOf[e] = Nil THEN Goto(t, "lookup")
       ELSE Call(t, Activation("resolve", ClassOf[e]), "lookup")
    /\ UNCHANGED <<classVars, exception, inherits, sharedVars, localVars>>

lookup(t) ==
    LET e == Top(t).on IN
    /\ At(t, "lookup")
    /\ \/ exception[t] /\ Return(t) /\ UNCHANGED cp
       \/ /\ ~exception[t]
          /\ cp' = [cp EXCEPT ![e].type = "locked"]
          /\ Goto(t, "set_info")
    /\ UNCHANGED <<classVars, exception, inherits, code, localVars>>

setInfo(t) ==
    /\ At(t, "set_info")
    /\ cp' = [cp EXCEPT ![Top(t).on].info = "pointer"]
    /\ Goto(t, "set_resolved")
    /\ UNCHANGED <<classVars, exception, inherits, code, localVars>>

setResolved(t) ==
    LET e == Top(t).on IN
    /\ At(t, "set_resolved")
    /\ cp' = [cp EXCEPT ![e].type = "resolved"]
    /\ IF e \in Classes /\ Initialises(t)
       THEN stack' = [stack EXCEPT ![t] = InitClass(e, Tail(@))]
       ELSE Return(t)
    /\ UNCHANGED <<classVars, exception, inherits, code, localVars>>

-----------------------------------------------------------------------------
(* executeJava.  A thread goes through Main and stops; outside of <clinit> *)
(* an exception is caught before the next instruction.                     *)
nextInstruction(t) ==
    /\ stack[t] = <<>> /\ position[t] <= Len(Main[t])
    /\ stack' = [stack EXCEPT ![t] = <<Activation("dispatch", Main[t][position[t]])>>]
    /\ position' = [position EXCEPT ![t] = @ + 1]
    /\ exception' = [exception EXCEPT ![t] = FALSE]
    /\ UNCHANGED <<classVars, inherits, sharedVars, index, operands>>

ChangesOperands(i) == Kind[i] \in {"field", "virtual"}

(* DISPATCH.  OPC_LOCK dispatches again until the opcode is another one.   *)
dispatch(t) ==
    LET i == Top(t).on IN
    /\ At(t, "dispatch") /\ code[i].opcode # "lock"
    /\ \/ code[i].opcode = "quick" /\ Goto(t, "quick")
       \/ /\ code[i].opcode = "slow" /\ Kind[i] \in {"field", "virtual", "wide"}
          /\ Goto(t, "operand_1")
       \/ /\ code[i].opcode = "slow" /\ Kind[i] \notin {"field", "virtual", "wide"}
          /\ Call(t, Activation("resolve", Ref[i]), "resolved")
    /\ UNCHANGED <<classVars, exception, inherits, sharedVars, localVars>>

(* WITH_OPCODE_CHANGE_CP_DINDEX *)
readOperand(t) ==
    LET i == Top(t).on IN
    /\ \/ /\ At(t, "operand_1")
          /\ operands' = [operands EXCEPT ![t][1] = code[i].operands[1]]
          /\ Goto(t, "operand_2")
       \/ /\ At(t, "operand_2")
          /\ operands' = [operands EXCEPT ![t][2] = code[i].operands[2]]
          /\ Goto(t, "check_opcode")
    /\ UNCHANGED <<classVars, exception, inherits, sharedVars, index, position>>

checkOpcode(t) ==
    LET i == Top(t).on IN
    /\ At(t, "check_opcode")
    /\ IF code[i].opcode # "slow" THEN Goto(t, "dispatch")
       ELSE Call(t, Activation("resolve", Ref[i]), "resolved")
    /\ UNCHANGED <<classVars, exception, inherits, sharedVars, localVars>>

(* Fault: the opcode is rewritten before its operands.                     *)
resolved_early(t) ==
    LET i == Top(t).on IN
    /\ At(t, "resolved")
    /\ \/ exception[t] /\ Return(t) /\ UNCHANGED code
       \/ /\ ~exception[t] /\ Kind[i] \in {"new", "test"}
          /\ Goto(t, "use")
          /\ UNCHANGED code
       \/ /\ ~exception[t] /\ Kind[i] \notin {"new", "test"}
          /\ code' = [code EXCEPT ![i].opcode = "quick"]
          /\ IF Kind[i] = "string" THEN Return(t)
             ELSE Goto(t, IF ChangesOperands(i) THEN "rewrite_1" ELSE "dispatch")
    /\ UNCHANGED <<classVars, exception, inherits, cp, localVars>>

(* After the resolution: the exception is thrown, or the byte code is      *)
(* rewritten and dispatched again.  LDC and the byte codes that are never  *)
(* rewritten go on with what was resolved; LDC rewrites itself first.      *)
resolved(t) ==
    LET i == Top(t).on IN
    /\ At(t, "resolved")
    /\ \/ exception[t] /\ Return(t) /\ UNCHANGED code
       \/ /\ ~exception[t] /\ Kind[i] \in {"new", "test"}
          /\ Goto(t, "use")
          /\ UNCHANGED code
       \/ /\ ~exception[t] /\ Kind[i] \in {"static", "wide", "string"}
          /\ code' = [code EXCEPT ![i].opcode = "quick"]
          /\ IF Kind[i] = "string" THEN Return(t) ELSE Goto(t, "dispatch")
       \/ /\ ~exception[t] /\ ChangesOperands(i)
          /\ code' = [code EXCEPT ![i].opcode = "lock"]
          /\ Goto(t, "rewrite_1")
    /\ UNCHANGED <<classVars, exception, inherits, cp, localVars>>

(* OPCODE_REWRITE_OPERAND1 and OPCODE_REWRITE_OPERAND2 *)
rewriteOperand(t) ==
    LET i == Top(t).on IN
    /\ \/ /\ At(t, "rewrite_1")
          /\ code' = [code EXCEPT ![i].operands[1] = "value"]
          /\ Goto(t, IF Kind[i] = "virtual" THEN "rewrite_2" ELSE "rewrite_opcode")
       \/ /\ At(t, "rewrite_2")
          /\ code' = [code EXCEPT ![i].operands[2] = "value"]
          /\ Goto(t, "rewrite_opcode")
    /\ UNCHANGED <<classVars, exception, inherits, cp, localVars>>

rewriteOpcode(t) ==
    /\ At(t, "rewrite_opcode")
    /\ code' = [code EXCEPT ![Top(t).on].opcode = "quick"]
    /\ Goto(t, "dispatch")
    /\ UNCHANGED <<classVars, exception, inherits, cp, localVars>>

(* The quick byte code, or the allocation, test or cast.                   *)
useQuick(t) ==
    /\ At(t, "quick") \/ At(t, "use")
    /\ Return(t)
    /\ UNCHANGED <<classVars, exception, inherits, sharedVars, localVars>>

-----------------------------------------------------------------------------
ThreadStep(t) ==
    \/ (ClassStep(t) /\ UNCHANGED <<sharedVars, localVars>>)
    \/ readType(t) \/ readIndex(t) \/ checkType(t) \/ lookup(t) \/ setInfo(t)
    \/ setResolved(t)
    \/ nextInstruction(t) \/ dispatch(t) \/ readOperand(t) \/ checkOpcode(t)
    \/ resolved(t) \/ rewriteOperand(t) \/ rewriteOpcode(t) \/ useQuick(t)

interrupted(t) == interruptWait(t) /\ UNCHANGED <<sharedVars, localVars>>

ended == \A t \in Threads : stack[t] = <<>> /\ position[t] > Len(Main[t])

Next ==
    \/ \E t \in Threads : ThreadStep(t) \/ interrupted(t)
    \/ ended /\ UNCHANGED vars

Spec == Init /\ [][Next]_vars

-----------------------------------------------------------------------------
(* The labels of activations that have a class, a constant pool entry and  *)
(* an instruction for their subject.  Who comes back from the search for   *)
(* the superclass has one.                                                 *)
ClassLabels == {"find", "parsed", "super_found", "link", "prepare", "allocate_table",
                "fill_table", "linked", "lock", "woken", "waiting", "init_super",
                "super_initialised", "body", "failed", "initialised"}
EntryLabels == {"resolve", "read_index", "check_type", "lookup", "set_info", "set_resolved"}
InstrLabels == {"dispatch", "operand_1", "operand_2", "check_opcode", "resolved", "rewrite_1",
                "rewrite_2", "rewrite_opcode", "quick", "use"}

Activations ==
    [at : ClassLabels \ {"super_found"}, on : Classes, next : Nat \ {0}]
    \cup [at : {"super_found"}, on : {c \in Classes : Super[c] # Nil}, next : Nat \ {0}]
    \cup [at : EntryLabels, on : Entries, next : Nat \ {0}]
    \cup [at : InstrLabels, on : Instrs, next : Nat \ {0}]

ClassesTypeOK ==
    /\ flags \in [Classes -> Flags] /\ tid \in [Classes -> Threads \cup {Nil}]
    /\ \A c \in Classes : flags[c] = "INITING" => tid[c] \in Threads
    /\ super \in [Classes -> BOOLEAN]
    /\ \A c \in Classes : super[c] => Super[c] # Nil
    /\ table \in [Classes -> {"none", "hollow", "short", "whole"}]
    /\ static \in [Classes -> {"garbage", "zero", "set"}]
    /\ ran \in [Classes -> Nat]

StacksTypeOK == stack \in [Threads -> Seq(Activations)]

SharedTypeOK ==
    /\ cp \in [Entries -> [type : {"raw", "locked", "resolved"}, info : {"index", "pointer"}]]
    /\ code \in [Instrs -> [opcode : {"slow", "lock", "quick"},
                            operands : [1..2 -> {"index", "value"}]]]

LocalsTypeOK ==
    /\ exception \in [Threads -> BOOLEAN] /\ inherits \in [Threads -> BOOLEAN]
    /\ index \in [Threads -> {"none", "index", "pointer"}]
    /\ operands \in [Threads -> [1..2 -> {"none", "index", "value"}]]
    /\ position \in [Threads -> Nat \ {0}]

(* Every variable keeps its type, and who initialises a class is known     *)
(* (cb->initing_tid).                                                      *)
TypeOK == ClassesTypeOK /\ StacksTypeOK /\ SharedTypeOK /\ LocalsTypeOK

(* A name is looked up with an index, never with a pointer that another    *)
(* thread has put in its place, nor with operands another thread has       *)
(* rewritten, however the reads fall between its writes (resolve.c, the    *)
(* second test of the type; interp.c, WITH_OPCODE_CHANGE_CP_DINDEX).       *)
LooksUpWithAnIndex ==
    [][\A t \in Threads : stack'[t] # stack[t] =>
          LET new == Head(stack'[t]) IN
          /\ At(t, "check_type") /\ ~(new.at = "resolve" /\ new.on = Top(t).on)
                => index[t] = "index"
          /\ At(t, "check_opcode") /\ new.at = "resolve"
                => \A n \in 1..2 : operands[t][n] = "index"]_vars

(* Who executes a quick byte code finds its operands rewritten, and its    *)
(* constant pool entry resolved; no such entry goes back to an index.      *)
QuickIsComplete ==
    \A t \in Threads : At(t, "quick") =>
        LET i == Top(t).on IN
        /\ Kind[i] = "field" => code[i].operands[1] = "value"
        /\ Kind[i] = "virtual" => \A n \in 1..2 : code[i].operands[n] = "value"
        /\ cp[Ref[i]].info = "pointer"

(* A static field or method is used by its quick byte code, and an object  *)
(* allocated, only when the class is initialised, or by the thread that is *)
(* initialising it (initClass, resolveClass with init set).                *)
UsedWhenInitialised ==
    \A t \in Threads : stack[t] # <<>> =>
        LET i == Top(t).on IN
        /\ Top(t).at = "use" /\ Kind[i] = "new" => UsableBy(t, Ref[i])
        /\ Top(t).at = "quick" /\ Kind[i] = "static" => UsableBy(t, ClassOf[Ref[i]])

(* A thread waits for the initialisation of a class only while another     *)
(* thread is at it: it is not left behind when that one has ended or       *)
(* failed, whether it had parked before or after (objectWait in initClass  *)
(* and objectNotifyAll at its end).                                        *)
WaitersHaveInitialiser ==
    \A t \in Threads : At(t, "waiting") =>
        LET c == Top(t).on IN
        /\ flags[c] = "INITING"
        /\ \E k \in 1..Len(stack[tid[c]]) :
              /\ stack[tid[c]][k].on = c
              /\ stack[tid[c]][k].at \in
                    {"init_super", "super_initialised", "body", "failed", "initialised"}

===============================================================================
