---------------------------- MODULE TypedOperands ----------------------------
(***************************************************************************)
(* The operand stack of Operands beside the one a Java program means: that *)
(* of the Java virtual machine, whose operands have types and where a long *)
(* is one value.  Code that passed a verifier never mistakes the type of   *)
(* an operand, so the typed machine says which byte codes can come next    *)
(* and what they should leave, and the words the interpreter leaves are to *)
(* be an encoding of that.                                                 *)
(***************************************************************************)
EXTENDS Operands, SequencesExt

CONSTANT Programs  \* a sequence: the byte codes of each, and what they work on

ASSUME ProgramsAssumption ==
    \A n \in DOMAIN Programs :
        /\ Programs[n].max_stack \in Nat /\ Programs[n].max_locals \in Nat
        /\ Programs[n].kind \in {"array", "object", "static", "none"}

VARIABLES
    program,  \* which of Programs
    typed,    \* the operands: sequence of [type, val]
    locals,   \* the local variables; "word" is part of a long, or nothing
    content,  \* the elements, or the fields
    went      \* where the instruction was to go

jvm == <<program, typed, locals, content, went>>
operandVars == <<operands, jvm>>

P == Programs[program]

T(type, val) == [type |-> type, val |-> val]
Num(v) == T("int", v)
Nothing == T("word", 0)

(* Arithmetic of the JVM: what is left when the bits that are too much are *)
(* dropped, in two's complement.                                           *)
Wrap(type, x) ==
    CHOOSE v \in -(2^(Bits(type) - 1))..(2^(Bits(type) - 1) - 1) : (x - v) % 2^Bits(type) = 0
Ints == -(2^(Word - 1))..(2^(Word - 1) - 1)
Bytes == 0..(2^Half - 1)

EncodeOne(t) == IF t.type = "long" THEN Write("long", t.val) ELSE Write("int", t.val)
Encode(ts) == FlattenSeq([i \in 1..Len(ts) |-> EncodeOne(ts[i])])
Fits(ts) == Len(Encode(ts)) <= P.max_stack

-----------------------------------------------------------------------------
Uses(group) == group \in P.uses

(* The operands on top have these types, the topmost last.                 *)
Has(types) ==
    /\ Len(typed) >= Len(types)
    /\ \A i \in 1..Len(types) : typed[Len(typed) - Len(types) + i].type = types[i]
V(n) == typed[Len(typed) + 1 - n].val
Rest(n) == SubSeq(typed, 1, Len(typed) - n)

Results(n, ts) == typed' = Rest(n) \o ts /\ Fits(Rest(n) \o ts)
Same == UNCHANGED <<program, locals, content>>
Yields(n, ts) == Results(n, ts) /\ went' = <<"next", 0>> /\ Same
Branches(n, to, k) == Results(n, <<>>) /\ went' = <<to, k>> /\ Same
Raises(name) == typed' = <<T("ref", ExceptionRef)>> /\ went' = <<name, 0>> /\ Same

-----------------------------------------------------------------------------
Constants ==
    /\ Uses("const")
    /\ \/ \E t \in P.constants :
             (const(IF t.type = "long" THEN "long" ELSE "int", t.val)) /\ Yields(0, <<t>>)
       \/ \E b \in Bytes : Uses("bipush") /\ bipush(b) /\ Yields(0, <<Num(Signed(Half, b))>>)

Loads ==
    /\ Uses("locals")
    /\ \E n \in 0..(P.max_locals - 1) :
          LET t == locals[n + 1] IN
          t.type # "word" /\ load(t.type, n) /\ Yields(0, <<t>>)

(* What is stored over part of a long leaves nothing of it.                *)
StoredIn(n, t) ==
    [i \in 1..Len(locals) |->
        IF i = n + 1 THEN t
        ELSE IF i - n \in 1..Words(t.type) THEN Nothing
        ELSE IF i <= n /\ i + Words(locals[i].type) > n + 1 THEN Nothing
        ELSE locals[i]]

Stores ==
    /\ Uses("locals") /\ typed # <<>>
    /\ LET t == Last(typed) IN
       \E n \in 0..(P.max_locals - Words(t.type)) :
          /\ store(t.type, n)
          /\ locals' = StoredIn(n, t)
          /\ Results(1, <<>>) /\ went' = <<"next", 0>>
          /\ UNCHANGED <<program, content>>

Increments ==
    /\ Uses("locals")
    /\ \E n \in 0..(P.max_locals - 1), b \in Bytes :
          /\ locals[n + 1].type = "int"
          /\ iinc(n, b)
          /\ locals' = [locals EXCEPT ![n + 1] = Num(Wrap("int", @.val + Signed(Half, b)))]
          /\ went' = <<"next", 0>>
          /\ UNCHANGED <<program, typed, content>>

(* The forms of the stack byte codes: groups of operands, each one or two  *)
(* words, whatever their types are.                                        *)
Operand(n, above) == SubSeq(typed, Len(typed) - above - n + 1, Len(typed) - above)
Group(words, above) ==
    {n \in 1..2 : n + above <= Len(typed) /\ Len(Encode(Operand(n, above))) = words}

Duplicates(words) ==
    \E n \in Group(words, 0) : Yields(n, Operand(n, 0) \o Operand(n, 0))
DuplicatesBelow(words, under) ==
    \E n \in Group(words, 0) : \E m \in Group(under, n) :
        Yields(n + m, Operand(n, 0) \o Operand(m, n) \o Operand(n, 0))

Pops == \E words \in 1..2 : \E n \in Group(words, 0) : Yields(n, <<>>) /\ pop(words)

StackOps ==
    /\ Uses("stack")
    /\ \/ Duplicates(1) /\ dup
       \/ Duplicates(2) /\ dup2
       \/ DuplicatesBelow(1, 1) /\ dup_x1
       \/ DuplicatesBelow(1, 2) /\ dup_x2
       \/ DuplicatesBelow(2, 1) /\ dup2_x1
       \/ DuplicatesBelow(2, 2) /\ dup2_x2
       \/ \E n \in Group(1, 0) : \E m \in Group(1, n) :
             swap /\ Yields(n + m, Operand(n, 0) \o Operand(m, n))

(* The quotient is the number of greatest magnitude that does not exceed   *)
(* the dividend when multiplied.  Programs do not divide the least int by  *)
(* -1.                                                                     *)
Divided(v1, v2) ==
    CHOOSE q \in -Magnitude(v1)..Magnitude(v1) :
        /\ Magnitude(q * v2) <= Magnitude(v1) /\ q * v1 * v2 >= 0
        /\ Magnitude(v1) - Magnitude(q * v2) < Magnitude(v2)

Arithmetic ==
    /\ Uses("arithmetic")
    /\ \E type \in {"int", "long"} :
          \/ /\ Has(<<type, type>>)
             /\ \/ BINARY_OP(type, "-") /\ Yields(2, <<T(type, Wrap(type, V(2) - V(1)))>>)
                \/ /\ ~Traps(type, V(2), V(1))
                   /\ \E op \in {"/", "%"} :
                         /\ BINARY_OP(type, op)
                         /\ \/ V(1) = 0 /\ Raises("ArithmeticException")
                            \/ /\ V(1) # 0
                               /\ LET q == Divided(V(2), V(1)) IN
                                  Yields(2, <<T(type, Wrap(type,
                                                IF op = "/" THEN q ELSE V(2) - q * V(1)))>>)
          \/ Has(<<type>>) /\ UNARY_MINUS(type) /\ Yields(1, <<T(type, Wrap(type, -V(1)))>>)
          \/ /\ Has(<<type, "int">>)
             /\ LET by == 2^(V(1) % Bits(type)) IN
                \/ SHIFT_OP(type, "<<") /\ Yields(2, <<T(type, Wrap(type, V(2) * by))>>)
                \/ SHIFT_OP(type, ">>") /\ Yields(2, <<T(type, Wrap(type, V(2) \div by))>>)
                \/ /\ SHIFT_OP(type, ">>>")
                   /\ Yields(2, <<T(type, Wrap(type, (V(2) % 2^Bits(type)) \div by))>>)

Sign(x) == CHOOSE s \in -1..1 : s * Magnitude(x) = x /\ (x = 0 => s = 0)

Conversions ==
    /\ Uses("arithmetic")
    /\ \/ Has(<<"int">>) /\ OPC_X2Y("int", "long") /\ Yields(1, <<T("long", V(1))>>)
       \/ Has(<<"long">>) /\ OPC_X2Y("long", "int") /\ Yields(1, <<Num(Wrap("int", V(1)))>>)
       \/ Has(<<"int">>) /\ i2b /\ Yields(1, <<Num(Signed(Half, V(1) % 2^Half))>>)
       \/ Has(<<"int">>) /\ i2c /\ Yields(1, <<Num(V(1) % 2^Half)>>)
       \/ /\ Has(<<"long", "long">>) /\ CMP("long")
          /\ Yields(2, <<Num(Sign(V(2) - V(1)))>>)

FloatComparisons ==
    /\ Uses("floats") /\ Has(<<"float", "float">>)
    /\ \E isNan \in {-1, 1} :
          /\ FCMP(isNan)
          /\ Yields(2, <<Num(IF V(1) = NaN \/ V(2) = NaN THEN isNan ELSE Sign(V(2) - V(1)))>>)

Conditions == {"==", "!=", "<", ">=", ">", "<="}
Taken(b) == IF b THEN "branch" ELSE "next"

Jumps ==
    /\ Uses("jumps")
    /\ \/ \E c \in Conditions :
             \/ Has(<<"int">>) /\ IF_(c) /\ Branches(1, Taken(Holds(c, V(1), 0)), 0)
             \/ Has(<<"int", "int">>) /\ IF_ICMP(c) /\ Branches(2, Taken(Holds(c, V(2), V(1))), 0)
             \/ /\ c \in {"==", "!="}
                /\ \/ Has(<<"ref">>) /\ IF_(c) /\ Branches(1, Taken((V(1) = NULL) = (c = "==")), 0)
                   \/ /\ Has(<<"ref", "ref">>) /\ IF_ICMP(c)
                      /\ Branches(2, Taken((V(2) = V(1)) = (c = "==")), 0)
       \/ \E low, high \in Ints :
             /\ low <= high /\ Has(<<"int">>) /\ tableswitch(low, high)
             /\ IF V(1) \in low..high THEN Branches(1, "case", V(1) - low)
                ELSE Branches(1, "default", 0)
       \/ \E key1, key2 \in Ints :
             /\ key1 < key2 /\ Has(<<"int">>) /\ lookupswitch(<<key1, key2>>)
             /\ \/ V(1) = key1 /\ Branches(1, "case", 1)
                \/ V(1) = key2 /\ Branches(1, "case", 2)
                \/ V(1) \notin {key1, key2} /\ Branches(1, "default", 0)

-----------------------------------------------------------------------------
(* The checks of a reference and an index, in the order of the JVM.        *)
Refused(ref, i) ==
    \/ ref = NULL /\ Raises("NullPointerException")
    \/ ref = ObjectRef /\ i \notin 0..(Len(content) - 1) /\ Raises("ArrayIndexOutOfBoundsException")
Accepted(ref, i) == ref = ObjectRef /\ i \in 0..(Len(content) - 1)

(* A narrow element keeps the low bits of the int that is stored.          *)
Narrow(v) == IF P.element = Half THEN Signed(Half, v % 2^Half) ELSE v

Arrays ==
    /\ P.kind = "array"
    /\ LET long == P.element = 2 * Word
           type == IF long THEN "long" ELSE "int"
       IN
       \/ /\ Has(<<"ref", "int">>) /\ V(2) # ExceptionRef
          /\ IF long THEN ARRAY_LOAD_LONG ELSE ARRAY_LOAD(P.element)
          /\ \/ Refused(V(2), V(1))
             \/ Accepted(V(2), V(1)) /\ Yields(2, <<T(type, content[V(1) + 1])>>)
       \/ /\ Has(<<"ref", "int", type>>) /\ V(3) # ExceptionRef
          /\ IF long THEN ARRAY_STORE_LONG ELSE ARRAY_STORE(P.element)
          /\ \/ Refused(V(3), V(2))
             \/ /\ Accepted(V(3), V(2))
                /\ content' = [content EXCEPT ![V(2) + 1] = Narrow(V(1))]
                /\ Results(3, <<>>) /\ went' = <<"next", 0>> /\ UNCHANGED <<program, locals>>
       \/ /\ Has(<<"ref">>) /\ V(1) # ExceptionRef
          /\ arraylength
          /\ \/ V(1) = NULL /\ Raises("NullPointerException")
             \/ V(1) = ObjectRef /\ Yields(1, <<Num(Len(content))>>)

Sets(k, n) ==
    /\ content' = [content EXCEPT ![k] = T(@.type, V(1))]
    /\ Results(n, <<>>) /\ went' = <<"next", 0>> /\ UNCHANGED <<program, locals>>

(* Field number k; those before it are ints.                               *)
Fields ==
    /\ P.kind \in {"object", "static"}
    /\ \E k \in 1..Len(content) :
          LET type == content[k].type IN
          \/ /\ P.kind = "object"
             /\ \/ /\ Has(<<"ref">>) /\ V(1) # ExceptionRef
                   /\ getfield(type, k - 1)
                   /\ \/ V(1) = NULL /\ Raises("NullPointerException")
                      \/ V(1) = ObjectRef /\ Yields(1, <<content[k]>>)
                \/ /\ type = "int" /\ P.max_locals > 0
                   /\ getfield_this(k - 1)
                   /\ locals[1] = T("ref", ObjectRef) /\ Yields(0, <<content[k]>>)
                \/ /\ Has(<<"ref", type>>) /\ V(2) # ExceptionRef
                   /\ putfield(type, k - 1)
                   /\ \/ V(2) = NULL /\ Raises("NullPointerException")
                      \/ V(2) = ObjectRef /\ Sets(k, 2)
          \/ /\ P.kind = "static" /\ k = 1
             /\ \/ getstatic(type) /\ Yields(0, <<content[1]>>)
                \/ Has(<<type>>) /\ putstatic(type) /\ Sets(k, 1)

(* A return: whoever the method returns to finds the result, and another   *)
(* method is called.                                                       *)
Returns ==
    \E type \in P.returns :
        /\ Has(<<type>>) /\ xreturn(type)
        /\ typed' = <<Last(typed)>>
        /\ went' = <<"return", 0>> /\ Same

Raw(ts) == IF P.kind = "array" THEN [i \in 1..Len(ts) |-> ts[i] % 2^P.element]
           ELSE Encode(ts)

Starts(n) ==
    LET object == Programs[n].kind = "object"
        max_locals == Programs[n].max_locals
    IN
    /\ program = n
    /\ typed = <<>> /\ ostack = <<>>
    /\ lvars = [i \in 1..max_locals |-> IF object THEN ObjectRef ELSE 0]
    /\ locals = [i \in 1..max_locals |-> IF object THEN T("ref", ObjectRef) ELSE Nothing]
    /\ content = Programs[n].content /\ data = Raw(content)
    /\ pc = <<"next", 0>> /\ went = <<"next", 0>>

Invoked ==
    /\ went[1] = "return"
    /\ typed' = <<>> /\ ostack' = <<>>
    /\ lvars' = [i \in 1..Len(lvars) |-> 0]
    /\ locals' = [i \in 1..Len(locals) |-> Nothing]
    /\ pc' = <<"next", 0>> /\ went' = <<"next", 0>>
    /\ UNCHANGED <<program, content, data>>

OperandsInit == \E n \in DOMAIN Programs : Starts(n)

OperandsNext ==
    \/ /\ went[1] # "return"
       /\ \/ Constants \/ Loads \/ Stores \/ Increments \/ Pops \/ StackOps \/ Arithmetic \/ Conversions
          \/ FloatComparisons \/ Jumps \/ Arrays \/ Fields \/ Returns
    \/ Invoked

-----------------------------------------------------------------------------
(* What a method can read back from its local variables, from an array or  *)
(* from a field is what was stored there, and the caller's next operand is *)
(* the result.                                                             *)
StoredIsKept ==
    /\ data = Raw(content)
    /\ IF went[1] = "return" THEN SubSeq(lvars, 1, Words(typed[1].type)) = Encode(typed)
       ELSE \A n \in 1..Len(locals) :
               locals[n].type # "word" =>
                   SubSeq(lvars, n, n + Words(locals[n].type) - 1) = EncodeOne(locals[n])

(* The words on the operand stack are those of the typed operands, those   *)
(* stored are what was stored, and the interpreter goes where the          *)
(* instruction says, exceptions included: two words of a long are never    *)
(* taken for two ints, or in another order, and what is read off the stack *)
(* is sign-extended, wrapped around and compared as the JVM does           *)
(* (interp.c, the macros and byte codes).                                  *)
OperandsAreTyped ==
    /\ pc = went
    /\ went[1] # "return" => ostack = Encode(typed)
    /\ StoredIsKept

=============================================================================
