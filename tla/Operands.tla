------------------------------ MODULE Operands ------------------------------
(***************************************************************************)
(* What the interpreter does to the operand stack (interp.c, the macros    *)
(* and the byte codes that call nothing).                                  *)
(*                                                                         *)
(* Operands and local variables are words (u4) without a type.  A long or  *)
(* a double is two words, the less significant one lower, and is read and  *)
(* written as one u8.  Words and halves have as many bits as the constants *)
(* say.  Floats and doubles go through the same macros as ints and longs;  *)
(* of what only they can be, NaN is modelled, for the comparisons.         *)
(***************************************************************************)
EXTENDS Integers, Sequences

CONSTANTS Word, \* bits of a u4
          Half  \* bits of a byte, char or short

ASSUME WidthAssumption == Half \in Nat \ {0} /\ Word \in Nat /\ Half < Word

VARIABLES
    ostack,  \* the words between frame->ostack and ostack, the top one last
    lvars,   \* the local variables
    data,    \* the elements of the array, or the words of the object or static
    pc       \* where the last instruction went: <<which way, number of the case>>

operands == <<ostack, lvars, data, pc>>

NULL == 0
ObjectRef == 1      \* the array or object data belongs to
ExceptionRef == 2

NaN == -(2^(Word - 1))

Words(type) == IF type = "long" THEN 2 ELSE 1
Bits(type) == Word * Words(type)

Signed(bits, u) == IF u >= 2^(bits - 1) THEN u - 2^bits ELSE u

(* A value as the words it is written to.                                  *)
Write(type, v) ==
    IF type = "long" THEN <<v % 2^Word, (v \div 2^Word) % 2^Word>> ELSE <<v % 2^Word>>

(* ostack[k], k negative, and the value of a type n words below the top.   *)
At(k) == ostack[Len(ostack) + 1 + k]
Read(type, n) ==
    Signed(Bits(type), IF type = "long" THEN At(-n - 2) + 2^Word * At(-n - 1) ELSE At(-n - 1))

Below(n) == SubSeq(ostack, 1, Len(ostack) - n)

Goes(to, n, stack) == pc' = <<to, n>> /\ ostack' = stack /\ UNCHANGED <<lvars, data>>
Leaves(stack) == Goes("next", 0, stack)

(* throwException, when the method has a handler.                          *)
Throws(name) == Goes(name, 0, <<ExceptionRef>>)

-----------------------------------------------------------------------------
(* ICONST, LCONST, LDC and BIPUSH.                                         *)
const(type, v) == Leaves(ostack \o Write(type, v))
bipush(byte) == Leaves(ostack \o Write("int", Signed(Half, byte)))

load(type, n) == Leaves(ostack \o SubSeq(lvars, n + 1, n + Words(type)))

(* Fault: one word of a long is stored.                                    *)
store_short(type, n) ==
    /\ lvars' = [lvars EXCEPT ![n + 1] = At(-Words(type))]
    /\ ostack' = Below(Words(type))
    /\ pc' = <<"next", 0>>
    /\ UNCHANGED data

store(type, n) ==
    /\ lvars' = [i \in 1..Len(lvars) |->
                    IF i - n \in 1..Words(type) THEN At(i - n - Words(type) - 1) ELSE lvars[i]]
    /\ ostack' = Below(Words(type))
    /\ pc' = <<"next", 0>>
    /\ UNCHANGED data

pop(n) == Leaves(Below(n))

dup == Leaves(ostack \o <<At(-1)>>)
dup_x1 == Leaves(Below(2) \o <<At(-1), At(-2), At(-1)>>)
dup_x2 == Leaves(Below(3) \o <<At(-1), At(-3), At(-2), At(-1)>>)
dup2 == Leaves(ostack \o <<At(-2), At(-1)>>)
dup2_x1 == Leaves(Below(3) \o <<At(-2), At(-1), At(-3), At(-2), At(-1)>>)

(* Fault: the two upper operands change places below the lower ones.       *)
dup2_x2_swapped == Leaves(Below(4) \o <<At(-1), At(-2), At(-4), At(-3), At(-2), At(-1)>>)

dup2_x2 == Leaves(Below(4) \o <<At(-2), At(-1), At(-4), At(-3), At(-2), At(-1)>>)
swap == Leaves(Below(2) \o <<At(-1), At(-2)>>)

-----------------------------------------------------------------------------
Magnitude(v) == IF v < 0 THEN -v ELSE v

(* The quotient of C, and the one operand pair i386 cannot divide.         *)
Quotient(v1, v2) ==
    LET q == Magnitude(v1) \div Magnitude(v2) IN IF (v1 < 0) = (v2 < 0) THEN q ELSE -q
Traps(type, v1, v2) == type = "int" /\ v1 = -(2^(Word - 1)) /\ v2 = -1

(* Subtraction stands for the operators that cannot fail; a process that   *)
(* traps is gone.                                                          *)
BINARY_OP(type, op) ==
    LET v1 == Read(type, Words(type))
        v2 == Read(type, 0)
        below == Below(2 * Words(type))
    IN
    CASE op = "-" -> Leaves(below \o Write(type, v1 - v2))
      [] op # "-" /\ v2 = 0 -> Throws("ArithmeticException")
      [] op # "-" /\ v2 # 0 /\ Traps(type, v1, v2) -> Goes("SIGFPE", 0, ostack)
      [] op = "/" /\ v2 # 0 /\ ~Traps(type, v1, v2) ->
            Leaves(below \o Write(type, Quotient(v1, v2)))
      [] op = "%" /\ v2 # 0 /\ ~Traps(type, v1, v2) ->
            Leaves(below \o Write(type, v1 - Quotient(v1, v2) * v2))

UNARY_MINUS(type) == Leaves(Below(Words(type)) \o Write(type, -Read(type, 0)))

(* The instructions of i386 look at the low bits of the count only.        *)
SHIFT_OP(type, op) ==
    LET by == 2^(At(-1) % Bits(type))
        v == Read(type, 1)
    IN
    Leaves(Below(1 + Words(type)) \o
           Write(type, CASE op = "<<" -> v * by
                         [] op = ">>" -> v \div by
                         [] op = ">>>" -> (v % 2^Bits(type)) \div by))

OPC_X2Y(src, dest) == Leaves(Below(Words(src)) \o Write(dest, Read(src, 0)))
i2b == Leaves(Below(1) \o Write("int", Signed(Half, At(-1) % 2^Half)))
i2c == Leaves(Below(1) \o Write("int", At(-1) % 2^Half))

iinc(n, byte) ==
    /\ lvars' = [lvars EXCEPT ![n + 1] = (@ + Signed(Half, byte)) % 2^Word]
    /\ pc' = <<"next", 0>>
    /\ UNCHANGED <<ostack, data>>

CMP(type) ==
    LET v1 == Read(type, Words(type))
        v2 == Read(type, 0)
    IN
    Leaves(Below(2 * Words(type)) \o
           Write("int", IF v1 = v2 THEN 0 ELSE IF v1 < v2 THEN -1 ELSE 1))

(* Fault: both byte codes push -1 for NaN.                                 *)
FCMP_less(isNan) ==
    LET v1 == Read("int", 1)
        v2 == Read("int", 0)
    IN
    Leaves(Below(2) \o
           Write("int", CASE NaN \in {v1, v2} -> -1
                          [] NaN \notin {v1, v2} /\ v1 = v2 -> 0
                          [] NaN \notin {v1, v2} /\ v1 < v2 -> -1
                          [] NaN \notin {v1, v2} /\ v1 > v2 -> 1))

(* FCMPG and FCMPL, and what they push when an operand is NaN.  A float is *)
(* a word too; one of the words is NaN, the others are in the order of     *)
(* ints.                                                                   *)
FCMP(isNan) ==
    LET v1 == Read("int", 1)
        v2 == Read("int", 0)
    IN
    Leaves(Below(2) \o
           Write("int", CASE NaN \in {v1, v2} -> isNan
                          [] NaN \notin {v1, v2} /\ v1 = v2 -> 0
                          [] NaN \notin {v1, v2} /\ v1 < v2 -> -1
                          [] NaN \notin {v1, v2} /\ v1 > v2 -> 1))

Holds(cond, v1, v2) ==
    CASE cond = "==" -> v1 = v2
      [] cond = "!=" -> v1 # v2
      [] cond = "<"  -> v1 < v2
      [] cond = ">=" -> v1 >= v2
      [] cond = ">"  -> v1 > v2
      [] cond = "<=" -> v1 <= v2

IF_(cond) ==
    Goes(IF Holds(cond, Read("int", 0), 0) THEN "branch" ELSE "next", 0, Below(1))
IF_ICMP(cond) ==
    Goes(IF Holds(cond, Read("int", 1), Read("int", 0)) THEN "branch" ELSE "next", 0, Below(2))

tableswitch(low, high) ==
    LET index == Read("int", 0) IN
    IF index < low \/ index > high THEN Goes("default", 0, Below(1))
    ELSE Goes("case", index - low, Below(1))

(* The pairs are searched from the first one.                              *)
lookupswitch(keys) ==
    LET key == Read("int", 0)
        found == {i \in 1..Len(keys) : keys[i] = key}
    IN
    IF found = {} THEN Goes("default", 0, Below(1))
    ELSE Goes("case", CHOOSE i \in found : \A j \in found : i <= j, Below(1))

-----------------------------------------------------------------------------
(* Fault: a negative index is below the length.                            *)
BoundsCheck_signed(ref, i) == ref # NULL /\ Signed(Word, i) >= Len(data)

(* Arrays.  The index is compared with the length as unsigned numbers.     *)
ARRAY_BOUNDS_CHECK(ref, i) == ref # NULL /\ i >= Len(data)

(* An element; what lies behind the last one is not to be read.            *)
Element(i) == IF i < Len(data) THEN data[i + 1] ELSE 0

ARRAY_LOAD(bits) ==
    \/ At(-2) = NULL /\ Throws("NullPointerException")
    \/ ARRAY_BOUNDS_CHECK(At(-2), At(-1)) /\ Throws("ArrayIndexOutOfBoundsException")
    \/ /\ At(-2) # NULL /\ ~ARRAY_BOUNDS_CHECK(At(-2), At(-1))
       /\ Leaves(Below(2) \o Write("int", Signed(bits, Element(At(-1)))))

ARRAY_LOAD_LONG ==
    \/ At(-2) = NULL /\ Throws("NullPointerException")
    \/ ARRAY_BOUNDS_CHECK(At(-2), At(-1)) /\ Throws("ArrayIndexOutOfBoundsException")
    \/ /\ At(-2) # NULL /\ ~ARRAY_BOUNDS_CHECK(At(-2), At(-1))
       /\ Leaves(Below(2) \o Write("long", Element(At(-1))))

ARRAY_STORE(bits) ==
    \/ At(-3) = NULL /\ Throws("NullPointerException")
    \/ ARRAY_BOUNDS_CHECK(At(-3), At(-2)) /\ Throws("ArrayIndexOutOfBoundsException")
    \/ /\ At(-3) # NULL /\ ~ARRAY_BOUNDS_CHECK(At(-3), At(-2))
       /\ data' = [data EXCEPT ![At(-2) + 1] = At(-1) % 2^bits]
       /\ ostack' = Below(3) /\ pc' = <<"next", 0>>
       /\ UNCHANGED lvars

ARRAY_STORE_LONG ==
    \/ At(-4) = NULL /\ Throws("NullPointerException")
    \/ ARRAY_BOUNDS_CHECK(At(-4), At(-3)) /\ Throws("ArrayIndexOutOfBoundsException")
    \/ /\ At(-4) # NULL /\ ~ARRAY_BOUNDS_CHECK(At(-4), At(-3))
       /\ data' = [data EXCEPT ![At(-3) + 1] = At(-2) + 2^Word * At(-1)]
       /\ ostack' = Below(4) /\ pc' = <<"next", 0>>
       /\ UNCHANGED lvars

arraylength ==
    \/ At(-1) = NULL /\ Throws("NullPointerException")
    \/ At(-1) # NULL /\ Leaves(Below(1) \o Write("int", Len(data)))

-----------------------------------------------------------------------------
(* The quick byte codes of fields.  A field of two words is copied as one  *)
(* u8; that of a static is its static_value and the offset behind it.      *)
Field(type, offset) == SubSeq(data, offset + 1, offset + Words(type))
FieldSet(type, offset) ==
    [i \in 1..Len(data) |->
        IF i - offset \in 1..Words(type) THEN At(i - offset - Words(type) - 1) ELSE data[i]]

getfield(type, offset) ==
    \/ At(-1) = NULL /\ Throws("NullPointerException")
    \/ At(-1) # NULL /\ Leaves(Below(1) \o Field(type, offset))

(* ALOAD_0 and GETFIELD in one: this is the object, not local variable 0.  *)
getfield_this(offset) == Leaves(ostack \o Field("int", offset))

putfield(type, offset) ==
    \/ At(-1 - Words(type)) = NULL /\ Throws("NullPointerException")
    \/ /\ At(-1 - Words(type)) # NULL
       /\ data' = FieldSet(type, offset)
       /\ ostack' = Below(1 + Words(type)) /\ pc' = <<"next", 0>>
       /\ UNCHANGED lvars

getstatic(type) == Leaves(ostack \o Field(type, 0))
putstatic(type) ==
    /\ data' = FieldSet(type, 0)
    /\ ostack' = Below(Words(type)) /\ pc' = <<"next", 0>>
    /\ UNCHANGED lvars

(* The result becomes the lowest local variable, which the caller takes    *)
(* for the top of its operands.  For a long or double the code writes the  *)
(* address of the operand over the operand, and to lvars nothing.          *)
xreturn(type) ==
    /\ pc' = <<"return", 0>>
    /\ ostack' = Below(Words(type))
    /\ lvars' = IF type = "long" THEN lvars ELSE [lvars EXCEPT ![1] = At(-1)]
    /\ UNCHANGED data

=============================================================================
