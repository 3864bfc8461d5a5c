---------------------------- MODULE MCSequential ----------------------------
(***************************************************************************)
(* Instances of the modules that describe what one thread does by itself,  *)
(* or under a lock, for TLC.  A behaviour is one of one of them: the       *)
(* others stay in an initial state.                                        *)
(***************************************************************************)
EXTENDS JavaStack, TypedOperands, GlobalRefs, HashTable, Casts, TLC

CONSTANTS java, static, native, init, \* methods
          o1, o2, r1, r2,
          k1, k2, k3, k4, k5, k6, k7,
          A, B, I

(* java is synchronized on its receiver and has a handler, static on its   *)
(* class and stores to local variable 0.                                   *)
TheMethods == {java, static, native, init}
TheSynchronized == java :> "instance" @@ static :> "static" @@ native :> "instance" @@ init :> "no"
TheArgs == java :> 1 @@ static :> 0 @@ native :> 1 @@ init :> 1
TheLocals == java :> 2 @@ static :> 1 @@ native :> 1 @@ init :> 1
TheStack == java :> 2 @@ static :> 1 @@ native :> 0 @@ init :> 1

(* Programs of a few byte codes each, with all the operands there are for  *)
(* those that compute.                                                     *)
Program(kind, uses, constants, max_stack, max_locals) ==
    [kind |-> kind, uses |-> uses, constants |-> constants, max_stack |-> max_stack,
     max_locals |-> max_locals, content |-> <<>>, element |-> 0, returns |-> {}]

AllInts == {Num(v) : v \in Ints}
AllLongs == {T("long", v) : v \in -(2^(2 * Word - 1))..(2^(2 * Word - 1) - 1)}
AllFloats == {T("float", v) : v \in Ints}
SomeLongs == {T("long", 2^Word + 2), T("long", -2)}
Refs == {T("ref", NULL), T("ref", ObjectRef)}

ThePrograms ==
    <<Program("none", {"const", "stack"}, {Num(0), Num(1), T("long", 1), T("long", 2^Word)}, 6, 0),
      Program("none", {"const", "bipush", "arithmetic"}, AllInts \cup AllLongs, 4, 0),
      Program("none", {"const", "floats"}, AllFloats, 2, 0),
      Program("none", {"const", "jumps"}, AllInts \cup Refs, 2, 0),
      [Program("none", {"const", "locals"}, AllInts \cup SomeLongs \cup {T("ref", NULL)}, 2, 3)
          EXCEPT !.returns = {"int", "ref"}]>>
    \o [i \in 1..3 |->
          [Program("array", {"const"}, AllInts \cup Refs \cup SomeLongs, 4, 0)
              EXCEPT !.element = <<Half, Word, 2 * Word>>[i], !.content = <<0>>]]
    \o [i \in 1..2 |->
          [Program("object", {"const"}, AllInts \cup Refs \cup SomeLongs, 3, 1)
              EXCEPT !.content = <<<<Num(0), Num(0)>>, <<T("long", 0)>>>>[i]]]
    \o [i \in 1..2 |->
          [Program("static", {"const"}, AllInts \cup SomeLongs, 2, 0)
              EXCEPT !.content = <<<<Num(0)>>, <<T("long", 0)>>>>[i]]]

(* Keys that fall into one slot, into the next and into the last.          *)
TheKeys == {k1, k2, k3, k4, k5, k6, k7}
TheHash == k1 :> 1 @@ k2 :> 1 @@ k3 :> 7 @@ k4 :> 3 @@ k5 :> 0 @@ k6 :> 15 @@ k7 :> 7

Symmetry == Permutations(Objects)

-----------------------------------------------------------------------------
VARIABLE part

MCInit ==
    /\ part \in {"frames", "operands", "references", "hash", "casts"}
    /\ Init /\ GrefsInit /\ HashInit /\ CastsInit
    /\ \E n \in IF part = "operands" THEN DOMAIN Programs ELSE {1} : Starts(n)

(* The tables end by being full of all keys, and the classes by being all  *)
(* defined.                                                                *)
Complete == part \in {"hash", "casts"}

MCNext ==
    \/ /\ part = "frames" /\ Next
       /\ UNCHANGED <<part, operandVars, grefVars, hashVars, classes>>
    \/ /\ part = "operands" /\ OperandsNext
       /\ UNCHANGED <<part, vars, grefVars, hashVars, classes>>
    \/ /\ part = "references" /\ GrefsNext
       /\ UNCHANGED <<part, vars, operandVars, hashVars, classes>>
    \/ /\ part = "hash" /\ HashNext
       /\ UNCHANGED <<part, vars, operandVars, grefVars, classes>>
    \/ /\ part = "casts" /\ CastsNext
       /\ UNCHANGED <<part, vars, operandVars, grefVars, hashVars>>
    \/ Complete /\ UNCHANGED <<part, vars, operandVars, grefVars, hashVars, classes>>

MCSpec == MCInit /\ [][MCNext]_<<part, vars, operandVars, grefVars, hashVars, classes>>

=============================================================================
