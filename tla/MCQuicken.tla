------------------------------- MODULE MCQuicken -------------------------------
(* Instances of Quicken for TLC. *)
EXTENDS Quicken, TLC

CONSTANTS t1, t2, t3,                       \* threads
          A, S, X, W, Z, M,                 \* classes
          getA, newX, getX, callA, wideX, testW, testZ, ldc,        \* byte codes
          fA, fX, mA, wX, str               \* constant pool entries

(* A extends S; X extends S and is first used by the <clinit> of A.  M has *)
(* no class file: W has it for superclass, Z for interface; nobody         *)
(* initialises W and Z.                                                    *)
AllClasses == {A, S, X, W, Z, M}
TheSuper == A :> S @@ S :> Nil @@ X :> S @@ W :> M
            @@ Z :> Nil @@ M :> Nil
TheInterface == [c \in AllClasses |-> IF c = Z THEN M ELSE Nil]
TheBody == [c \in AllClasses |-> IF c = A THEN <<newX>> ELSE IF c = X THEN <<getX, wideX>>
                             ELSE IF c = S THEN <<ldc>> ELSE <<>>]

AllInstrs == {getA, newX, getX, callA, wideX, testW, testZ, ldc}
AllRefs == {fA, fX, mA, wX, str}
TheKind == getA :> "static" @@ newX :> "new" @@ getX :> "field" @@ callA :> "virtual"
           @@ wideX :> "wide" @@ testW :> "test" @@ testZ :> "test"
           @@ ldc :> "string"
TheRef == getA :> fA @@ newX :> X @@ getX :> fX @@ callA :> mA @@ wideX :> wX
          @@ testW :> W @@ testZ :> Z @@ ldc :> str
TheClass == fA :> A @@ fX :> X @@ mA :> A @@ wX :> X @@ str :> Nil
TheMain == t1 :> <<getA>> @@ t2 :> <<callA, testW>>
           @@ t3 :> <<testW, callA, testZ>>

(* Two threads that both are the first to use A (not in the run: see the   *)
(* README on classes that are linked by two threads).                      *)
RacingMain == [t \in Threads |-> <<getA>>]
===============================================================================
