----------------------------- MODULE MCFinalizer -----------------------------
(* Instances of Finalizer for TLC. *)
EXTENDS Finalizer, TLC

CONSTANTS m1, m2, o1, o2, o3

OneMutator == {m1}
TwoMutators == {m1, m2}
TwoObjects == {o1, o2}
ThreeObjects == {o1, o2, o3}

MutatorSymmetry == Permutations(TwoMutators)

===============================================================================
