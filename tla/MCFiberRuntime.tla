--------------------------- MODULE MCFiberRuntime ---------------------------
(***************************************************************************)
(* Instances of FiberRuntime: scope keys of one scope id, in one or in two *)
(* generations, and the calls each instance exercises.                     *)
(***************************************************************************)
EXTENDS FiberRuntime, TLC

OneKey == {[id |-> "s", generation |-> 1]}
TwoKeys == {[id |-> "s", generation |-> 1], [id |-> "s", generation |-> 2]}

Symmetry == Permutations(Callers) \cup Permutations(Fibers)

=============================================================================
