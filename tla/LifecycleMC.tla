----------------------------- MODULE LifecycleMC -----------------------------
(* Parsers as model values; with two of them, the runs that ask for safety
   alone are symmetric in them. *)
EXTENDS Lifecycle, TLC
Symmetry == Permutations(Parsers)
=============================================================================
