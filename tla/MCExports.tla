----------------------------- MODULE MCExports -----------------------------
(* Instances of Exports for TLC. *)
EXTENDS Exports, TLC

Symmetry == Permutations(Export) \cup Permutations(Worker) \cup Permutations(Handler)

=============================================================================
