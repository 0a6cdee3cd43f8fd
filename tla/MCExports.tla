----------------------------- MODULE MCExports -----------------------------
(* Instances of Exports. Calls are interchangeable, and so are identifiers. *)
EXTENDS Exports, TLC

Symmetry == Permutations(Calls) \cup Permutations(Ids)
=============================================================================
