------------------------- MODULE MCSpecialistGraph -------------------------
(* Finite instances of SpecialistGraph.                                    *)
EXTENDS SpecialistGraph, TLC

\* Model values of these sets are interchangeable.
Symmetry == Permutations(Reads) \cup Permutations(Methods) \cup Permutations(Notes)
=============================================================================
