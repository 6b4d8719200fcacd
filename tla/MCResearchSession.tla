------------------------- MODULE MCResearchSession -------------------------
(* Finite instances of ResearchSession.                                    *)
EXTENDS ResearchSession, TLC

\* Model values of these sets are interchangeable.
Symmetry == Permutations(Requests) \cup Permutations(Tasks) \cup Permutations(Messages)
=============================================================================
