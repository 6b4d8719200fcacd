------------------------ MODULE MCResearchConvergence ------------------------
(* Up to three papers: revisions of the saved result of every kind of plan.   *)
EXTENDS ResearchConvergence, TLC

Symmetry == Permutations(Papers)
=============================================================================
