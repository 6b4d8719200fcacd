--------------------------- MODULE MCReportDelivery ---------------------------
(* Up to three papers: the graph inside its session, through revisions, edits *)
(* and rewrites of what it delivered.                                         *)
EXTENDS ReportDelivery, TLC

Symmetry == Permutations(Papers)

\* A plan with every paper is followed through two revisions, edits or rewrites, a
\* smaller one through all that Followups and Changes allow.
Bound == plan.papers # Papers \/ asked + changed <= 2
=============================================================================
