--------------------------- MODULE MCLeadResearch ---------------------------
(* Three task ids on one branch, with liveness: no symmetry.               *)
EXTENDS LeadResearch
=============================================================================
