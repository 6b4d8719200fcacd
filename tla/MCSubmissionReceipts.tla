----------------------- MODULE MCSubmissionReceipts -----------------------
(* Finite instances of SubmissionReceipts.                                 *)
EXTENDS SubmissionReceipts, TLC

\* Model values of these sets are interchangeable.
Symmetry == Permutations(Contents) \cup Permutations(Keys)
=============================================================================
