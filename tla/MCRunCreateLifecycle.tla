------------------------ MODULE MCRunCreateLifecycle ------------------------
(* Finite instances of RunCreateLifecycle.                                 *)
EXTENDS RunCreateLifecycle, TLC

\* Model values of these sets are interchangeable.
Symmetry ==
    Permutations(Sessions) \cup Permutations(Threads) \cup Permutations(Runs)
    \cup Permutations(Invocations) \cup Permutations(ServerRuns)
    \cup Permutations(Digests)
=============================================================================
