-------------------------- MODULE MCOrtSessionPool --------------------------
(* Instances of OrtSessionPool for TLC. *)
EXTENDS OrtSessionPool, TLC

\* Threads, requests, cancellers and run options are interchangeable; used for
\* safety runs only.
Symmetry ==
  Permutations(Threads) \cup Permutations(Ids) \cup Permutations(Cancellers)
    \cup Permutations(Runs)
=============================================================================
