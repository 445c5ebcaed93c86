-------------------------- MODULE MCLeaseLifecycle --------------------------
(* Instances of LeaseLifecycle for TLC. *)
EXTENDS LeaseLifecycle, TLC

\* Threads, requests and leases are interchangeable; used for safety runs only.
Symmetry ==
  Permutations(Threads) \cup Permutations(Requests) \cup Permutations(Leases)
=============================================================================
