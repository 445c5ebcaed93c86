---------------------------- MODULE MCLeaseEscape ----------------------------
(* Instance of LeaseEscape for TLC. *)
EXTENDS LeaseEscape
=============================================================================
