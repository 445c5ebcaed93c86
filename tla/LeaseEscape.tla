----------------------------- MODULE LeaseEscape -----------------------------
(* LeaseLifecycle with the exceptions _heartbeat_loop does not catch.  It    *)
(* expects KapslKvControlError alone, but _poll_scheduler_resizes raises     *)
(* SharedPoolImportError for a reply with handles, and the client lets the   *)
(* ContractValidationError of an error reply without an error object pass.   *)
(* Such a reply ends the thread.                                             *)
EXTENDS LeaseLifecycle

HeartbeatEscapes ==
  /\ hb \in {"poll", "call", "renewed"}
  /\ LoopTo("dead")
  /\ UNCHANGED <<coVars, table, failed, threadVars, downVars, reported>>

NextWithEscape == Next \/ HeartbeatEscapes

SpecWithEscape == Init /\ [][NextWithEscape]_vars
=============================================================================
