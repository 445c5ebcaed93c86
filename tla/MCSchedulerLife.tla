--------------------------- MODULE MCSchedulerLife ---------------------------
(* What the vLLM scheduler's connector must get done in the end: start up or  *)
(* fail, keep or lose its leases, finish a resize.  The three components      *)
(* share no state, so each behaviour moves one of them (part) and leaves the  *)
(* others where they start: interleaving them would reach nothing new.        *)
EXTENDS Naturals

CONSTANTS
  Workers, Leader, Initial, Sizes, MaxGen, MaxQueue,
  Threads, Requests, Leases, NoLease, TTL, Interval, CallTime,
  MaxRestarts, MaxLate

VARIABLES
  part,
  gen, stage, size, goal, acks, phys, late, cur, used, applied, pending, awake,
  failed, reply, spc, ops, queue, wpc, wop, batch, mapped, torn, last, wapplied,
  live, lost, late_calls, table, control_failure, hb, hclock, pc, req, lease,
  tclock, phase, jclock, closing, overrun, reported,
  startup, wepoch, hook, taken, lock, scheduler, sepoch, epoch, attached, active,
  restarts, admitted

Resize == INSTANCE ElasticResize WITH Faults <- FALSE
Lease == INSTANCE LeaseLifecycle WITH
  late <- late_calls, failed <- control_failure, LiveResize <- FALSE
Startup == INSTANCE ConnectorStartup WITH
  wpc <- startup, used <- taken, spc <- scheduler, Faults <- TRUE

ASSUME PartsAssumption == Startup!StartupAssumption

resizeVars ==
  <<gen, stage, size, goal, acks, phys, late, cur, used, applied, pending, awake,
    failed, reply, spc, ops, queue, wpc, wop, batch, mapped, torn, last, wapplied>>
leaseVars ==
  <<live, lost, late_calls, table, control_failure, hb, hclock, pc, req, lease,
    tclock, phase, jclock, closing, overrun, reported>>
startupVars ==
  <<startup, wepoch, hook, taken, lock, scheduler, sepoch, epoch, attached, active,
    restarts, admitted>>
allVars == <<part, resizeVars, leaseVars, startupVars>>

Init ==
  /\ part \in {"resize", "lease", "startup"}
  /\ Resize!Init /\ Lease!Init /\ Startup!Init

Next ==
  \/ part = "resize" /\ Resize!Next /\ UNCHANGED <<part, leaseVars, startupVars>>
  \/ part = "lease" /\ Lease!Next /\ UNCHANGED <<part, resizeVars, startupVars>>
  \/ part = "startup" /\ Startup!Next /\ UNCHANGED <<part, resizeVars, leaseVars>>

\* The fairness of each component, for the one that moves.
Fairness ==
  /\ WF_resizeVars(part = "resize" /\ Resize!PollSend)
  /\ WF_resizeVars(part = "resize" /\ Resize!PollMerge)
  /\ WF_resizeVars(part = "resize" /\ Resize!Engine /\ spc # "asleep")
  /\ \A w \in Workers : WF_resizeVars(part = "resize" /\ Resize!Worker(w))
  /\ WF_leaseVars(part = "lease" /\ Lease!BeatNext)
  /\ \A t \in Threads : WF_leaseVars(part = "lease" /\ Lease!CallbackNext(t))
  /\ WF_leaseVars(part = "lease" /\ Lease!ShutdownNext)
  /\ SF_leaseVars(part = "lease" /\ Lease!Tick)
  /\ \A w \in Workers : WF_startupVars(part = "startup" /\ Startup!Starts(w))
  /\ WF_startupVars(part = "startup" /\ Startup!SchedulerStarts)
  /\ WF_startupVars(part = "startup" /\ Startup!FirstRequest)

Spec == Init /\ [][Next]_allVars /\ Fairness

-----------------------------------------------------------------------------
(* The components' properties. *)

\* A shrink of a grown pool completes in an idle engine (has_pending_push_work).
IdleShrinkCompletes == Resize!IdleShrinkCompletes

\* A coordinator that forgot the participant is noticed (_heartbeat_loop), and leases
\* that were leaked are renewed by nobody and expire.
LeasesEnd == Lease!LostAuthorityNoticed /\ Lease!LeakedLeasesExpire

\* The endpoint is routable only with every worker attached under its epoch.
ServesOnlyWhole == part = "startup" => Startup!ServesOnlyWhole

\* Startup ends in a served request or in a failure (_start_scheduler_control).
StartupDecides == part = "startup" => Startup!StartupDecides
=============================================================================
