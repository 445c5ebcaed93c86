-------------------------- MODULE ConnectorStartup --------------------------
(* Start and stop of a shared-pool participant (connector.py): the workers   *)
(* register, import their binding, have vLLM allocate from it and attach;    *)
(* the scheduler registers, activates, and starts serving.  Also the lock a  *)
(* worker holds from start_load_kv to wait_for_save.  The coordinator is     *)
(* external: it gives one epoch to a participant, forgets it on a restart,   *)
(* takes attachments of its epoch only, activates only a complete set, and   *)
(* routes requests only to an active participant.  vLLM is external: it      *)
(* constructs the scheduler's connector at any time (its order may drift).   *)
EXTENDS Naturals, FiniteSets

CONSTANTS
  Workers,      \* the tensor-parallel ranks
  Faults,       \* whether configuration, calls, imports and passes may fail
  MaxRestarts   \* bound: restarts of the coordinator

StartupAssumption ==
  Workers # {} /\ IsFiniteSet(Workers) /\ Faults \in BOOLEAN /\ MaxRestarts \in Nat

Epochs == 1 .. MaxRestarts + 1

VARIABLES
  wpc,        \* per worker: config, register, hook, allocate, attach, ready,
              \* forward, raised (a callback or a pass raised), failed (in the
              \* constructor), down
  wepoch,     \* per worker: _participant_epoch, 0 for None
  hook,       \* per worker: whether its hook is installed and its binding mapped
  used,       \* per worker: whether vLLM took its KV cache from the hook
  lock,       \* per worker: whether _worker_forward_lock is held
  spc,        \* scheduler: config, register, activate, running, failed, down
  sepoch,     \* its _participant_epoch
  epoch,      \* coordinator: the participant's epoch, 0 when unknown
  attached,   \* coordinator: the bindings attached under that epoch
  active,     \* coordinator: whether the participant is routable
  restarts,   \* coordinator: restarts so far
  admitted    \* whether a request reached the scheduler

worker == <<wpc, wepoch, hook, used, lock>>
scheduler == <<spc, sepoch, admitted>>
coordinator == <<epoch, attached, active, restarts>>
vars == <<worker, scheduler, coordinator>>

TypeOK ==
  /\ wpc \in [Workers -> {"config", "register", "hook", "allocate", "attach", "ready",
                          "forward", "raised", "failed", "down"}]
  /\ wepoch \in [Workers -> {0} \cup Epochs]
  /\ {hook, used, lock} \subseteq [Workers -> BOOLEAN]
  /\ spc \in {"config", "register", "activate", "running", "failed", "down"}
  /\ sepoch \in {0} \cup Epochs /\ epoch \in {0} \cup Epochs
  /\ attached \subseteq Workers /\ active \in BOOLEAN
  /\ restarts \in 0 .. MaxRestarts /\ admitted \in BOOLEAN

Init ==
  /\ wpc = [w \in Workers |-> "config"] /\ wepoch = [w \in Workers |-> 0]
  /\ hook = [w \in Workers |-> FALSE] /\ used = [w \in Workers |-> FALSE]
  /\ lock = [w \in Workers |-> FALSE]
  /\ spc = "config" /\ sepoch = 0 /\ admitted = FALSE
  /\ epoch = 0 /\ attached = {} /\ active = FALSE /\ restarts = 0

WorkerTo(w, next) == wpc' = [wpc EXCEPT ![w] = next]
CurrentEpoch == IF epoch = 0 THEN restarts + 1 ELSE epoch

-----------------------------------------------------------------------------
(* A worker *)

\* Everything the constructor checks before it talks to Kapsl.
Configure(w) ==
  /\ wpc[w] = "config"
  /\ \/ WorkerTo(w, "register")
     \/ Faults /\ WorkerTo(w, "failed")
  /\ UNCHANGED <<wepoch, hook, used, lock, scheduler, coordinator>>

\* register, or register_with_handles for live resize; a lost answer leaves the
\* participant registered.
Register(w) ==
  /\ wpc[w] = "register"
  /\ \/ /\ epoch' = CurrentEpoch
        /\ \/ WorkerTo(w, "hook") /\ wepoch' = [wepoch EXCEPT ![w] = CurrentEpoch]
           \/ Faults /\ WorkerTo(w, "failed") /\ UNCHANGED wepoch
     \/ Faults /\ WorkerTo(w, "failed") /\ UNCHANGED <<wepoch, epoch>>
  /\ UNCHANGED <<hook, used, lock, scheduler, attached, active, restarts>>

\* Select the binding, import it, install the hook, shape the shard.  A hook
\* whose constructor raises has taken itself down.
InstallHook(w) ==
  /\ wpc[w] = "hook"
  /\ \/ hook' = [hook EXCEPT ![w] = TRUE] /\ WorkerTo(w, "allocate")
     \/ Faults /\ WorkerTo(w, "failed") /\ UNCHANGED hook
  /\ UNCHANGED <<wepoch, used, lock, scheduler, coordinator>>

\* External: vLLM allocates its KV cache, from the hook or (a drifted build) not.
VllmAllocates(w) ==
  /\ wpc[w] = "allocate"
  /\ \/ used' = [used EXCEPT ![w] = TRUE] /\ WorkerTo(w, "attach")
     \/ Faults /\ WorkerTo(w, "attach") /\ UNCHANGED used
     \/ Faults /\ WorkerTo(w, "raised") /\ UNCHANGED used
  /\ UNCHANGED <<wepoch, hook, lock, scheduler, coordinator>>

\* register_kv_caches: refused here when the pool was not consumed or a tensor
\* does not alias it, there when the epoch is not the participant's; a lost
\* answer leaves the binding attached.
\* Mutant: the pool need not have been consumed.
RegisterKvCaches_Unused(w) ==
  /\ wpc[w] = "attach"
  /\ IF wepoch[w] = epoch
     THEN attached' = attached \cup {w} /\ WorkerTo(w, "ready")
     ELSE WorkerTo(w, "raised") /\ UNCHANGED attached
  /\ UNCHANGED <<wepoch, hook, used, lock, scheduler, epoch, active, restarts>>
RegisterKvCaches(w) ==
  /\ wpc[w] = "attach"
  /\ \/ /\ used[w] /\ wepoch[w] = epoch
        /\ attached' = attached \cup {w}
        /\ WorkerTo(w, "ready") \/ (Faults /\ WorkerTo(w, "raised"))
     \/ /\ Faults \/ ~used[w] \/ wepoch[w] # epoch
        /\ WorkerTo(w, "raised") /\ UNCHANGED attached
  /\ UNCHANGED <<wepoch, hook, used, lock, scheduler, epoch, active, restarts>>

\* start_load_kv takes the lock, applies pending resizes, and keeps it for a
\* model pass only; a raise gives it back.
StartLoadKv(w) ==
  /\ wpc[w] = "ready" /\ ~lock[w]
  /\ \/ lock' = [lock EXCEPT ![w] = TRUE] /\ WorkerTo(w, "forward")
     \/ UNCHANGED <<lock, wpc>>
     \/ Faults /\ WorkerTo(w, "raised") /\ UNCHANGED lock
  /\ UNCHANGED <<wepoch, hook, used, scheduler, coordinator>>

WaitForSave(w) ==
  /\ wpc[w] = "forward"
  /\ lock' = [lock EXCEPT ![w] = FALSE] /\ WorkerTo(w, "ready")
  /\ UNCHANGED <<wepoch, hook, used, scheduler, coordinator>>

\* A model pass raises: vLLM calls wait_for_save on the way out, or it does not.
\* The engine is then stopped, and its workers are shut down.
ForwardRaises(w) ==
  /\ Faults /\ wpc[w] = "forward"
  /\ lock' \in {lock, [lock EXCEPT ![w] = FALSE]} /\ WorkerTo(w, "raised")
  /\ UNCHANGED <<wepoch, hook, used, scheduler, coordinator>>

\* shutdown of a worker: it does not detach; the runtime keeps the backing.
ShutdownWorker(w) ==
  /\ wpc[w] \in {"ready", "raised", "forward"}
  /\ lock' = [lock EXCEPT ![w] = FALSE]
  /\ hook' = [hook EXCEPT ![w] = FALSE] /\ WorkerTo(w, "down")
  /\ UNCHANGED <<wepoch, used, scheduler, coordinator>>

-----------------------------------------------------------------------------
(* The scheduler *)

ConfigureScheduler ==
  /\ spc = "config"
  /\ spc' = "register" \/ (Faults /\ spc' = "failed")
  /\ UNCHANGED <<worker, sepoch, admitted, coordinator>>

RegisterScheduler ==
  /\ spc = "register"
  /\ \/ /\ epoch' = CurrentEpoch
        /\ \/ spc' = "activate" /\ sepoch' = CurrentEpoch
           \/ Faults /\ spc' = "failed" /\ UNCHANGED sepoch
     \/ Faults /\ spc' = "failed" /\ UNCHANGED <<sepoch, epoch>>
  /\ UNCHANGED <<worker, admitted, attached, active, restarts>>

\* _start_scheduler_control activates in the constructor: refused while a worker
\* is missing or when the epoch is another, and startup fails with it.
\* Mutant: activation is left to the first request.
Activate_Deferred ==
  /\ spc = "activate"
  /\ spc' = IF sepoch = epoch /\ attached = Workers THEN "running" ELSE "failed"
  /\ UNCHANGED <<worker, sepoch, admitted, coordinator>>
Activate ==
  /\ spc = "activate"
  /\ \/ /\ sepoch = epoch /\ attached = Workers
        /\ active' = TRUE
        /\ spc' = "running" \/ (Faults /\ spc' = "failed")
     \/ /\ Faults \/ sepoch # epoch \/ attached # Workers
        /\ spc' = "failed" /\ UNCHANGED active
  /\ UNCHANGED <<worker, sepoch, admitted, epoch, attached, restarts>>

\* External: Kapsl routes a request to an active participant.
FirstRequest ==
  /\ spc = "running" /\ active /\ ~admitted
  /\ admitted' = TRUE
  /\ UNCHANGED <<worker, spc, sepoch, coordinator>>

ShutdownScheduler ==
  /\ spc = "running"
  /\ spc' = "down"
  /\ UNCHANGED <<worker, sepoch, admitted, coordinator>>

\* External: the coordinator restarts and knows nobody.
CoordinatorRestarts ==
  /\ restarts < MaxRestarts
  /\ restarts' = restarts + 1
  /\ epoch' = 0 /\ attached' = {} /\ active' = FALSE
  /\ UNCHANGED <<worker, scheduler>>

Starts(w) ==
  \/ Configure(w)
  \/ Register(w)
  \/ InstallHook(w)
  \/ VllmAllocates(w)
  \/ RegisterKvCaches(w)

SchedulerStarts ==
  \/ ConfigureScheduler
  \/ RegisterScheduler
  \/ Activate

Next ==
  \/ \E w \in Workers :
       \/ Starts(w)
       \/ StartLoadKv(w)
       \/ WaitForSave(w)
       \/ ForwardRaises(w)
       \/ ShutdownWorker(w)
  \/ SchedulerStarts
  \/ FirstRequest
  \/ ShutdownScheduler
  \/ CoordinatorRestarts

\* Constructors run to their end, and Kapsl sends work to what is routable.
Spec ==
  /\ Init /\ [][Next]_vars
  /\ \A w \in Workers : WF_vars(Starts(w))
  /\ WF_vars(SchedulerStarts) /\ WF_vars(FirstRequest)

-----------------------------------------------------------------------------
(* Properties *)

\* "if any rank did not attach, no request lease is issued": while the
\* participant is routable, every worker has attached under its epoch, on
\* evidence of a cache taken from the pool, whatever order vLLM constructs the
\* connectors in and whenever the coordinator restarts.
RoutableIsComplete ==
  active => \A w \in Workers : w \in attached /\ used[w] /\ wepoch[w] = epoch

\* A scheduler that runs shares its epoch with every worker: a coordinator
\* restart in the middle of startup leaves no mixture behind.
OneEpoch == spc = "running" => \A w \in Workers : wepoch[w] = sepoch

\* A worker waiting for its next step holds no forward lock (start_load_kv would
\* wait for itself), and a worker that is down holds neither lock nor mapping,
\* although a pass may have raised in between.
LockGivenBack ==
  \A w \in Workers :
    /\ wpc[w] = "ready" => ~lock[w]
    /\ wpc[w] \in {"down", "failed"} => ~lock[w] /\ ~hook[w]

\* "a construction-order drift fails startup instead of deadlocking readiness on
\* the first request": a scheduler that starts fails, serves a request, is shut
\* down, or loses its participant to a coordinator restart.
StartupDecides ==
  <>(spc \in {"failed", "down"} \/ admitted \/ restarts = MaxRestarts)

\* Whatever restarts, raises or shuts down, the endpoint is routable only as a whole:
\* every rank attached, in one epoch, with no forward lock left behind.
ServesOnlyWhole ==
  /\ TypeOK
  /\ RoutableIsComplete
  /\ OneEpoch
  /\ LockGivenBack
=============================================================================
