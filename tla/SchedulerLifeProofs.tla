------------------------- MODULE SchedulerLifeProofs -------------------------
(***************************************************************************)
(* Proofs about the start of a shared-pool participant as MCSchedulerLife  *)
(* checks it, for every number of workers and of coordinator restarts.     *)
(*                                                                         *)
(* StartupInv: what a worker has at each step of its constructor, so that  *)
(*   an attached worker and a running scheduler's workers do not register  *)
(*   again: the epoch they registered under stays theirs.                  *)
(***************************************************************************)
EXTENDS MCSchedulerLife, TLAPS

LEMMA StartupConstants == MaxRestarts \in Nat /\ Workers # {}
BY PartsAssumption DEF PartsAssumption, Startup!StartupAssumption

Epochs == 1 .. MaxRestarts + 1

\* A worker past register_kv_caches.
Attaching == {"ready", "forward", "raised", "down"}

WorkerOK(w) ==
  /\ startup[w] \in {"hook", "allocate", "attach"} => wepoch[w] # 0
  /\ lock[w] = TRUE => startup[w] \in {"forward", "raised"}
  /\ hook[w] = TRUE => startup[w] \in {"allocate", "attach", "ready", "forward", "raised"}
  /\ w \in attached =>
       startup[w] \in Attaching /\ taken[w] = TRUE /\ wepoch[w] = epoch /\ epoch # 0
  /\ scheduler = "running" => startup[w] \in Attaching /\ wepoch[w] = sepoch

StartupTypes ==
  /\ startup \in [Workers -> {"config", "register", "hook", "allocate", "attach", "ready",
                              "forward", "raised", "failed", "down"}]
  /\ wepoch \in [Workers -> {0} \cup Epochs]
  /\ hook \in [Workers -> BOOLEAN] /\ taken \in [Workers -> BOOLEAN]
  /\ lock \in [Workers -> BOOLEAN]
  /\ scheduler \in {"config", "register", "activate", "running", "failed", "down"}
  /\ sepoch \in {0} \cup Epochs /\ epoch \in {0} \cup Epochs
  /\ attached \subseteq Workers /\ active \in BOOLEAN
  /\ restarts \in 0 .. MaxRestarts /\ admitted \in BOOLEAN

StartupInv ==
  /\ StartupTypes
  /\ \A w \in Workers : WorkerOK(w)
  /\ active = TRUE => attached = Workers

LEMMA StartupInit == Startup!Init => StartupInv
<1> SUFFICES ASSUME Startup!Init PROVE StartupInv
  OBVIOUS
<1>1. StartupTypes
  <2>1. 0 \in 0 .. MaxRestarts
    BY StartupConstants
  <2>2. restarts = 0 /\ startup = [w \in Workers |-> "config"] /\ wepoch = [w \in Workers |-> 0]
        /\ hook = [w \in Workers |-> FALSE] /\ taken = [w \in Workers |-> FALSE]
        /\ lock = [w \in Workers |-> FALSE]
    BY DEF Startup!Init
  <2>3. scheduler = "config" /\ sepoch = 0 /\ admitted = FALSE /\ epoch = 0 /\ attached = {}
        /\ active = FALSE
    BY DEF Startup!Init
  <2> QED
    BY <2>1, <2>2, <2>3 DEF StartupTypes
<1>2. \A w \in Workers : WorkerOK(w)
  BY DEF Startup!Init, WorkerOK
<1> QED
  BY <1>1, <1>2 DEF StartupInv, Startup!Init

LEMMA NextEpoch ==
  ASSUME StartupTypes
  PROVE  Startup!CurrentEpoch \in Epochs /\ (epoch # 0 => Startup!CurrentEpoch = epoch)
BY StartupConstants DEF StartupTypes, Startup!CurrentEpoch, Epochs

-----------------------------------------------------------------------------
(* A worker *)

\* Only the registering worker's own epoch is written; with an epoch of its own the
\* participant keeps it, and without one nobody is attached.
LEMMA RegisterStep ==
  ASSUME StartupInv, NEW v \in Workers, Startup!Register(v) PROVE StartupInv'
<1>1. StartupTypes /\ \A w \in Workers : WorkerOK(w)
  BY DEF StartupInv
<1>2. Startup!CurrentEpoch \in Epochs /\ (epoch # 0 => Startup!CurrentEpoch = epoch)
  BY <1>1, NextEpoch
<1>3. PICK to \in {"hook", "failed"}, e \in {wepoch[v], Startup!CurrentEpoch} :
        /\ startup' = [startup EXCEPT ![v] = to] /\ wepoch' = [wepoch EXCEPT ![v] = e]
        /\ epoch' = epoch \/ epoch' = Startup!CurrentEpoch
        /\ to = "hook" => e = Startup!CurrentEpoch
  BY <1>1 DEF Startup!Register, Startup!WorkerTo, StartupTypes
<1>4. UNCHANGED <<hook, taken, lock, scheduler, sepoch, admitted, attached, active, restarts>>
      /\ startup[v] = "register"
  BY DEF Startup!Register, Startup!scheduler
<1>5. StartupTypes'
  BY <1>1, <1>2, <1>3, <1>4 DEF StartupTypes
<1>6. ASSUME NEW w \in Workers PROVE WorkerOK(w)'
  <2>1. WorkerOK(w)
    BY <1>1
  <2>2. CASE w = v
    BY <1>1, <1>2, <1>3, <1>4, <2>1, <2>2 DEF WorkerOK, StartupTypes, Attaching, Epochs
  <2>3. CASE w # v
    <3>1. startup'[w] = startup[w] /\ wepoch'[w] = wepoch[w]
      BY <1>1, <1>3, <2>3 DEF StartupTypes
    <3>2. epoch # 0 => epoch' = epoch
      BY <1>2, <1>3
    <3> QED
      BY <1>4, <2>1, <3>1, <3>2 DEF WorkerOK
  <2> QED
    BY <2>2, <2>3
<1> QED
  BY <1>4, <1>5, <1>6 DEF StartupInv

\* The steps of a worker that leave the coordinator and the scheduler alone.
LEMMA WorkerStep ==
  ASSUME StartupInv, NEW v \in Workers,
         \/ Startup!Configure(v) \/ Startup!InstallHook(v) \/ Startup!VllmAllocates(v)
         \/ Startup!StartLoadKv(v) \/ Startup!WaitForSave(v) \/ Startup!ForwardRaises(v)
         \/ Startup!ShutdownWorker(v)
  PROVE  StartupInv'
<1>1. StartupTypes /\ \A w \in Workers : WorkerOK(w)
  BY DEF StartupInv
<1>2. UNCHANGED <<wepoch, scheduler, sepoch, admitted, epoch, attached, active, restarts>>
  BY DEF Startup!Configure, Startup!InstallHook, Startup!VllmAllocates, Startup!StartLoadKv,
         Startup!WaitForSave, Startup!ForwardRaises, Startup!ShutdownWorker,
         Startup!scheduler, Startup!coordinator
<1>3. PICK to \in {"register", "failed", "allocate", "attach", "raised", "forward", "ready", "down"},
           h \in BOOLEAN, u \in BOOLEAN, k \in BOOLEAN :
        /\ startup' = [startup EXCEPT ![v] = to] /\ hook' = [hook EXCEPT ![v] = h]
        /\ taken' = [taken EXCEPT ![v] = u] /\ lock' = [lock EXCEPT ![v] = k]
        /\ to = "attach" => startup[v] = "allocate"
        /\ to = "allocate" => startup[v] = "hook"
        /\ to \in {"register", "failed", "allocate", "attach"} => startup[v] \notin Attaching
        /\ taken[v] = TRUE => u = TRUE
        /\ k = TRUE => to \in {"forward", "raised"} \/ k = lock[v]
        /\ h = TRUE => h = hook[v] \/ to = "allocate"
        /\ to \in {"ready", "down"} => k = FALSE
        /\ to = "raised" => startup[v] # "hook"
        /\ to \in {"failed", "register"} => startup[v] \in {"config", "hook"} /\ h = hook[v] /\ k = lock[v]
        /\ to \in {"attach", "allocate"} => k = lock[v]
        /\ to = "down" => h = FALSE
  <2>1. /\ startup = [startup EXCEPT ![v] = startup[v]] /\ hook = [hook EXCEPT ![v] = hook[v]]
        /\ taken = [taken EXCEPT ![v] = taken[v]] /\ lock = [lock EXCEPT ![v] = lock[v]]
        /\ hook[v] \in BOOLEAN /\ taken[v] \in BOOLEAN /\ lock[v] \in BOOLEAN
    BY <1>1 DEF StartupTypes
  <2>2. CASE Startup!Configure(v)
    BY <2>1, <2>2 DEF Startup!Configure, Startup!WorkerTo, Attaching
  <2>3. CASE Startup!InstallHook(v)
    BY <2>1, <2>3 DEF Startup!InstallHook, Startup!WorkerTo, Attaching
  <2>4. CASE Startup!VllmAllocates(v)
    BY <2>1, <2>4 DEF Startup!VllmAllocates, Startup!WorkerTo, Attaching
  <2>5. CASE Startup!StartLoadKv(v)
    BY <2>1, <2>5 DEF Startup!StartLoadKv, Startup!WorkerTo, Attaching
  <2>6. CASE Startup!WaitForSave(v)
    BY <2>1, <2>6 DEF Startup!WaitForSave, Startup!WorkerTo, Attaching
  <2>7. CASE Startup!ForwardRaises(v)
    BY <2>1, <2>7 DEF Startup!ForwardRaises, Startup!WorkerTo, Attaching
  <2>8. CASE Startup!ShutdownWorker(v)
    BY <2>1, <2>8 DEF Startup!ShutdownWorker, Startup!WorkerTo, Attaching
  <2> QED
    BY <2>2, <2>3, <2>4, <2>5, <2>6, <2>7, <2>8
<1>4. StartupTypes'
  BY <1>1, <1>2, <1>3 DEF StartupTypes
<1>5. ASSUME NEW w \in Workers PROVE WorkerOK(w)'
  <2>1. WorkerOK(w)
    BY <1>1
  <2>2. CASE w = v
    <3>1. startup'[w] = to /\ hook'[w] = h /\ taken'[w] = u /\ lock'[w] = k
      BY <1>1, <1>3, <2>2 DEF StartupTypes
    <3> QED
      BY <1>2, <1>3, <2>1, <2>2, <3>1 DEF WorkerOK, Attaching
  <2>3. CASE w # v
    <3>1. startup'[w] = startup[w] /\ hook'[w] = hook[w] /\ taken'[w] = taken[w] /\ lock'[w] = lock[w]
      BY <1>1, <1>3, <2>3 DEF StartupTypes
    <3> QED
      BY <1>2, <2>1, <3>1 DEF WorkerOK
  <2> QED
    BY <2>2, <2>3
<1> QED
  BY <1>2, <1>4, <1>5 DEF StartupInv

LEMMA AttachStep ==
  ASSUME StartupInv, NEW v \in Workers, Startup!RegisterKvCaches(v) PROVE StartupInv'
<1>1. StartupTypes /\ \A w \in Workers : WorkerOK(w)
  BY DEF StartupInv
<1>2. UNCHANGED <<wepoch, hook, taken, lock, scheduler, sepoch, admitted, epoch, active, restarts>>
      /\ startup[v] = "attach"
  BY DEF Startup!RegisterKvCaches, Startup!scheduler
<1>3. PICK to \in {"ready", "raised"}, A \in {attached, attached \cup {v}} :
        /\ startup' = [startup EXCEPT ![v] = to] /\ attached' = A
        /\ A # attached => taken[v] = TRUE /\ wepoch[v] = epoch
  BY <1>1 DEF Startup!RegisterKvCaches, Startup!WorkerTo, StartupTypes
<1>4. StartupTypes'
  BY <1>1, <1>2, <1>3 DEF StartupTypes
<1>5. ASSUME NEW w \in Workers PROVE WorkerOK(w)'
  <2>1. WorkerOK(w)
    BY <1>1
  <2>2. CASE w = v
    BY <1>1, <1>2, <1>3, <2>1, <2>2 DEF WorkerOK, StartupTypes, Attaching
  <2>3. CASE w # v
    <3>1. startup'[w] = startup[w] /\ (w \in attached' => w \in attached)
      BY <1>1, <1>3, <2>3 DEF StartupTypes
    <3> QED
      BY <1>2, <2>1, <3>1 DEF WorkerOK
  <2> QED
    BY <2>2, <2>3
<1>6. attached' \in SUBSET Workers /\ attached \subseteq attached'
  BY <1>3, <1>4 DEF StartupTypes
<1> QED
  BY <1>2, <1>4, <1>5, <1>6 DEF StartupInv

-----------------------------------------------------------------------------
(* The scheduler and the coordinator *)

LEMMA RegisterSchedulerStep == StartupInv /\ Startup!RegisterScheduler => StartupInv'
<1> SUFFICES ASSUME StartupInv, Startup!RegisterScheduler PROVE StartupInv'
  OBVIOUS
<1>1. StartupTypes /\ \A w \in Workers : WorkerOK(w)
  BY DEF StartupInv
<1>2. Startup!CurrentEpoch \in Epochs /\ (epoch # 0 => Startup!CurrentEpoch = epoch)
  BY <1>1, NextEpoch
<1>3. /\ UNCHANGED <<startup, wepoch, hook, taken, lock, admitted, attached, active, restarts>>
      /\ scheduler' \in {"activate", "failed"} /\ sepoch' \in {sepoch, Startup!CurrentEpoch}
      /\ epoch' \in {epoch, Startup!CurrentEpoch}
  BY DEF Startup!RegisterScheduler, Startup!worker
<1>4. StartupTypes'
  BY <1>1, <1>2, <1>3 DEF StartupTypes
<1>5. \A w \in Workers : WorkerOK(w)'
  BY <1>1, <1>2, <1>3 DEF WorkerOK
<1> QED
  BY <1>3, <1>4, <1>5 DEF StartupInv

LEMMA ActivateStep == StartupInv /\ Startup!Activate => StartupInv'
<1> SUFFICES ASSUME StartupInv, Startup!Activate PROVE StartupInv'
  OBVIOUS
<1>1. StartupTypes /\ \A w \in Workers : WorkerOK(w)
  BY DEF StartupInv
<1>2. /\ UNCHANGED <<startup, wepoch, hook, taken, lock, sepoch, admitted, epoch, attached, restarts>>
      /\ scheduler' \in {"running", "failed"} /\ active' \in {active, TRUE}
      /\ scheduler' = "running" \/ active' # active => sepoch = epoch /\ attached = Workers
  BY DEF Startup!Activate, Startup!worker
<1>3. StartupTypes'
  BY <1>1, <1>2 DEF StartupTypes
<1>4. \A w \in Workers : WorkerOK(w)'
  BY <1>1, <1>2 DEF WorkerOK
<1> QED
  BY <1>2, <1>3, <1>4 DEF StartupInv

LEMMA OtherSteps ==
  ASSUME StartupInv,
         \/ Startup!ConfigureScheduler \/ Startup!FirstRequest \/ Startup!ShutdownScheduler
         \/ Startup!CoordinatorRestarts \/ UNCHANGED startupVars
  PROVE  StartupInv'
<1>1. StartupTypes /\ \A w \in Workers : WorkerOK(w)
  BY DEF StartupInv
<1>2. UNCHANGED <<startup, wepoch, hook, taken, lock, sepoch>>
  BY DEF Startup!ConfigureScheduler, Startup!FirstRequest, Startup!ShutdownScheduler,
         Startup!CoordinatorRestarts, startupVars, Startup!worker, Startup!scheduler
<1>3. /\ scheduler' \in {scheduler, "register", "failed", "down"} /\ admitted' \in {admitted, TRUE}
      /\ restarts' \in {restarts, restarts + 1} /\ (restarts' # restarts => restarts < MaxRestarts)
      /\ \/ UNCHANGED <<epoch, attached, active>>
         \/ epoch' = 0 /\ attached' = {} /\ active' = FALSE
  BY DEF Startup!ConfigureScheduler, Startup!FirstRequest, Startup!ShutdownScheduler,
         Startup!CoordinatorRestarts, startupVars, Startup!worker, Startup!scheduler,
         Startup!coordinator
<1>4. restarts' \in 0 .. MaxRestarts
  BY <1>1, <1>3, StartupConstants DEF StartupTypes
<1>5. StartupTypes'
  BY <1>1, <1>2, <1>3, <1>4 DEF StartupTypes
<1>6. \A w \in Workers : WorkerOK(w)'
  BY <1>1, <1>2, <1>3 DEF WorkerOK
<1> QED
  BY <1>3, <1>5, <1>6 DEF StartupInv

LEMMA StartupNext == StartupInv /\ [Startup!Next]_startupVars => StartupInv'
<1>1. ASSUME StartupInv, NEW w \in Workers,
             \/ Startup!Starts(w) \/ Startup!StartLoadKv(w) \/ Startup!WaitForSave(w)
             \/ Startup!ForwardRaises(w) \/ Startup!ShutdownWorker(w)
      PROVE  StartupInv'
  BY <1>1, RegisterStep, WorkerStep, AttachStep DEF Startup!Starts
<1>2. ASSUME StartupInv, Startup!SchedulerStarts PROVE StartupInv'
  BY <1>2, RegisterSchedulerStep, ActivateStep, OtherSteps DEF Startup!SchedulerStarts
<1> QED
  BY <1>1, <1>2, OtherSteps DEF Startup!Next

\* In whatever order vLLM constructs the connectors, whichever call, import or pass
\* fails and whenever the coordinator restarts: the endpoint is routable only with
\* every worker attached under its epoch on evidence of a consumed pool, a running
\* scheduler shares one epoch with all its workers, and no worker that waits or is down
\* keeps the forward lock (register_kv_caches, _start_scheduler_control, start_load_kv).
THEOREM ServesOnlyWholeHolds == Spec => []ServesOnlyWhole
<1>1. Init => StartupInv
  BY StartupInit DEF Init
<1>2. StartupInv /\ [Next]_allVars => StartupInv'
  BY StartupNext DEF Next, allVars
<1>3. StartupInv => ServesOnlyWhole
  <2> SUFFICES ASSUME StartupInv PROVE Startup!ServesOnlyWhole
    BY DEF ServesOnlyWhole
  <2>1. StartupTypes /\ \A w \in Workers : WorkerOK(w)
    BY DEF StartupInv
  <2>2. Startup!TypeOK
    BY <2>1 DEF StartupTypes, Startup!TypeOK, Epochs, Startup!Epochs
  <2>3. Startup!RoutableIsComplete
    BY <2>1 DEF StartupInv, StartupTypes, WorkerOK, Startup!RoutableIsComplete
  <2>4. Startup!OneEpoch
    BY <2>1 DEF WorkerOK, Startup!OneEpoch
  <2>5. Startup!LockGivenBack
    BY <2>1 DEF StartupTypes, WorkerOK, Startup!LockGivenBack
  <2> QED
    BY <2>2, <2>3, <2>4, <2>5 DEF Startup!ServesOnlyWhole
<1> QED
  BY <1>1, <1>2, <1>3, PTL DEF Spec
=============================================================================
