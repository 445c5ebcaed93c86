---------------------------- MODULE ElasticResize ----------------------------
(***************************************************************************)
(* Live resize of the elastic KV pool by the vLLM connector                *)
(* (integrations/vllm/src/kapsl_vllm_connector).  A KV block is a number;  *)
(* the pool is the prefix 0..n-1, and block 0 is vLLM's null block.        *)
(*                                                                         *)
(* Three kinds of process: the scheduler's engine loop, which applies      *)
(* scheduler operations in build_connector_meta; the heartbeat thread of   *)
(* the same connector, which polls for them; and one worker per shard,     *)
(* which polls for, and applies, worker operations in start_load_kv before *)
(* each forward pass.  They share nothing but the control socket.          *)
(*                                                                         *)
(* External, modelled from how the connector uses them: Kapsl's resize     *)
(* coordinator at the other end of the socket, and the vLLM engine around  *)
(* the connector's callbacks.  An exception that leaves a callback ends    *)
(* the engine step; the next step starts over.                             *)
(***************************************************************************)
EXTENDS Naturals, Sequences, FiniteSets

CONSTANTS
  Workers,   \* tensor-parallel ranks
  Leader,    \* the rank whose reply ends an engine step
  Initial,   \* blocks mapped at registration
  Sizes,     \* pool sizes the coordinator may ask for
  MaxGen,    \* bound on resize_generation
  MaxQueue,  \* bound on the engine steps waiting for a worker
  MaxLate,   \* bound on the acknowledgements under way without a sender
  Faults     \* whether control calls and CUDA calls may fail

ASSUME WorkersFinite == IsFiniteSet(Workers)
ASSUME LeaderIsWorker == Leader \in Workers
ASSUME SizesHoldNullBlock == Sizes \subseteq Nat \ {0, 1} /\ Initial \in Sizes
ASSUME BoundsPositive == MaxGen \in Nat /\ MaxQueue \in Nat \ {0} /\ MaxLate \in Nat
ASSUME FaultsBoolean == Faults \in BOOLEAN
ASSUME SchedulerIsNoWorker == "scheduler" \notin Workers

VARIABLES
  gen,        \* coordinator: generation of the last resize
  stage,      \* coordinator: stage of that resize, "stable" when committed
  size,       \* coordinator: committed blocks
  goal,       \* coordinator: target of the resize
  acks,       \* coordinator: workers that acknowledged the stage
  phys,       \* coordinator: blocks with physical memory
  late,       \* acknowledgements the sender gave up on, still under way
  cur,        \* VllmElasticBlockPool.current_blocks
  used,       \* blocks with a reference count above zero
  applied,    \* scheduler's _resize_applied_generation
  pending,    \* _pending_scheduler_operations
  awake,      \* _resize_pending
  failed,     \* _control_failure is set and the heartbeat thread is gone
  reply,      \* poll reply on its way to the heartbeat thread
  spc,        \* where the engine loop stands
  ops,        \* operations the engine step took from `pending`
  queue,      \* engine steps a worker has not started, as sets of blocks
  wpc,        \* where each worker stands in start_load_kv .. wait_for_save
  wop,        \* operation the worker is working on
  batch,      \* blocks of the worker's engine step
  mapped,     \* mapped_bytes of the worker's CudaVmmBuffer, in blocks
  torn,       \* workers whose segments no longer are those of `mapped`
  last,       \* generation of the worker's _last_worker_resize
  wapplied    \* worker's _resize_applied_generation

coVars == <<gen, stage, size, goal, acks, phys, late>>
poolVars == <<cur, used>>
pollVars == <<pending, awake, failed, reply>>
engineVars == <<applied, spc, ops>>
workerVars == <<queue, wpc, wop, batch, mapped, torn, last, wapplied>>
vars == <<coVars, poolVars, pollVars, engineVars, workerVars>>

Stages == {"map_workers", "activate_scheduler", "retire_scheduler", "unmap_workers"}
SchedulerStages == {"activate_scheduler", "retire_scheduler"}
WorkerStages == {"map_workers", "unmap_workers"}

Actors == Workers \cup {"scheduler"}

NoOp == [gen |-> 0, stage |-> "stable", target |-> 0]
CurrentOp == [gen |-> gen, stage |-> stage, target |-> goal]
NoReply == [here |-> FALSE, op |-> NoOp, pending |-> FALSE]

Tail0(from, to) == from..(to - 1)     \* blocks[from : to]

Init ==
  /\ gen = 0 /\ stage = "stable" /\ size = Initial /\ goal = Initial
  /\ acks = {} /\ phys = Initial /\ late = {}
  /\ cur = Initial /\ used = {}
  /\ applied = 0 /\ pending = <<>> /\ awake = FALSE /\ failed = FALSE
  /\ reply = NoReply
  /\ spc = "top" /\ ops = <<>>
  /\ queue = [w \in Workers |-> <<>>]
  /\ wpc = [w \in Workers |-> "idle"]
  /\ wop = [w \in Workers |-> NoOp]
  /\ batch = [w \in Workers |-> {}]
  /\ mapped = [w \in Workers |-> Initial]
  /\ torn = {}
  /\ last = [w \in Workers |-> 0]
  /\ wapplied = [w \in Workers |-> 0]

-----------------------------------------------------------------------------
(* The coordinator (external): growth is map workers, activate scheduler,  *)
(* commit; shrink is retire scheduler, unmap workers, release.             *)

StartResize ==
  /\ stage = "stable"
  /\ gen < MaxGen
  /\ \E n \in Sizes \ {size} :
       /\ goal' = n
       /\ stage' = IF n > size THEN "map_workers" ELSE "retire_scheduler"
       /\ phys' = IF n > size THEN n ELSE phys
  /\ gen' = gen + 1
  /\ acks' = {}
  /\ UNCHANGED <<size, late, poolVars, pollVars, engineVars, workerVars>>

\* The acknowledgement of generation g by actor a arrives: it counts only for
\* the generation and the stage that are waiting for it.
Expected(a, g) ==
  g = gen /\ IF a = "scheduler" THEN stage \in SchedulerStages
                                ELSE stage \in WorkerStages /\ a \notin acks

Receive(a, g) ==
  IF ~Expected(a, g) THEN UNCHANGED <<stage, size, acks, phys>>
  ELSE IF stage = "retire_scheduler"
    THEN stage' = "unmap_workers" /\ UNCHANGED <<size, acks, phys>>
  ELSE IF stage = "activate_scheduler"
    THEN stage' = "stable" /\ size' = goal /\ UNCHANGED <<acks, phys>>
  ELSE IF acks \cup {a} # Workers
    THEN acks' = acks \cup {a} /\ UNCHANGED <<stage, size, phys>>
  ELSE IF stage = "map_workers"
    THEN /\ stage' = "activate_scheduler"
         /\ acks' = acks \cup {a}
         /\ UNCHANGED <<size, phys>>
    ELSE /\ stage' = "stable"
         /\ acks' = acks \cup {a}
         /\ size' = goal
         /\ phys' = goal

\* An acknowledgement whose sender saw an error or a timeout arrives after all.
LateAck ==
  \E m \in late :
    /\ Receive(m.actor, m.gen)
    /\ late' = late \ {m}
    /\ UNCHANGED <<gen, goal, poolVars, pollVars, engineVars, workerVars>>

\* ack_resize returns.  An acknowledgement that is not expected may be accepted
\* as a repetition.
AckReturns(a, g) ==
  /\ Receive(a, g)
  /\ UNCHANGED <<gen, goal, late>>

\* ack_resize raises: it was rejected, or the answer did not come in time.  What
\* was sent may be lost, as one that stays in `late`, or arrive later.
AckRaises(a, g) ==
  /\ Faults \/ ~Expected(a, g)
  /\ late' = IF Faults /\ Cardinality(late) < MaxLate
               THEN late \cup {[actor |-> a, gen |-> g]} ELSE late
  /\ UNCHANGED <<gen, stage, size, goal, acks, phys>>

-----------------------------------------------------------------------------
(* Heartbeat thread of the scheduler's connector                           *)

\* _poll_scheduler_resizes: the coordinator computes its answer
PollSend ==
  /\ ~failed
  /\ ~reply.here
  /\ reply' = [here |-> TRUE,
               op |-> IF stage \in SchedulerStages THEN CurrentOp ELSE NoOp,
               pending |-> stage # "stable"]
  /\ UNCHANGED <<coVars, poolVars, pending, awake, failed, engineVars, workerVars>>

\* Mutant: operations are merged without asking what is known or applied, and
\* ahead of those that wait already.
PollMerge_Front ==
  /\ reply.here
  /\ pending' = (IF reply.op # NoOp THEN <<reply.op>> ELSE <<>>) \o pending
  /\ awake' = reply.pending
  /\ reply' = NoReply
  /\ UNCHANGED <<coVars, poolVars, failed, engineVars, workerVars>>

\* Mutant: whatever the answer holds is appended.
PollMerge_Unfiltered ==
  /\ reply.here
  /\ pending' = Append(pending, reply.op)
  /\ awake' = reply.pending
  /\ reply' = NoReply
  /\ UNCHANGED <<coVars, poolVars, failed, engineVars, workerVars>>

\* _poll_scheduler_resizes: the answer is merged under _resize_lock
PollMerge ==
  /\ reply.here
  /\ LET known == {pending[k].gen : k \in DOMAIN pending}
         news == IF reply.op.gen > applied /\ reply.op.gen \notin known
                   THEN <<reply.op>> ELSE <<>>
     IN pending' = pending \o news
  /\ awake' = reply.pending
  /\ reply' = NoReply
  /\ UNCHANGED <<coVars, poolVars, failed, engineVars, workerVars>>

\* The poll fails: the scheduler fails closed and the thread ends.
PollFails ==
  /\ Faults
  /\ reply.here
  /\ failed' = TRUE
  /\ reply' = NoReply
  /\ UNCHANGED <<coVars, poolVars, pending, awake, engineVars, workerVars>>

-----------------------------------------------------------------------------
(* Engine loop.  vLLM's core steps while it has requests or the connector   *)
(* asks for it, and otherwise sleeps until a request comes (external).      *)

\* Mutant: the loop is kept alive only by operations that are already known.
HasPendingPushWork_NoCapacity == awake \/ pending # <<>>

HasPendingPushWork == awake \/ pending # <<>> \/ cur > Initial

Sleep ==
  /\ spc = "top"
  /\ used = {}
  /\ ~HasPendingPushWork
  /\ spc' = "asleep"
  /\ UNCHANGED <<coVars, poolVars, pollVars, applied, ops, workerVars>>

\* A step allocates blocks `new` and ends in build_connector_meta, which takes
\* all pending operations under _resize_lock.
StartStep(new) ==
  /\ ~failed
  /\ used' = used \cup new
  /\ ops' = pending
  /\ pending' = <<>>
  /\ spc' = "meta"
  /\ UNCHANGED <<coVars, cur, awake, failed, reply, applied, workerVars>>

\* Requests arrive or go on.
StepWithRequests ==
  /\ spc \in {"top", "asleep"}
  /\ \E new \in SUBSET (Tail0(1, cur) \ used) : used \cup new # {} /\ StartStep(new)

\* The step without requests that drains the connector's work
ZeroTokenStep ==
  /\ spc = "top"
  /\ used = {}
  /\ HasPendingPushWork
  /\ StartStep({})

\* The step ends early: what it took from `pending` is gone and will be
\* polled again.
StepRaises == spc' = "top" /\ ops' = <<>> /\ UNCHANGED applied

\* Mutant: blocks are retired whether or not they are referenced.
ApplyOp_RetiresLive ==
  /\ spc = "meta"
  /\ ops # <<>>
  /\ cur' = Head(ops).target
  /\ spc' = "ack"
  /\ UNCHANGED <<coVars, used, pollVars, applied, ops, workerVars>>

\* Mutant: the refusal to retire live blocks is swallowed and acknowledged.
ApplyOp_SwallowsRefusal ==
  /\ spc = "meta"
  /\ ops # <<>>
  /\ LET target == Head(ops).target
     IN cur' = IF Tail0(target, cur) \cap used = {} THEN target ELSE cur
  /\ spc' = "ack"
  /\ UNCHANGED <<coVars, used, pollVars, applied, ops, workerVars>>

\* VllmElasticBlockPool.apply on the next operation; nothing to do when the
\* target is in force already.
ApplyOp ==
  /\ spc = "meta"
  /\ ops # <<>>
  /\ LET target == Head(ops).target
     IN /\ Tail0(target, cur) \cap used = {}
        /\ cur' = target
  /\ spc' = "ack"
  /\ UNCHANGED <<coVars, used, pollVars, applied, ops, workerVars>>

\* A live tail block, or (rolled back) a failure in vLLM's free queue.
ApplyOpRaises ==
  /\ spc = "meta"
  /\ ops # <<>>
  /\ Faults \/ Tail0(Head(ops).target, cur) \cap used # {}
  /\ StepRaises
  /\ UNCHANGED <<coVars, poolVars, pollVars, workerVars>>

AckOp ==
  /\ spc = "ack"
  /\ AckReturns("scheduler", Head(ops).gen)
  /\ applied' = IF Head(ops).gen > applied THEN Head(ops).gen ELSE applied
  /\ ops' = Tail(ops)
  /\ spc' = "meta"
  /\ UNCHANGED <<poolVars, pollVars, workerVars>>

AckOpRaises ==
  /\ spc = "ack"
  /\ AckRaises("scheduler", Head(ops).gen)
  /\ StepRaises
  /\ UNCHANGED <<poolVars, pollVars, workerVars>>

\* The step goes to every worker.
Dispatch ==
  /\ spc = "meta"
  /\ ops = <<>>
  /\ \A w \in Workers : Len(queue[w]) < MaxQueue
  /\ queue' = [w \in Workers |-> Append(queue[w], used)]
  /\ spc' = "wait"
  /\ UNCHANGED <<coVars, poolVars, pollVars, applied, ops, wpc, wop, batch,
                 mapped, torn, last, wapplied>>

\* The leader answered; some requests finish and free their blocks.
StepDone ==
  /\ spc = "wait"
  /\ queue[Leader] = <<>> /\ wpc[Leader] = "idle"
  /\ used' \in SUBSET used
  /\ spc' = "top"
  /\ UNCHANGED <<coVars, cur, pollVars, applied, ops, workerVars>>

\* The leader's exception ends the step.  If the engine survives it, it starts
\* over only when no rank is left in the failed step.
StepFails ==
  /\ spc = "wait"
  /\ wpc[Leader] = "raised"
  /\ \A w \in Workers \ {Leader} : queue[w] = <<>> /\ wpc[w] = "idle"
  /\ spc' = "top"
  /\ wpc' = [wpc EXCEPT ![Leader] = "idle"]
  /\ UNCHANGED <<coVars, poolVars, pollVars, applied, ops, queue, wop, batch,
                 mapped, torn, last, wapplied>>

-----------------------------------------------------------------------------
(* Workers                                                                 *)

WorkerGoto(w, to) == wpc' = [wpc EXCEPT ![w] = to]

\* start_load_kv ends: a step with requests goes on to the forward pass with
\* the forward lock held, a zero-token step is over.
LoadEnds(w) == WorkerGoto(w, IF batch'[w] = {} THEN "idle" ELSE "forward")

\* start_load_kv raises: the lock is released and there is no forward pass.
\* The engine hears of it only from the leader.
LoadRaises(w) ==
  /\ WorkerGoto(w, IF w = Leader THEN "raised" ELSE "idle")
  /\ batch' = [batch EXCEPT ![w] = {}]

\* What the coordinator may answer to worker w: an operation the worker has not
\* confirmed may be repeated even if its acknowledgement has arrived.
WorkerPoll(w) ==
  (IF stage \in WorkerStages /\ gen > wapplied[w] THEN {CurrentOp} ELSE {})
    \cup (IF stage \in WorkerStages /\ w \notin acks THEN {} ELSE {NoOp})

\* start_load_kv: take the forward lock and poll
StartLoad(w) ==
  /\ wpc[w] = "idle"
  /\ queue[w] # <<>>
  /\ queue' = [queue EXCEPT ![w] = Tail(@)]
  /\ batch' = [batch EXCEPT ![w] = Head(queue[w])]
  /\ \E op \in WorkerPoll(w) :
       /\ wop' = [wop EXCEPT ![w] = op]
       /\ IF op = NoOp THEN LoadEnds(w) ELSE WorkerGoto(w, "apply")
  /\ UNCHANGED <<coVars, poolVars, pollVars, engineVars, mapped, torn, last, wapplied>>

StartLoadRaises(w) ==
  /\ Faults
  /\ wpc[w] = "idle"
  /\ queue[w] # <<>>
  /\ queue' = [queue EXCEPT ![w] = Tail(@)]
  /\ LoadRaises(w)
  /\ UNCHANGED <<coVars, poolVars, pollVars, engineVars, wop, mapped, torn, last, wapplied>>

\* apply_worker_resize accepts the operation: an exact replay, or a later
\* generation whose target lies on the side of the mapping that its stage says and
\* whose segments the table does not have yet (map) or still has (unmap).
Acceptable(w) ==
  \/ wop[w].gen = last[w]
  \/ /\ wop[w].gen > last[w]
     /\ w \notin torn
     /\ IF wop[w].stage = "map_workers" THEN wop[w].target > mapped[w]
                                        ELSE wop[w].target < mapped[w]

\* Mutant: the worker takes an unmap for done without unmapping.
WorkerApply_SkipsUnmap(w) ==
  /\ wpc[w] = "apply"
  /\ Acceptable(w)
  /\ mapped' = IF wop[w].stage = "map_workers"
                 THEN [mapped EXCEPT ![w] = wop[w].target] ELSE mapped
  /\ last' = [last EXCEPT ![w] = wop[w].gen]
  /\ WorkerGoto(w, "ack")
  /\ UNCHANGED <<coVars, poolVars, pollVars, engineVars, queue, wop, batch, torn, wapplied>>

\* Mutant: the operation is applied and not remembered.
WorkerApply_ForgetsKey(w) ==
  /\ wpc[w] = "apply"
  /\ Acceptable(w)
  /\ mapped' = [mapped EXCEPT ![w] = wop[w].target]
  /\ WorkerGoto(w, "ack")
  /\ UNCHANGED <<coVars, poolVars, pollVars, engineVars, queue, wop, batch, torn, last,
                 wapplied>>

WorkerApply(w) ==
  /\ wpc[w] = "apply"
  /\ Acceptable(w)
  /\ mapped' = IF wop[w].gen = last[w] THEN mapped
                                       ELSE [mapped EXCEPT ![w] = wop[w].target]
  /\ last' = [last EXCEPT ![w] = wop[w].gen]
  /\ WorkerGoto(w, "ack")
  /\ UNCHANGED <<coVars, poolVars, pollVars, engineVars, queue, wop, batch, torn, wapplied>>

\* The operation is refused, or a CUDA call fails.  A growth that fails is taken
\* back.  A shrink stops where it is: segments above are gone from the table.  A
\* growth whose zero check fails leaves its segments in the table.  In both cases
\* mapped_bytes stays, and the operation will not fit the table again.
WorkerApplyRaises(w) ==
  /\ wpc[w] = "apply"
  /\ \/ (Faults \/ ~Acceptable(w)) /\ UNCHANGED torn
     \/ /\ Faults /\ Acceptable(w) /\ wop[w].gen # last[w]
        /\ torn' = torn \cup {w}
  /\ LoadRaises(w)
  /\ UNCHANGED <<coVars, poolVars, pollVars, engineVars, queue, wop, mapped, last,
                 wapplied>>

WorkerAck(w) ==
  /\ wpc[w] = "ack"
  /\ AckReturns(w, wop[w].gen)
  /\ wapplied' = [wapplied EXCEPT ![w] = IF wop[w].gen > @ THEN wop[w].gen ELSE @]
  /\ batch' = batch
  /\ LoadEnds(w)
  /\ UNCHANGED <<poolVars, pollVars, engineVars, queue, wop, mapped, torn, last>>

WorkerAckRaises(w) ==
  /\ wpc[w] = "ack"
  /\ AckRaises(w, wop[w].gen)
  /\ LoadRaises(w)
  /\ UNCHANGED <<poolVars, pollVars, engineVars, queue, wop, mapped, torn, last, wapplied>>

\* wait_for_save ends the forward pass.  The leader's pass computes with the
\* other ranks and cannot end before they are in it.
EndForward(w) ==
  /\ wpc[w] = "forward"
  /\ w = Leader => \A v \in Workers : queue[v] = <<>> /\ wpc[v] \in {"idle", "forward"}
  /\ WorkerGoto(w, "idle")
  /\ batch' = [batch EXCEPT ![w] = {}]
  /\ UNCHANGED <<coVars, poolVars, pollVars, engineVars, queue, wop, mapped, torn, last,
                 wapplied>>

-----------------------------------------------------------------------------
Poller == PollSend \/ PollMerge \/ PollFails

Engine ==
  \/ Sleep \/ StepWithRequests \/ ZeroTokenStep \/ ApplyOp \/ ApplyOpRaises
  \/ AckOp \/ AckOpRaises \/ Dispatch \/ StepDone \/ StepFails

Worker(w) ==
  \/ StartLoad(w) \/ StartLoadRaises(w) \/ WorkerApply(w) \/ WorkerApplyRaises(w)
  \/ WorkerAck(w) \/ WorkerAckRaises(w) \/ EndForward(w)

Next == StartResize \/ LateAck \/ Poller \/ Engine \/ \E w \in Workers : Worker(w)

Spec == Init /\ [][Next]_vars

\* The heartbeat thread, the engine loop and the workers are scheduled.  Nothing
\* says that a request ever comes to a sleeping engine.
Scheduled ==
  /\ WF_vars(PollSend) /\ WF_vars(PollMerge)
  /\ WF_vars(Engine /\ (spc # "asleep"))
  /\ \A w \in Workers : WF_vars(Worker(w))

FairSpec == Spec /\ Scheduled
-----------------------------------------------------------------------------
(* Properties                                                              *)

Op == [gen : Nat, stage : Stages \cup {"stable"}, target : Nat]

CoordinatorTypeOK ==
  /\ gen \in Nat
  /\ stage \in Stages \cup {"stable"}
  /\ size \in Sizes
  /\ goal \in Sizes
  /\ acks \in SUBSET Workers
  /\ phys \in Sizes
  /\ late \in SUBSET [actor : Actors, gen : Nat]

SchedulerTypeOK ==
  /\ cur \in Sizes
  /\ used \in SUBSET Nat
  /\ applied \in Nat
  /\ pending \in Seq(Op)
  /\ awake \in BOOLEAN
  /\ failed \in BOOLEAN
  /\ reply \in [here : BOOLEAN, op : Op, pending : BOOLEAN]
  /\ spc \in {"top", "asleep", "meta", "ack", "wait"}
  /\ ops \in Seq(Op)

WorkerTypeOK ==
  /\ queue \in [Workers -> Seq(SUBSET Nat)]
  /\ wpc \in [Workers -> {"idle", "apply", "ack", "forward", "raised"}]
  /\ wop \in [Workers -> Op]
  /\ batch \in [Workers -> SUBSET Nat]
  /\ mapped \in [Workers -> Sizes]
  /\ last \in [Workers -> Nat]
  /\ wapplied \in [Workers -> Nat]

ConnectorTypeOK == CoordinatorTypeOK /\ SchedulerTypeOK /\ WorkerTypeOK

\* Types of the coordinator, of the scheduler's connector and of the workers.
TypeOK == ConnectorTypeOK /\ torn \in SUBSET Workers

\* The blocks of worker w that are mapped for certain: a shrink that stopped half-way
\* has unmapped some of the tail.
Backed(w) == IF w \in torn /\ stage = "unmap_workers" THEN goal ELSE mapped[w]

\* The scheduler never hands out a block that some worker has not mapped, and
\* no worker has mapped a block whose physical memory is gone, whatever
\* acknowledgements are lost, late or repeated and whichever operations the
\* heartbeat thread delivers twice, and wherever a worker's CUDA calls failed.
CapacityOrder == \A w \in Workers : cur <= Backed(w) /\ mapped[w] <= phys

\* A forward pass touches mapped blocks only, though the engine goes on when
\* the leader has answered and a slower rank is still in the pass, and though a
\* worker goes on serving after a shrink that stopped half-way.
NoUnmappedAccess ==
  \A w \in Workers : wpc[w] = "forward" => batch[w] \subseteq Tail0(1, Backed(w))

\* The pool changes size once per resize: only to the target of the resize
\* under way, from the committed size, in the stage that waits for the
\* scheduler.  A stale operation that is delivered or replayed changes nothing.
ResizedOnce ==
  [][cur' # cur => /\ stage \in SchedulerStages
                   /\ cur = size
                   /\ cur' = goal]_vars

\* A worker's checks refuse an operation of the coordinator only where a CUDA call
\* or a zero check failed inside that operation (shared_pool.py 615, 714): every
\* other replay is taken as one, and every other operation continues from the mapping
\* that the worker has.  A torn worker refuses in every step, for ever; but it never
\* acknowledges, so the coordinator does not take the resize for done, and releases no
\* memory that the worker still maps.
StuckOnlyWhenTorn ==
  /\ \A w \in Workers : wpc[w] = "apply" => Acceptable(w) \/ w \in torn
  /\ \A w \in torn : stage \in WorkerStages /\ w \notin acks /\ last[w] < gen

\* The abstract specification of a resize
Contract == INSTANCE ResizeContract WITH
  mode <- IF stage = "stable" THEN "stable" ELSE IF goal > size THEN "grow" ELSE "shrink",
  resident <- phys,
  exposed <- cur

\* Polls, replays, lost acknowledgements and engine steps together only ever
\* take the steps of a resize without messages, in its order.
ImplementsContract == Contract!Spec

\* A shrink of a grown pool completes while the engine has no requests: the
\* connector keeps the engine awake until the scheduler has retired the tail and
\* the workers have unmapped it.
IdleShrinkCompletes ==
  (stage # "stable" /\ goal < size /\ size > Initial)
    ~> (stage = "stable" \/ used # {})

\* What the README says of zero-token steps: a resize progresses while the
\* engine is idle.
IdleResizeCompletes == stage # "stable" ~> (stage = "stable" \/ used # {})
=============================================================================
