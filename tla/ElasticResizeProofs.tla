------------------------- MODULE ElasticResizeProofs -------------------------
(***************************************************************************)
(* Proofs about ElasticResize.                                             *)
(*                                                                         *)
(* The capacity order is not inductive: it needs to know what each stage   *)
(* of the coordinator says about the sizes (StageInv), which workers have  *)
(* carried the operation out (WorkerInv), that an acknowledgement follows  *)
(* the change it reports (LateInv, AckInv), and that an operation left     *)
(* over from an earlier resize is met before the pool has moved on         *)
(* (PipeKnown, PipeOrdered), so that applying it again changes nothing.    *)
(* The refinement of ResizeContract follows from the same invariant; the   *)
(* safety of forward passes needs PassInv on top of it, and, for a worker  *)
(* that a failure left torn, TornInv and TornAccess.                       *)
(***************************************************************************)
EXTENDS ElasticResize, SequenceTheorems, TLAPS

StageInv ==
  /\ stage = "stable" => goal = size
  /\ stage \in {"map_workers", "activate_scheduler"} => goal > size
  /\ stage \in {"retire_scheduler", "unmap_workers"} => goal < size
  /\ phys = IF stage \in {"map_workers", "activate_scheduler"} THEN goal ELSE size
  /\ cur \in {size, goal}
  /\ stage = "map_workers" => cur = size
  /\ stage = "unmap_workers" => cur = goal
  /\ stage = "retire_scheduler" => acks = {}

WorkerCore ==
  \A w \in Workers :
    /\ last[w] <= gen
    /\ mapped[w] = IF last[w] = gen THEN goal ELSE size
    /\ stage = "activate_scheduler" => last[w] = gen
    /\ stage = "retire_scheduler" => last[w] < gen
    /\ stage \in WorkerStages /\ w \in acks => last[w] = gen

WorkerOps ==
  \A w \in Workers :
    /\ wpc[w] = "apply" =>
         \/ wop[w].gen = last[w]
         \/ last[w] < gen /\ stage \in WorkerStages /\ wop[w] = CurrentOp
    /\ wpc[w] = "ack" => wop[w].gen = last[w]

WorkerInv == WorkerCore /\ WorkerOps

\* What actor a reports with an acknowledgement of generation g has happened.
Claim(a, g) ==
  /\ g <= gen
  /\ a = "scheduler" /\ g = gen => cur = goal
  /\ a \in Workers => g <= last[a]

LateInv == \A m \in late : Claim(m.actor, m.gen)

AckInv == spc = "ack" => ops # <<>> /\ (ops[1].gen = gen => cur = goal)

\* An operation of the resize under way, or of the one before as long as the
\* pool still has the size that one gave it.
Known(o) ==
  /\ 0 < o.gen /\ o.gen <= gen
  /\ o.gen = gen => o.target = goal /\ stage # "map_workers"
  /\ o.gen < gen => o.target = size /\ cur = size

PipeKnown ==
  /\ \A k \in 1..Len(ops) : Known(ops[k])
  /\ \A k \in 1..Len(pending) : Known(pending[k])
  /\ reply.op.gen # 0 => Known(reply.op)

PipeOrdered ==
  /\ \A j, k \in 1..Len(ops) : j < k => ops[j].gen <= ops[k].gen
  /\ \A j, k \in 1..Len(pending) : j < k => pending[j].gen <= pending[k].gen
  /\ \A j \in 1..Len(ops), k \in 1..Len(pending) : ops[j].gen <= pending[k].gen
  /\ reply.op.gen # 0 =>
       /\ \A k \in 1..Len(ops) : ops[k].gen <= reply.op.gen
       /\ \A k \in 1..Len(pending) : pending[k].gen <= reply.op.gen

ResizeInv ==
  /\ ConnectorTypeOK /\ StageInv /\ WorkerInv
  /\ LateInv /\ AckInv /\ PipeKnown /\ PipeOrdered

\* The leader is busy only in the step that the engine waits for.
LeaderStep ==
  /\ spc # "wait" => wpc[Leader] = "idle" /\ queue[Leader] = <<>>
  /\ spc = "wait" =>
       /\ queue[Leader] # <<>> => queue[Leader] = <<used>> /\ wpc[Leader] = "idle"
       /\ wpc[Leader] \in {"apply", "ack", "forward"} => batch[Leader] = used

\* A rank that has not started its forward pass is in the step that the engine
\* waits for, unless it is in a step without requests.
PassToCome ==
  \A w \in Workers :
    /\ \A k \in 1..Len(queue[w]) : queue[w][k] # {} => spc = "wait" /\ queue[w][k] = used
    /\ wpc[w] \in {"apply", "ack"} /\ batch[w] # {} => spc = "wait" /\ batch[w] = used

\* When the leader is done with a step with requests, every other rank has
\* started its pass.
LeaderLast ==
  spc = "wait" /\ used # {} /\ queue[Leader] = <<>> /\ wpc[Leader] = "idle" =>
    \A w \in Workers : queue[w] = <<>> /\ wpc[w] \in {"idle", "forward"}

PassInv == used \subseteq Tail0(1, cur) /\ LeaderStep /\ PassToCome /\ LeaderLast

PassesMapped == \A w \in Workers : wpc[w] = "forward" => batch[w] \subseteq Tail0(1, mapped[w])

AccessInv == ResizeInv /\ PassInv /\ PassesMapped

\* A worker whose segments no longer fit has the operation that broke them still
\* before it.
TornInv == torn \in SUBSET Workers /\ \A w \in torn : last[w] < gen /\ stage \in WorkerStages

\* What such a worker computes with lies below the target of the shrink.
TornAccess ==
  \A w \in torn : wpc[w] = "forward" /\ stage = "unmap_workers" => batch[w] \subseteq Tail0(1, goal)

ServingInv == AccessInv /\ TornInv /\ TornAccess
-----------------------------------------------------------------------------
(* Facts about the numbers and about the operations                        *)

LEMMA SizesAreNaturals == \A n \in Sizes : n \in Nat /\ n > 1
BY SizesHoldNullBlock

LEMMA NoOpIsOp == NoOp \in Op
BY DEF NoOp, Op

LEMMA CurrentOpIsOp == CoordinatorTypeOK => CurrentOp \in Op
BY SizesAreNaturals DEF CoordinatorTypeOK, CurrentOp, Op

\* The capacity order follows from the stage and the workers' progress.
LEMMA OrderFromInv ==
  ASSUME CoordinatorTypeOK, SchedulerTypeOK, StageInv, WorkerCore
  PROVE  \A w \in Workers :
           /\ cur <= mapped[w] /\ mapped[w] <= phys
           /\ stage = "unmap_workers" => cur <= goal
<1> SUFFICES ASSUME NEW w \in Workers
             PROVE  /\ cur <= mapped[w] /\ mapped[w] <= phys
                    /\ stage = "unmap_workers" => cur <= goal
  OBVIOUS
<1>1. size \in Nat /\ goal \in Nat /\ cur \in Nat /\ gen \in Nat
  BY SizesAreNaturals DEF CoordinatorTypeOK, SchedulerTypeOK
<1> QED
  BY <1>1 DEF StageInv, WorkerCore, CoordinatorTypeOK, Stages

\* An acknowledgement that arrives moves the coordinator on only when what it
\* waits for has happened, and then no operation of an earlier resize is left.
LEMMA ReceiveKeeps ==
  ASSUME CoordinatorTypeOK, SchedulerTypeOK, WorkerTypeOK, StageInv, WorkerCore,
         NEW a \in Actors, NEW g \in Nat, Claim(a, g), Receive(a, g),
         UNCHANGED <<gen, goal, cur, last, mapped>>,
         late' \in SUBSET [actor : Actors, gen : Nat]
  PROVE  /\ CoordinatorTypeOK'
         /\ StageInv'
         /\ WorkerCore'
         /\ \A w \in Workers : last[w] < gen /\ stage \in WorkerStages => stage' = stage
         /\ \A o \in Op : Known(o) => Known(o)'
<1>1. size \in Nat /\ goal \in Nat /\ cur \in Nat /\ gen \in Nat /\ phys \in Nat
      /\ \A w \in Workers : last[w] \in Nat
  BY SizesAreNaturals DEF CoordinatorTypeOK, SchedulerTypeOK, WorkerTypeOK
<1>2. CASE ~Expected(a, g)
  BY <1>2 DEF Receive, CoordinatorTypeOK, StageInv, WorkerCore, Known
<1>3. CASE Expected(a, g) /\ stage = "retire_scheduler"
  <2>1. cur = goal
    BY <1>3 DEF Expected, Claim, WorkerStages, Actors
  <2>2. stage' = "unmap_workers" /\ UNCHANGED <<size, acks, phys>>
    BY <1>3 DEF Receive
  <2> QED
    BY <1>1, <1>3, <2>1, <2>2 DEF CoordinatorTypeOK, StageInv, WorkerCore, Known,
         Stages, WorkerStages
<1>4. CASE Expected(a, g) /\ stage = "activate_scheduler"
  <2>1. cur = goal
    BY <1>4 DEF Expected, Claim, WorkerStages, Actors
  <2>2. stage' = "stable" /\ size' = goal /\ UNCHANGED <<acks, phys>>
    BY <1>4 DEF Receive
  <2> QED
    BY <1>1, <1>4, <2>1, <2>2 DEF CoordinatorTypeOK, StageInv, WorkerCore, Known,
         Stages, WorkerStages
<1>5. CASE Expected(a, g) /\ stage \in WorkerStages
  <2>1. a \in Workers /\ last[a] = gen
    BY <1>1, <1>5, SchedulerIsNoWorker
       DEF Expected, Claim, WorkerStages, SchedulerStages, Actors, WorkerCore
  <2>2. CASE acks \cup {a} # Workers
    <3>1. acks' = acks \cup {a} /\ UNCHANGED <<stage, size, phys>>
      BY <1>5, <2>2 DEF Receive, WorkerStages
    <3> QED
      BY <1>1, <1>5, <2>1, <3>1 DEF CoordinatorTypeOK, StageInv, WorkerCore, Known,
           Stages, WorkerStages
  <2>3. ASSUME acks \cup {a} = Workers PROVE \A w \in Workers : last[w] = gen
    BY <1>5, <2>1, <2>3 DEF WorkerCore
  <2>4. CASE acks \cup {a} = Workers /\ stage = "map_workers"
    <3>1. stage' = "activate_scheduler" /\ acks' = acks \cup {a} /\ UNCHANGED <<size, phys>>
      BY <1>5, <2>4 DEF Receive
    <3> QED
      BY <1>1, <1>5, <2>1, <2>3, <2>4, <3>1 DEF CoordinatorTypeOK, StageInv, WorkerCore,
           Known, Stages, WorkerStages
  <2>5. CASE acks \cup {a} = Workers /\ stage = "unmap_workers"
    <3>1. stage' = "stable" /\ acks' = acks \cup {a} /\ size' = goal /\ phys' = goal
      BY <1>5, <2>5 DEF Receive
    <3> QED
      BY <1>1, <1>5, <2>1, <2>3, <2>5, <3>1 DEF CoordinatorTypeOK, StageInv, WorkerCore,
           Known, Stages, WorkerStages
  <2> QED BY <1>5, <2>2, <2>4, <2>5 DEF WorkerStages
<1> QED
  BY <1>2, <1>3, <1>4, <1>5 DEF Expected, WorkerStages, SchedulerStages

\* Steps of the engine loop and of the heartbeat thread that leave the sizes
\* alone.
LEMMA Frame ==
  ASSUME ResizeInv, UNCHANGED <<coVars, cur, mapped, last>>
  PROVE  /\ CoordinatorTypeOK'
         /\ StageInv'
         /\ WorkerCore'
         /\ LateInv'
         /\ \A o : Known(o)' <=> Known(o)
BY DEF ResizeInv, ConnectorTypeOK, coVars, CoordinatorTypeOK, StageInv, WorkerInv, WorkerCore, LateInv,
       Claim, Known

\* The operations on their way stay known when nothing is added to them.
LEMMA PipeStays ==
  ASSUME SchedulerTypeOK, PipeKnown, PipeOrdered, UNCHANGED <<ops, pending, reply>>,
         \A o \in Op : Known(o) => Known(o)'
  PROVE  PipeKnown' /\ PipeOrdered'
<1>1. /\ \A k \in 1..Len(ops) : ops[k] \in Op
      /\ \A k \in 1..Len(pending) : pending[k] \in Op
      /\ reply.op \in Op
  BY ElementOfSeq DEF SchedulerTypeOK
<1> QED BY <1>1 DEF PipeKnown, PipeOrdered

LEMMA HeadIsKnown ==
  ASSUME SchedulerTypeOK, PipeKnown, ops # <<>>
  PROVE  /\ 1 \in 1..Len(ops)
         /\ Head(ops) = ops[1]
         /\ ops[1] \in Op
         /\ Known(ops[1])
<1>1. ops \in Seq(Op)
  BY DEF SchedulerTypeOK
<1>2. 1 \in 1..Len(ops)
  BY <1>1, EmptySeq
<1>3. ops[1] \in Op
  BY <1>1, <1>2, ElementOfSeq
<1>4. Head(ops) = ops[1]
  BY <1>1
<1>5. Known(ops[1])
  BY <1>2 DEF PipeKnown
<1> QED BY <1>2, <1>3, <1>4, <1>5

-----------------------------------------------------------------------------
(* ResizeInv is inductive                                                  *)

LEMMA ResizeInvInit == Init => ResizeInv
<1> SUFFICES ASSUME Init PROVE ResizeInv
  OBVIOUS
<1> USE DEF Init
<1>1. Initial \in Sizes /\ Initial \in Nat
  BY SizesHoldNullBlock
<1>2. CoordinatorTypeOK
  BY <1>1 DEF CoordinatorTypeOK
<1>3. SchedulerTypeOK
  BY <1>1, NoOpIsOp, EmptySeq DEF SchedulerTypeOK, NoReply
<1>4. WorkerTypeOK
  BY <1>1, NoOpIsOp, EmptySeq DEF WorkerTypeOK
<1>5. StageInv /\ WorkerCore /\ WorkerOps
  BY <1>1 DEF StageInv, WorkerCore, WorkerOps, WorkerStages
<1>6. LateInv /\ AckInv
  BY DEF LateInv, AckInv
<1>7. Len(ops) = 0 /\ Len(pending) = 0 /\ reply.op.gen = 0
  BY EmptySeq DEF NoReply, NoOp
<1>8. PipeKnown /\ PipeOrdered
  BY <1>7 DEF PipeKnown, PipeOrdered
<1> QED BY <1>2, <1>3, <1>4, <1>5, <1>6, <1>8 DEF ResizeInv, ConnectorTypeOK, WorkerInv

LEMMA ResizeInvStart == ASSUME ResizeInv, StartResize PROVE ResizeInv'
<1> USE DEF StartResize, poolVars, pollVars, engineVars, workerVars
<1>1. size \in Nat /\ goal \in Nat /\ gen \in Nat /\ phys \in Nat /\ cur \in Nat
      /\ \A w \in Workers : last[w] \in Nat
  BY SizesAreNaturals DEF ResizeInv, ConnectorTypeOK, CoordinatorTypeOK, SchedulerTypeOK, WorkerTypeOK
<1>2. PICK n \in Sizes \ {size} :
        /\ goal' = n
        /\ stage' = IF n > size THEN "map_workers" ELSE "retire_scheduler"
        /\ phys' = IF n > size THEN n ELSE phys
  OBVIOUS
<1>3. n \in Nat /\ n # size
  BY SizesAreNaturals
<1>4. CoordinatorTypeOK' /\ SchedulerTypeOK' /\ WorkerTypeOK'
  BY <1>1, <1>2 DEF ResizeInv, ConnectorTypeOK, CoordinatorTypeOK, SchedulerTypeOK, WorkerTypeOK, Stages
<1>5. size = goal /\ cur = size
  BY DEF ResizeInv, StageInv
<1>6. StageInv'
  BY <1>1, <1>2, <1>3, <1>5 DEF ResizeInv, StageInv
<1>7. WorkerCore'
  BY <1>1, <1>2, <1>3, <1>5 DEF ResizeInv, WorkerInv, WorkerCore, WorkerStages
<1>8. WorkerOps'
  BY DEF ResizeInv, WorkerInv, WorkerOps, WorkerStages
<1>9. LateInv'
  <2> SUFFICES ASSUME NEW m \in late PROVE Claim(m.actor, m.gen)'
    BY DEF LateInv
  <2>1. m.gen \in Nat /\ Claim(m.actor, m.gen)
    BY DEF ResizeInv, ConnectorTypeOK, CoordinatorTypeOK, LateInv
  <2> QED BY <1>1, <2>1 DEF Claim
<1>10. AckInv'
  <2>1. ASSUME spc = "ack" PROVE ops # <<>> /\ ops[1].gen <= gen /\ ops[1].gen \in Nat
    <3>1. ops # <<>>
      BY <2>1 DEF ResizeInv, AckInv
    <3>2. ops[1] \in Op /\ Known(ops[1])
      BY <3>1, HeadIsKnown DEF ResizeInv, ConnectorTypeOK
    <3> QED BY <3>1, <3>2 DEF Known, Op
  <2> QED BY <1>1, <2>1 DEF AckInv
<1>11. \A o \in Op : Known(o) => Known(o)'
  BY <1>1, <1>5 DEF Known, Op
<1>12. PipeKnown' /\ PipeOrdered'
  BY <1>11, PipeStays DEF ResizeInv, ConnectorTypeOK
<1> QED BY <1>4, <1>6, <1>7, <1>8, <1>9, <1>10, <1>12 DEF ResizeInv, ConnectorTypeOK, WorkerInv

\* The engine gives up a step: the operations it took are dropped.
LEMMA DropOps ==
  ASSUME ResizeInv, ops' = <<>>, UNCHANGED <<pending, reply>>,
         \A o \in Op : Known(o) => Known(o)'
  PROVE  PipeKnown' /\ PipeOrdered'
<1>1. Len(ops') = 0
  BY EmptySeq
<1>2. /\ \A k \in 1..Len(pending) : pending[k] \in Op
      /\ reply.op \in Op
  BY ElementOfSeq DEF ResizeInv, ConnectorTypeOK, SchedulerTypeOK
<1> QED BY <1>1, <1>2 DEF ResizeInv, PipeKnown, PipeOrdered

LEMMA ResizeInvPoller == ASSUME ResizeInv, Poller PROVE ResizeInv'
<1> USE DEF coVars, poolVars, engineVars, workerVars
<1>1. UNCHANGED <<coVars, cur, mapped, last, wpc, wop, spc, ops>>
  BY DEF Poller, PollSend, PollMerge, PollFails
<1>2. CoordinatorTypeOK' /\ StageInv' /\ WorkerCore' /\ LateInv' /\ (\A o : Known(o)' <=> Known(o))
  BY <1>1, Frame
<1>3. WorkerTypeOK' /\ WorkerOps' /\ AckInv'
  BY DEF ResizeInv, ConnectorTypeOK, WorkerTypeOK, WorkerInv, WorkerOps, AckInv, Poller, PollSend,
         PollMerge, PollFails, CurrentOp
<1>4. gen \in Nat /\ applied \in Nat /\ reply.op \in Op /\ pending \in Seq(Op) /\ Len(pending) \in Nat
      /\ ops \in Seq(Op) /\ Len(ops) \in Nat
  BY LenProperties DEF ResizeInv, ConnectorTypeOK, CoordinatorTypeOK, SchedulerTypeOK
<1>5. /\ \A k \in 1..Len(ops) : ops[k] \in Op
      /\ \A k \in 1..Len(pending) : pending[k] \in Op
  BY <1>4, ElementOfSeq
<1>6. CASE PollSend
  <2>1. reply' = [here |-> TRUE,
                  op |-> IF stage \in SchedulerStages THEN CurrentOp ELSE NoOp,
                  pending |-> stage # "stable"]
    BY <1>6 DEF PollSend
  <2>2. reply'.op \in Op
    BY <2>1, NoOpIsOp, CurrentOpIsOp DEF ResizeInv, ConnectorTypeOK
  <2>3. SchedulerTypeOK'
    BY <1>6, <2>1, <2>2 DEF PollSend, ResizeInv, ConnectorTypeOK, SchedulerTypeOK
  <2>4. UNCHANGED <<ops, pending>>
    BY <1>6 DEF PollSend
  <2>5. reply'.op.gen # 0 => reply'.op = CurrentOp /\ stage \in SchedulerStages /\ gen # 0
    BY <2>1 DEF NoOp, CurrentOp
  <2>6. reply'.op.gen # 0 => Known(reply'.op) /\ reply'.op.gen = gen
    BY <1>4, <2>5 DEF Known, CurrentOp, SchedulerStages
  <2>7. PipeKnown'
    BY <1>2, <2>4, <2>6 DEF ResizeInv, PipeKnown
  <2>8. PipeOrdered'
    BY <1>5, <2>4, <2>6 DEF ResizeInv, PipeKnown, PipeOrdered, Known, Op
  <2> QED BY <1>2, <1>3, <2>3, <2>7, <2>8 DEF ResizeInv, ConnectorTypeOK, WorkerInv
<1>7. CASE PollMerge
  <2> DEFINE known == {pending[k].gen : k \in DOMAIN pending}
             news == IF reply.op.gen > applied /\ reply.op.gen \notin known
                       THEN <<reply.op>> ELSE <<>>
  <2>1. pending' = pending \o news /\ reply' = NoReply /\ UNCHANGED ops
    BY <1>7 DEF PollMerge
  <2>2. CASE news = <<>>
    <3>1. pending' = pending
      BY <1>4, <2>1, <2>2, ConcatEmptySeq
    <3>2. SchedulerTypeOK'
      BY <1>7, <3>1, NoOpIsOp DEF PollMerge, ResizeInv, ConnectorTypeOK, SchedulerTypeOK, NoReply
    <3>3. reply'.op.gen = 0
      BY <2>1 DEF NoReply, NoOp
    <3>4. PipeKnown' /\ PipeOrdered'
      BY <1>2, <2>1, <3>1, <3>3 DEF ResizeInv, PipeKnown, PipeOrdered
    <3> QED BY <1>2, <1>3, <3>2, <3>4 DEF ResizeInv, ConnectorTypeOK, WorkerInv
  <2>3. CASE news = <<reply.op>> /\ reply.op.gen > applied
    <3>1. pending' = Append(pending, reply.op)
      BY <1>4, <2>1, <2>3
    <3>2. /\ pending' \in Seq(Op)
          /\ Len(pending') = Len(pending) + 1
          /\ \A k \in 1..Len(pending) : pending'[k] = pending[k]
          /\ pending'[Len(pending) + 1] = reply.op
      BY <1>4, <3>1
    <3>3. SchedulerTypeOK'
      BY <1>7, <3>2, NoOpIsOp DEF PollMerge, ResizeInv, ConnectorTypeOK, SchedulerTypeOK, NoReply
    <3>4. reply'.op.gen = 0 /\ reply.op.gen # 0
      BY <1>4, <2>1, <2>3 DEF NoReply, NoOp, Op
    <3>5. PipeKnown'
      BY <1>2, <1>4, <2>1, <3>2, <3>4 DEF ResizeInv, PipeKnown
    <3>6. PipeOrdered'
      <4>1. PipeOrdered /\ ops' = ops
        BY <2>1 DEF ResizeInv
      <4>2. ASSUME NEW j \in 1..Len(pending'), NEW k \in 1..Len(pending'), j < k
            PROVE  pending'[j].gen <= pending'[k].gen
        <5>1. j \in 1..Len(pending) /\ (k \in 1..Len(pending) \/ k = Len(pending) + 1)
          BY <1>4, <3>2, <4>2
        <5> QED BY <3>2, <3>4, <4>1, <4>2, <5>1 DEF PipeOrdered
      <4>3. ASSUME NEW j \in 1..Len(ops), NEW k \in 1..Len(pending')
            PROVE  ops[j].gen <= pending'[k].gen
        <5>1. k \in 1..Len(pending) \/ k = Len(pending) + 1
          BY <1>4, <3>2
        <5> QED BY <3>2, <3>4, <4>1, <5>1 DEF PipeOrdered
      <4> QED BY <3>4, <4>1, <4>2, <4>3 DEF PipeOrdered
    <3> QED BY <1>2, <1>3, <3>3, <3>5, <3>6 DEF ResizeInv, ConnectorTypeOK, WorkerInv
  <2> QED BY <2>2, <2>3
<1>8. CASE PollFails
  <2>1. reply' = NoReply /\ UNCHANGED <<ops, pending>>
    BY <1>8 DEF PollFails
  <2>2. SchedulerTypeOK'
    BY <1>8, NoOpIsOp DEF PollFails, ResizeInv, ConnectorTypeOK, SchedulerTypeOK, NoReply
  <2>3. reply'.op.gen = 0
    BY <2>1 DEF NoReply, NoOp
  <2>4. PipeKnown' /\ PipeOrdered'
    BY <1>2, <2>1, <2>3 DEF ResizeInv, PipeKnown, PipeOrdered
  <2> QED BY <1>2, <1>3, <2>2, <2>4 DEF ResizeInv, ConnectorTypeOK, WorkerInv
<1> QED BY <1>6, <1>7, <1>8 DEF Poller

\* Steps of the engine loop that change neither a size nor an operation that is
\* still to be applied.
LEMMA ResizeInvIdleEngine ==
  ASSUME ResizeInv,
         \/ Sleep \/ Dispatch \/ StepDone \/ StepFails \/ ApplyOpRaises
  PROVE  ResizeInv'
<1> USE DEF coVars, poolVars, pollVars, workerVars
<1>1. UNCHANGED <<coVars, cur, mapped, last, wop, pending, reply>>
  BY DEF Sleep, Dispatch, StepDone, StepFails, ApplyOpRaises
<1>2. CoordinatorTypeOK' /\ StageInv' /\ WorkerCore' /\ LateInv' /\ (\A o : Known(o)' <=> Known(o))
  BY <1>1, Frame
<1>3. ops' \in {ops, <<>>}
  BY DEF Sleep, Dispatch, StepDone, StepFails, ApplyOpRaises, StepRaises
<1>4. SchedulerTypeOK'
  BY EmptySeq DEF ResizeInv, ConnectorTypeOK, SchedulerTypeOK, Sleep, Dispatch, StepDone, StepFails,
       ApplyOpRaises, StepRaises
<1>5. WorkerTypeOK'
  <2>1. CASE Dispatch
    <3>1. \A w \in Workers : Append(queue[w], used) \in Seq(SUBSET Nat)
      BY DEF ResizeInv, ConnectorTypeOK, WorkerTypeOK, SchedulerTypeOK
    <3> QED BY <2>1, <3>1 DEF Dispatch, ResizeInv, ConnectorTypeOK, WorkerTypeOK
  <2>2. CASE StepFails
    BY <2>2, LeaderIsWorker DEF StepFails, ResizeInv, ConnectorTypeOK, WorkerTypeOK
  <2> QED BY <2>1, <2>2 DEF ResizeInv, ConnectorTypeOK, WorkerTypeOK, Sleep, StepDone, ApplyOpRaises
<1>6. WorkerOps'
  <2>1. \A w \in Workers : wpc'[w] \in {wpc[w], "idle"}
    BY LeaderIsWorker DEF ResizeInv, ConnectorTypeOK, WorkerTypeOK, Sleep, Dispatch, StepDone, StepFails,
         ApplyOpRaises
  <2> QED BY <1>1, <2>1 DEF ResizeInv, WorkerInv, WorkerOps, CurrentOp
<1>7. AckInv'
  BY DEF AckInv, Sleep, Dispatch, StepDone, StepFails, ApplyOpRaises, StepRaises
<1>8. PipeKnown' /\ PipeOrdered'
  BY <1>1, <1>2, <1>3, PipeStays, DropOps DEF ResizeInv, ConnectorTypeOK
<1> QED BY <1>2, <1>4, <1>5, <1>6, <1>7, <1>8 DEF ResizeInv, ConnectorTypeOK, WorkerInv

LEMMA ResizeInvStartStep ==
  ASSUME ResizeInv, NEW new \in SUBSET Nat, StartStep(new)
  PROVE  ResizeInv'
<1> USE DEF coVars, StartStep, workerVars
<1>1. CoordinatorTypeOK' /\ StageInv' /\ WorkerCore' /\ LateInv' /\ (\A o : Known(o)' <=> Known(o))
  BY Frame
<1>2. SchedulerTypeOK' /\ WorkerTypeOK'
  BY EmptySeq DEF ResizeInv, ConnectorTypeOK, SchedulerTypeOK, WorkerTypeOK
<1>3. WorkerOps' /\ AckInv'
  BY DEF ResizeInv, WorkerInv, WorkerOps, AckInv, CurrentOp
<1>4. Len(pending') = 0 /\ ops' = pending /\ reply' = reply
  BY EmptySeq
<1>5. PipeKnown' /\ PipeOrdered'
  BY <1>1, <1>4 DEF ResizeInv, PipeKnown, PipeOrdered
<1> QED BY <1>1, <1>2, <1>3, <1>5 DEF ResizeInv, ConnectorTypeOK, WorkerInv

\* Applying the next operation: one of the resize under way moves the pool to
\* the goal, and is then the oldest left; an older one finds its target in force.
LEMMA ResizeInvApply == ASSUME ResizeInv, ApplyOp PROVE ResizeInv'
<1> USE DEF coVars, ApplyOp, pollVars, workerVars
<1>1. /\ 1 \in 1..Len(ops)
      /\ Head(ops) = ops[1]
      /\ ops[1] \in Op
      /\ Known(ops[1])
  BY HeadIsKnown DEF ResizeInv, ConnectorTypeOK
<1>2. size \in Nat /\ goal \in Nat /\ gen \in Nat /\ cur \in Nat /\ ops[1].gen \in Nat
  BY <1>1, SizesAreNaturals DEF ResizeInv, ConnectorTypeOK, CoordinatorTypeOK, SchedulerTypeOK, Op
<1>3. cur' = ops[1].target
  BY <1>1
<1>4. (ops[1].gen = gen /\ cur' = goal /\ stage # "map_workers") \/ (ops[1].gen < gen /\ cur' = cur)
  BY <1>1, <1>2, <1>3 DEF Known
<1>5. CoordinatorTypeOK' /\ SchedulerTypeOK' /\ WorkerTypeOK'
  BY <1>4 DEF ResizeInv, ConnectorTypeOK, CoordinatorTypeOK, SchedulerTypeOK, WorkerTypeOK
<1>6. StageInv'
  BY <1>2, <1>4 DEF ResizeInv, StageInv
<1>7. WorkerCore' /\ WorkerOps'
  BY DEF ResizeInv, WorkerInv, WorkerCore, WorkerOps, CurrentOp
<1>8. LateInv'
  BY <1>2, <1>4 DEF ResizeInv, LateInv, Claim
<1>9. AckInv'
  BY <1>2, <1>4 DEF AckInv
<1>10. CASE ops[1].gen < gen
  <2>1. \A o \in Op : Known(o) => Known(o)'
    BY <1>2, <1>4, <1>10 DEF Known
  <2>2. PipeKnown' /\ PipeOrdered'
    BY <2>1, PipeStays DEF ResizeInv, ConnectorTypeOK
  <2> QED BY <1>5, <1>6, <1>7, <1>8, <1>9, <2>2 DEF ResizeInv, ConnectorTypeOK, WorkerInv
<1>11. CASE ops[1].gen = gen
  <2>1. \A o \in Op : Known(o) /\ o.gen >= gen => Known(o)'
    BY <1>2, <1>11 DEF Known, Op
  <2>2. /\ \A k \in 1..Len(ops) : ops[k] \in Op
        /\ \A k \in 1..Len(pending) : pending[k] \in Op
        /\ reply.op \in Op
    BY ElementOfSeq DEF ResizeInv, ConnectorTypeOK, SchedulerTypeOK
  <2>3. PipeKnown /\ PipeOrdered
    BY DEF ResizeInv
  <2>4. \A k \in 1..Len(ops) : ops[k].gen >= gen
    <3> SUFFICES ASSUME NEW k \in 1..Len(ops) PROVE ops[k].gen >= gen
      OBVIOUS
    <3>1. Len(ops) \in Nat
      BY LenProperties DEF ResizeInv, ConnectorTypeOK, SchedulerTypeOK
    <3>2. k = 1 \/ 1 < k
      BY <3>1
    <3>3. ops[k].gen \in Nat
      BY <2>2 DEF Op
    <3> QED BY <1>1, <1>2, <1>11, <2>3, <3>2, <3>3 DEF PipeOrdered
  <2>5. \A k \in 1..Len(pending) : pending[k].gen >= gen
    BY <1>1, <1>2, <1>11, <2>2, <2>3 DEF PipeOrdered, Op
  <2>6. reply.op.gen # 0 => reply.op.gen >= gen
    BY <1>1, <1>2, <1>11, <2>2, <2>3 DEF PipeOrdered, Op
  <2>7. PipeKnown' /\ PipeOrdered'
    BY <2>1, <2>2, <2>3, <2>4, <2>5, <2>6 DEF PipeKnown, PipeOrdered
  <2> QED BY <1>5, <1>6, <1>7, <1>8, <1>9, <2>7 DEF ResizeInv, ConnectorTypeOK, WorkerInv
<1> QED BY <1>4, <1>10, <1>11

\* An acknowledgement that its sender gives up on says what has happened.
LEMMA RaisedAck ==
  ASSUME ResizeInv, NEW a \in Actors, NEW g \in Nat, Claim(a, g), AckRaises(a, g),
         UNCHANGED <<cur, mapped, last>>
  PROVE  /\ CoordinatorTypeOK' /\ StageInv' /\ WorkerCore' /\ LateInv'
         /\ UNCHANGED <<gen, stage, size, goal, acks, phys>>
         /\ \A o : Known(o)' <=> Known(o)
<1>1. UNCHANGED <<gen, stage, size, goal, acks, phys>>
  BY DEF AckRaises
<1>2. late' \in {late, late \cup {[actor |-> a, gen |-> g]}}
  BY DEF AckRaises
<1>3. CoordinatorTypeOK'
  BY <1>1, <1>2 DEF ResizeInv, ConnectorTypeOK, CoordinatorTypeOK
<1>4. LateInv'
  BY <1>1, <1>2 DEF ResizeInv, LateInv, Claim
<1> QED BY <1>1, <1>3, <1>4 DEF ResizeInv, StageInv, WorkerInv, WorkerCore, Known

\* The coordinator takes an acknowledgement while the workers stay where they are.
LEMMA WorkersKeepOps ==
  ASSUME ResizeInv, UNCHANGED <<gen, goal, last, wop>>,
         \A w \in Workers : last[w] < gen /\ stage \in WorkerStages => stage' = stage,
         \A w \in Workers : wpc'[w] \in {wpc[w], "idle", "forward", "raised"}
  PROVE  WorkerOps'
BY DEF ResizeInv, WorkerInv, WorkerOps, CurrentOp

LEMMA ResizeInvLateAck == ASSUME ResizeInv, LateAck PROVE ResizeInv'
<1> USE DEF poolVars, pollVars, engineVars, workerVars
<1>1. PICK m \in late : Receive(m.actor, m.gen) /\ late' = late \ {m}
                        /\ UNCHANGED <<gen, goal, poolVars, pollVars, engineVars, workerVars>>
  BY DEF LateAck
<1>2. m.actor \in Actors /\ m.gen \in Nat /\ late' \in SUBSET [actor : Actors, gen : Nat]
  BY <1>1 DEF ResizeInv, ConnectorTypeOK, CoordinatorTypeOK
<1>3. Claim(m.actor, m.gen)
  BY DEF ResizeInv, LateInv
<1>4. /\ CoordinatorTypeOK' /\ StageInv' /\ WorkerCore'
      /\ \A w \in Workers : last[w] < gen /\ stage \in WorkerStages => stage' = stage
      /\ \A o \in Op : Known(o) => Known(o)'
  BY <1>1, <1>2, <1>3, ReceiveKeeps DEF ResizeInv, ConnectorTypeOK, WorkerInv
<1>5. SchedulerTypeOK' /\ WorkerTypeOK' /\ LateInv' /\ AckInv'
  BY <1>1 DEF ResizeInv, ConnectorTypeOK, SchedulerTypeOK, WorkerTypeOK, LateInv, Claim, AckInv
<1>6. WorkerOps'
  BY <1>1, <1>4, WorkersKeepOps
<1>7. PipeKnown' /\ PipeOrdered'
  BY <1>1, <1>4, PipeStays DEF ResizeInv, ConnectorTypeOK
<1> QED BY <1>4, <1>5, <1>6, <1>7 DEF ResizeInv, ConnectorTypeOK, WorkerInv

LEMMA ResizeInvAckOp == ASSUME ResizeInv, AckOp \/ AckOpRaises PROVE ResizeInv'
<1> USE DEF poolVars, pollVars, workerVars
<1>1. spc = "ack" /\ ops # <<>> /\ UNCHANGED <<cur, mapped, last, wop, wpc, pending, reply>>
  BY DEF AckOp, AckOpRaises, ResizeInv, AckInv
<1>2. /\ 1 \in 1..Len(ops)
      /\ Head(ops) = ops[1]
      /\ ops[1] \in Op
      /\ Known(ops[1])
  BY <1>1, HeadIsKnown DEF ResizeInv, ConnectorTypeOK
<1>3. "scheduler" \in Actors /\ ops[1].gen \in Nat
  BY <1>2 DEF Actors, Op
<1>4. Claim("scheduler", ops[1].gen)
  BY <1>1, <1>2, SchedulerIsNoWorker DEF Claim, Known, ResizeInv, AckInv
<1>5. WorkerTypeOK'
  BY DEF AckOp, AckOpRaises, ResizeInv, ConnectorTypeOK, WorkerTypeOK
<1>6. CASE AckOp
  <2>1. Receive("scheduler", ops[1].gen) /\ UNCHANGED <<gen, goal, late>>
    BY <1>2, <1>6 DEF AckOp, AckReturns
  <2>2. /\ CoordinatorTypeOK' /\ StageInv' /\ WorkerCore'
        /\ \A w \in Workers : last[w] < gen /\ stage \in WorkerStages => stage' = stage
        /\ \A o \in Op : Known(o) => Known(o)'
    <3>1. late' \in SUBSET [actor : Actors, gen : Nat]
      BY <2>1 DEF ResizeInv, ConnectorTypeOK, CoordinatorTypeOK
    <3> QED BY <1>1, <1>3, <1>4, <2>1, <3>1, ReceiveKeeps DEF ResizeInv, ConnectorTypeOK, WorkerInv
  <2>3. LateInv'
    BY <1>1, <2>1 DEF ResizeInv, LateInv, Claim
  <2>4. WorkerOps'
    BY <1>1, <2>1, <2>2, WorkersKeepOps
  <2>5. ops' = Tail(ops) /\ spc' = "meta"
    BY <1>6 DEF AckOp
  <2>6. /\ ops' \in Seq(Op)
        /\ Len(ops') = Len(ops) - 1
        /\ \A k \in 1..Len(ops') : ops'[k] = ops[k + 1]
        /\ Len(ops) \in Nat
    BY <1>1, <2>5, HeadTailProperties, LenProperties DEF ResizeInv, ConnectorTypeOK, SchedulerTypeOK
  <2>7. SchedulerTypeOK'
    BY <1>2, <1>3, <1>6, <2>6 DEF AckOp, ResizeInv, ConnectorTypeOK, SchedulerTypeOK
  <2>8. AckInv'
    BY <2>5 DEF AckInv
  <2>9. \A k \in 1..Len(ops') : k + 1 \in 1..Len(ops)
    BY <2>6
  <2>10. PipeKnown'
    <3>1. /\ \A k \in 1..Len(ops) : ops[k] \in Op
          /\ \A k \in 1..Len(pending) : pending[k] \in Op
          /\ reply.op \in Op
      BY ElementOfSeq DEF ResizeInv, ConnectorTypeOK, SchedulerTypeOK
    <3>2. ASSUME NEW k \in 1..Len(ops') PROVE Known(ops[k])'
      <4>1. PICK o \in Op : o = ops[k + 1]
        BY <2>9, <3>1
      <4>2. Known(o)
        BY <2>9, <4>1 DEF ResizeInv, PipeKnown
      <4>3. Known(o)' /\ ops'[k] = o
        BY <2>2, <2>6, <4>1, <4>2
      <4> QED BY <4>3 DEF Known
    <3> QED BY <1>1, <2>2, <3>1, <3>2 DEF ResizeInv, PipeKnown
  <2>11. PipeOrdered'
    <3>1. PipeOrdered
      BY DEF ResizeInv
    <3>2. ASSUME NEW j \in 1..Len(ops'), NEW k \in 1..Len(ops'), j < k
          PROVE  ops'[j].gen <= ops'[k].gen
      <4>1. j + 1 \in 1..Len(ops) /\ k + 1 \in 1..Len(ops) /\ j + 1 < k + 1
        BY <2>6, <3>2
      <4> QED BY <2>6, <3>1, <4>1 DEF PipeOrdered
    <3>3. /\ \A j \in 1..Len(ops'), k \in 1..Len(pending) : ops'[j].gen <= pending[k].gen
          /\ reply.op.gen # 0 => \A j \in 1..Len(ops') : ops'[j].gen <= reply.op.gen
      BY <2>6, <2>9, <3>1 DEF PipeOrdered
    <3> QED BY <1>1, <3>1, <3>2, <3>3 DEF PipeOrdered
  <2> QED BY <1>5, <2>2, <2>3, <2>4, <2>7, <2>8, <2>10, <2>11 DEF ResizeInv, ConnectorTypeOK, WorkerInv
<1>7. CASE AckOpRaises
  <2>1. AckRaises("scheduler", ops[1].gen)
    BY <1>2, <1>7 DEF AckOpRaises
  <2>2. /\ CoordinatorTypeOK' /\ StageInv' /\ WorkerCore' /\ LateInv'
        /\ UNCHANGED <<gen, stage, size, goal, acks, phys>>
        /\ \A o : Known(o)' <=> Known(o)
    BY <1>1, <1>3, <1>4, <2>1, RaisedAck
  <2>3. SchedulerTypeOK' /\ AckInv' /\ ops' = <<>>
    BY <1>7, EmptySeq DEF AckOpRaises, StepRaises, ResizeInv, ConnectorTypeOK, SchedulerTypeOK, AckInv
  <2>4. WorkerOps'
    BY <1>1, <2>2, WorkersKeepOps
  <2>5. PipeKnown' /\ PipeOrdered'
    BY <1>1, <2>2, <2>3, DropOps
  <2> QED BY <1>5, <2>2, <2>3, <2>4, <2>5 DEF ResizeInv, ConnectorTypeOK, WorkerInv
<1> QED BY <1>6, <1>7

\* A worker's step that leaves the coordinator and the sizes alone.
LEMMA WorkerFrame ==
  ASSUME ResizeInv, UNCHANGED <<coVars, poolVars, pollVars, engineVars, mapped, last>>,
         WorkerTypeOK', WorkerOps'
  PROVE  ResizeInv'
<1> USE DEF poolVars, pollVars, engineVars
<1>1. CoordinatorTypeOK' /\ StageInv' /\ WorkerCore' /\ LateInv' /\ (\A o : Known(o)' <=> Known(o))
  BY Frame
<1>2. SchedulerTypeOK' /\ AckInv'
  BY DEF ResizeInv, ConnectorTypeOK, SchedulerTypeOK, AckInv, coVars
<1>3. PipeKnown' /\ PipeOrdered'
  BY <1>1, PipeStays DEF ResizeInv, ConnectorTypeOK
<1> QED BY <1>1, <1>2, <1>3 DEF ResizeInv, ConnectorTypeOK, WorkerInv

LEMMA ResizeInvLoad ==
  ASSUME ResizeInv, NEW w \in Workers,
         StartLoad(w) \/ StartLoadRaises(w) \/ WorkerApplyRaises(w) \/ EndForward(w)
  PROVE  ResizeInv'
<1>1. UNCHANGED <<coVars, poolVars, pollVars, engineVars, mapped, last, wapplied>>
  BY DEF StartLoad, StartLoadRaises, WorkerApplyRaises, EndForward
<1>2. WorkerTypeOK
  BY DEF ResizeInv, ConnectorTypeOK
<1>3. CASE StartLoad(w)
  <2>1. PICK op \in WorkerPoll(w) :
          /\ wop' = [wop EXCEPT ![w] = op]
          /\ IF op = NoOp THEN LoadEnds(w) ELSE WorkerGoto(w, "apply")
    BY <1>3 DEF StartLoad
  <2>2. op \in Op /\ (op # NoOp => op = CurrentOp /\ stage \in WorkerStages /\ gen > wapplied[w])
    BY <2>1, NoOpIsOp, CurrentOpIsOp DEF WorkerPoll, ResizeInv, ConnectorTypeOK
  <2>3. Head(queue[w]) \in SUBSET Nat /\ Tail(queue[w]) \in Seq(SUBSET Nat)
    BY <1>2, <1>3, HeadTailProperties DEF StartLoad, WorkerTypeOK
  <2>4. WorkerTypeOK'
    BY <1>1, <1>2, <1>3, <2>1, <2>2, <2>3 DEF StartLoad, WorkerTypeOK, LoadEnds, WorkerGoto
  <2>5. WorkerOps'
    <3> SUFFICES ASSUME NEW v \in Workers
                 PROVE  /\ wpc'[v] = "apply" =>
                             \/ wop'[v].gen = last[v]
                             \/ /\ last[v] < gen /\ stage \in WorkerStages
                                /\ wop'[v] = CurrentOp
                        /\ wpc'[v] = "ack" => wop'[v].gen = last[v]
      BY <1>1 DEF WorkerOps, CurrentOp, coVars
    <3>1. CASE v # w
      BY <1>2, <2>1, <3>1 DEF WorkerTypeOK, LoadEnds, WorkerGoto, ResizeInv, WorkerInv, WorkerOps
    <3>2. CASE v = w
      <4>1. wop'[w] = op /\ (wpc'[w] = "apply" => op # NoOp) /\ wpc'[w] # "ack"
        BY <1>2, <2>1 DEF WorkerTypeOK, LoadEnds, WorkerGoto
      <4>2. last[w] <= gen /\ last[w] \in Nat /\ gen \in Nat
        BY <1>2 DEF WorkerTypeOK, ResizeInv, WorkerInv, WorkerCore, ConnectorTypeOK, CoordinatorTypeOK
      <4> QED BY <2>2, <3>2, <4>1, <4>2 DEF CurrentOp
    <3> QED BY <3>1, <3>2
  <2> QED BY <1>1, <2>4, <2>5, WorkerFrame
<1>4. CASE StartLoadRaises(w) \/ WorkerApplyRaises(w) \/ EndForward(w)
  <2>1. WorkerTypeOK'
    <3>1. CASE StartLoadRaises(w)
      <4>1. Tail(queue[w]) \in Seq(SUBSET Nat)
        BY <1>2, <3>1, HeadTailProperties DEF StartLoadRaises, WorkerTypeOK
      <4> QED BY <1>1, <1>2, <3>1, <4>1 DEF StartLoadRaises, WorkerTypeOK, LoadRaises, WorkerGoto
    <3>2. CASE WorkerApplyRaises(w) \/ EndForward(w)
      BY <1>1, <1>2, <3>2 DEF WorkerApplyRaises, EndForward, WorkerTypeOK, LoadRaises, WorkerGoto
    <3> QED BY <1>4, <3>1, <3>2
  <2>2. \A v \in Workers : wpc'[v] \in {wpc[v], "idle", "raised"} /\ wop'[v] = wop[v]
    BY <1>2, <1>4 DEF StartLoadRaises, WorkerApplyRaises, EndForward, WorkerTypeOK, LoadRaises,
         WorkerGoto
  <2>3. WorkerOps'
    BY <1>1, <2>2 DEF ResizeInv, WorkerInv, WorkerOps, CurrentOp, coVars
  <2> QED BY <1>1, <2>1, <2>3, WorkerFrame
<1> QED BY <1>3, <1>4

LEMMA ResizeInvWorkerApply ==
  ASSUME ResizeInv, NEW w \in Workers, WorkerApply(w)
  PROVE  ResizeInv'
<1> USE DEF WorkerApply, coVars, poolVars, pollVars, engineVars
<1>1. WorkerTypeOK /\ WorkerCore /\ WorkerOps /\ CoordinatorTypeOK /\ SchedulerTypeOK
  BY DEF ResizeInv, ConnectorTypeOK, WorkerInv
<1>2. size \in Nat /\ goal \in Nat /\ gen \in Nat /\ \A v \in Workers : last[v] \in Nat
  BY <1>1, SizesAreNaturals DEF CoordinatorTypeOK, WorkerTypeOK
<1>3. \/ wop[w].gen = last[w] /\ UNCHANGED <<mapped, last>>
      \/ /\ wop[w].gen # last[w] /\ last[w] < gen /\ stage \in WorkerStages
         /\ wop[w].gen = gen /\ wop[w].target = goal
         /\ mapped' = [mapped EXCEPT ![w] = goal]
         /\ last' = [last EXCEPT ![w] = gen]
  <2>1. wop[w].gen = last[w] \/ (last[w] < gen /\ stage \in WorkerStages /\ wop[w] = CurrentOp)
    BY <1>1 DEF WorkerOps
  <2>2. ASSUME wop[w].gen = last[w] PROVE UNCHANGED <<mapped, last>>
    BY <1>1, <2>2 DEF WorkerTypeOK
  <2>3. ASSUME wop[w] = CurrentOp PROVE wop[w].gen = gen /\ wop[w].target = goal
    BY <2>3 DEF CurrentOp
  <2> QED BY <1>2, <2>1, <2>2, <2>3
<1>4. WorkerTypeOK'
  BY <1>1, <1>2, <1>3 DEF WorkerTypeOK, CoordinatorTypeOK, WorkerGoto
<1>5. CoordinatorTypeOK' /\ SchedulerTypeOK' /\ StageInv' /\ AckInv'
  BY DEF ResizeInv, ConnectorTypeOK, CoordinatorTypeOK, SchedulerTypeOK, StageInv, AckInv
<1>6. \A v \in Workers : last[v] <= last'[v] /\ last'[v] \in Nat
  BY <1>1, <1>2, <1>3 DEF WorkerTypeOK
<1>7. WorkerCore'
  BY <1>1, <1>2, <1>3 DEF WorkerCore, WorkerTypeOK, WorkerStages
<1>8. WorkerOps'
  <2> SUFFICES ASSUME NEW v \in Workers
               PROVE  /\ wpc'[v] = "apply" =>
                           \/ wop[v].gen = last'[v]
                           \/ last'[v] < gen /\ stage \in WorkerStages /\ wop[v] = CurrentOp
                      /\ wpc'[v] = "ack" => wop[v].gen = last'[v]
    BY DEF WorkerOps, CurrentOp
  <2>1. CASE v # w
    BY <1>1, <1>3, <2>1 DEF WorkerTypeOK, WorkerOps, WorkerGoto
  <2>2. CASE v = w
    BY <1>1, <1>3, <2>2 DEF WorkerTypeOK, WorkerGoto
  <2> QED BY <2>1, <2>2
<1>9. LateInv'
  <2> SUFFICES ASSUME NEW m \in late PROVE Claim(m.actor, m.gen)'
    BY DEF LateInv
  <2>1. Claim(m.actor, m.gen) /\ m.gen \in Nat
    BY DEF ResizeInv, LateInv, ConnectorTypeOK, CoordinatorTypeOK
  <2> QED BY <1>2, <1>6, <2>1 DEF Claim
<1>10. PipeKnown' /\ PipeOrdered'
  BY PipeStays DEF ResizeInv, ConnectorTypeOK, Known
<1> QED BY <1>4, <1>5, <1>7, <1>8, <1>9, <1>10 DEF ResizeInv, ConnectorTypeOK, WorkerInv

LEMMA ResizeInvWorkerAck ==
  ASSUME ResizeInv, NEW w \in Workers, WorkerAck(w) \/ WorkerAckRaises(w)
  PROVE  ResizeInv'
<1> USE DEF poolVars, pollVars, engineVars
<1>1. /\ wpc[w] = "ack"
      /\ UNCHANGED <<poolVars, pollVars, engineVars, mapped, last, wop, queue>>
  BY DEF WorkerAck, WorkerAckRaises
<1>2. WorkerTypeOK /\ WorkerCore /\ WorkerOps /\ CoordinatorTypeOK /\ SchedulerTypeOK
  BY DEF ResizeInv, ConnectorTypeOK, WorkerInv
<1>3. w \in Actors /\ wop[w].gen \in Nat /\ gen \in Nat /\ w # "scheduler"
  BY <1>2, SchedulerIsNoWorker DEF Actors, WorkerTypeOK, CoordinatorTypeOK, Op
<1>4. Claim(w, wop[w].gen)
  BY <1>1, <1>2, <1>3 DEF Claim, WorkerOps, WorkerCore
<1>5. WorkerTypeOK' /\ \A v \in Workers : wpc'[v] \in {wpc[v], "idle", "forward", "raised"}
  BY <1>2, <1>3 DEF WorkerAck, WorkerAckRaises, WorkerTypeOK, LoadEnds, LoadRaises, WorkerGoto
<1>6. SchedulerTypeOK'
  BY <1>1 DEF ResizeInv, ConnectorTypeOK, SchedulerTypeOK
<1>7. CASE WorkerAck(w)
  <2>1. Receive(w, wop[w].gen) /\ UNCHANGED <<gen, goal, late>>
    BY <1>7 DEF WorkerAck, AckReturns
  <2>2. /\ CoordinatorTypeOK' /\ StageInv' /\ WorkerCore'
        /\ \A v \in Workers : last[v] < gen /\ stage \in WorkerStages => stage' = stage
        /\ \A o \in Op : Known(o) => Known(o)'
    <3>1. late' \in SUBSET [actor : Actors, gen : Nat]
      BY <1>2, <2>1 DEF CoordinatorTypeOK
    <3> QED BY <1>1, <1>2, <1>3, <1>4, <2>1, <3>1, ReceiveKeeps DEF ResizeInv
  <2>3. LateInv' /\ AckInv'
    BY <1>1, <2>1 DEF ResizeInv, LateInv, Claim, AckInv
  <2>4. WorkerOps'
    BY <1>1, <1>5, <2>1, <2>2, WorkersKeepOps
  <2>5. PipeKnown' /\ PipeOrdered'
    BY <1>1, <1>2, <2>2, PipeStays DEF ResizeInv
  <2> QED BY <1>5, <1>6, <2>2, <2>3, <2>4, <2>5 DEF ResizeInv, ConnectorTypeOK, WorkerInv
<1>8. CASE WorkerAckRaises(w)
  <2>1. AckRaises(w, wop[w].gen)
    BY <1>8 DEF WorkerAckRaises
  <2>2. /\ CoordinatorTypeOK' /\ StageInv' /\ WorkerCore' /\ LateInv'
        /\ UNCHANGED <<gen, stage, size, goal, acks, phys>>
        /\ \A o : Known(o)' <=> Known(o)
    BY <1>1, <1>3, <1>4, <2>1, RaisedAck
  <2>3. AckInv'
    BY <1>1, <2>2 DEF ResizeInv, AckInv
  <2>4. WorkerOps'
    BY <1>1, <1>5, <2>2, WorkersKeepOps
  <2>5. PipeKnown' /\ PipeOrdered'
    BY <1>1, <1>2, <2>2, PipeStays DEF ResizeInv
  <2> QED BY <1>5, <1>6, <2>2, <2>3, <2>4, <2>5 DEF ResizeInv, ConnectorTypeOK, WorkerInv
<1> QED BY <1>7, <1>8

LEMMA ResizeInvStep == ResizeInv /\ [Next]_vars => ResizeInv'
<1> SUFFICES ASSUME ResizeInv, [Next]_vars PROVE ResizeInv'
  OBVIOUS
<1>1. CASE StartResize
  BY <1>1, ResizeInvStart
<1>2. CASE LateAck
  BY <1>2, ResizeInvLateAck
<1>3. CASE Poller
  BY <1>3, ResizeInvPoller
<1>4. CASE StepWithRequests
  <2>1. cur \in Nat
    BY SizesAreNaturals DEF ResizeInv, ConnectorTypeOK, SchedulerTypeOK
  <2>2. PICK new \in SUBSET (Tail0(1, cur) \ used) : StartStep(new)
    BY <1>4 DEF StepWithRequests
  <2>3. new \in SUBSET Nat
    BY <2>1 DEF Tail0
  <2> QED BY <2>2, <2>3, ResizeInvStartStep
<1>5. CASE ZeroTokenStep
  BY <1>5, ResizeInvStartStep DEF ZeroTokenStep
<1>6. CASE ApplyOp
  BY <1>6, ResizeInvApply
<1>7. CASE AckOp \/ AckOpRaises
  BY <1>7, ResizeInvAckOp
<1>8. CASE Sleep \/ Dispatch \/ StepDone \/ StepFails \/ ApplyOpRaises
  BY <1>8, ResizeInvIdleEngine
<1>9. ASSUME NEW w \in Workers, Worker(w) PROVE ResizeInv'
  BY <1>9, ResizeInvLoad, ResizeInvWorkerApply, ResizeInvWorkerAck DEF Worker
<1>10. CASE UNCHANGED vars
  <2>1. WorkerTypeOK' /\ WorkerOps'
    BY <1>10 DEF vars, coVars, workerVars, ResizeInv, ConnectorTypeOK, WorkerTypeOK, WorkerInv, WorkerOps,
         CurrentOp
  <2> QED BY <1>10, <2>1, WorkerFrame DEF vars, workerVars
<1> QED
  BY <1>1, <1>2, <1>3, <1>4, <1>5, <1>6, <1>7, <1>8, <1>9, <1>10 DEF Next, Engine

LEMMA ResizeInvAlways == Spec => []ResizeInv
BY ResizeInvInit, ResizeInvStep, PTL DEF Spec

-----------------------------------------------------------------------------
(* A worker whose segments no longer fit                                   *)

\* While a worker is torn the coordinator waits for it: no acknowledgement moves the
\* stage on, and nothing the worker accepts changes what it has applied.
LEMMA TornStep ==
  ASSUME ResizeInv, TornInv, [Next]_vars
  PROVE  /\ TornInv'
         /\ \A w \in torn : UNCHANGED <<gen, stage, goal>>
         /\ \A w \in torn' : w \in torn \/ wpc'[w] # "forward"
<1> USE DEF coVars, poolVars, engineVars, pollVars, workerVars
<1>1. gen \in Nat /\ \A w \in Workers : last[w] \in Nat
  BY DEF ResizeInv, ConnectorTypeOK, CoordinatorTypeOK, WorkerTypeOK
<1>2. ASSUME UNCHANGED <<gen, goal, last, torn>>,
             \A w \in Workers : last[w] < gen /\ stage \in WorkerStages => stage' = stage
      PROVE  /\ TornInv'
             /\ \A w \in torn : UNCHANGED <<gen, stage, goal>>
             /\ \A w \in torn' : w \in torn \/ wpc'[w] # "forward"
  BY <1>2 DEF TornInv
<1>3. CASE StartResize
  <2>1. torn = {}
    BY <1>3 DEF StartResize, TornInv, WorkerStages
  <2> QED BY <1>3, <2>1 DEF StartResize, TornInv
<1>4. ASSUME NEW a \in Actors, NEW g \in Nat, Claim(a, g), Receive(a, g),
             UNCHANGED <<gen, goal, cur, last, mapped>>,
             late' \in SUBSET [actor : Actors, gen : Nat]
      PROVE  \A w \in Workers : last[w] < gen /\ stage \in WorkerStages => stage' = stage
  BY <1>4, ReceiveKeeps DEF ResizeInv, ConnectorTypeOK, WorkerInv
<1>5. CASE LateAck
  <2>1. PICK m \in late : Receive(m.actor, m.gen) /\ late' = late \ {m}
                          /\ UNCHANGED <<gen, goal, cur, last, mapped, torn>>
    BY <1>5 DEF LateAck
  <2>2. m.actor \in Actors /\ m.gen \in Nat /\ late' \in SUBSET [actor : Actors, gen : Nat]
    BY <2>1 DEF ResizeInv, ConnectorTypeOK, CoordinatorTypeOK
  <2>3. Claim(m.actor, m.gen)
    BY DEF ResizeInv, LateInv
  <2>4. \A w \in Workers : last[w] < gen /\ stage \in WorkerStages => stage' = stage
    BY <1>4, <2>1, <2>2, <2>3
  <2> QED BY <1>2, <2>1, <2>4
<1>6. CASE AckOp
  <2>1. spc = "ack" /\ ops # <<>>
    BY <1>6 DEF AckOp, ResizeInv, AckInv
  <2>2. Head(ops) = ops[1] /\ ops[1] \in Op /\ Known(ops[1])
    BY <2>1, HeadIsKnown DEF ResizeInv, ConnectorTypeOK
  <2>3. "scheduler" \in Actors /\ ops[1].gen \in Nat
    BY <2>2 DEF Actors, Op
  <2>4. Claim("scheduler", ops[1].gen)
    BY <2>1, <2>2, SchedulerIsNoWorker DEF Claim, Known, ResizeInv, AckInv
  <2>5. Receive("scheduler", ops[1].gen) /\ UNCHANGED <<gen, goal, cur, last, mapped, torn, late>>
    BY <1>6, <2>2 DEF AckOp, AckReturns
  <2>6. late' \in SUBSET [actor : Actors, gen : Nat]
    BY <2>5 DEF ResizeInv, ConnectorTypeOK, CoordinatorTypeOK
  <2>7. \A w \in Workers : last[w] < gen /\ stage \in WorkerStages => stage' = stage
    BY <1>4, <2>3, <2>4, <2>5, <2>6
  <2> QED BY <1>2, <2>5, <2>7
<1>7. ASSUME NEW w \in Workers, WorkerAck(w)
      PROVE  /\ TornInv'
             /\ \A v \in torn : UNCHANGED <<gen, stage, goal>>
             /\ \A v \in torn' : v \in torn \/ wpc'[v] # "forward"
  <2>1. w \in Actors /\ wop[w].gen \in Nat
    BY DEF Actors, ResizeInv, ConnectorTypeOK, WorkerTypeOK, Op
  <2>2. Claim(w, wop[w].gen)
    <3>1. wop[w].gen = last[w] /\ last[w] <= gen
      BY <1>7 DEF WorkerAck, ResizeInv, WorkerInv, WorkerOps, WorkerCore
    <3> QED BY <2>1, <3>1, SchedulerIsNoWorker DEF Claim
  <2>3. Receive(w, wop[w].gen) /\ UNCHANGED <<gen, goal, cur, last, mapped, torn, late>>
    BY <1>7 DEF WorkerAck, AckReturns
  <2>4. late' \in SUBSET [actor : Actors, gen : Nat]
    BY <2>3 DEF ResizeInv, ConnectorTypeOK, CoordinatorTypeOK
  <2>5. \A v \in Workers : last[v] < gen /\ stage \in WorkerStages => stage' = stage
    BY <1>4, <2>1, <2>2, <2>3, <2>4
  <2> QED BY <1>2, <2>3, <2>5
<1>8. CASE \/ Poller \/ Sleep \/ StepWithRequests \/ ZeroTokenStep \/ ApplyOp \/ ApplyOpRaises
           \/ AckOpRaises \/ Dispatch \/ StepDone \/ StepFails \/ UNCHANGED vars
  <2>1. UNCHANGED <<gen, stage, goal, last, torn>>
    BY <1>8 DEF Poller, PollSend, PollMerge, PollFails, Sleep, StepWithRequests, ZeroTokenStep,
       StartStep, ApplyOp, ApplyOpRaises, AckOpRaises, AckRaises, Dispatch, StepDone, StepFails, vars
  <2> QED BY <1>2, <2>1
<1>9. ASSUME NEW w \in Workers,
             StartLoad(w) \/ StartLoadRaises(w) \/ WorkerAckRaises(w) \/ EndForward(w)
      PROVE  UNCHANGED <<gen, stage, goal, last, torn>>
  BY <1>9 DEF StartLoad, StartLoadRaises, WorkerAckRaises, AckRaises, EndForward
<1>10. ASSUME NEW w \in Workers, WorkerApply(w)
       PROVE  /\ TornInv'
              /\ \A v \in torn : UNCHANGED <<gen, stage, goal>>
              /\ \A v \in torn' : v \in torn \/ wpc'[v] # "forward"
  <2>1. UNCHANGED <<gen, stage, goal, torn>> /\ last' = [last EXCEPT ![w] = wop[w].gen]
    BY <1>10 DEF WorkerApply
  <2>2. w \in torn => wop[w].gen = last[w]
    BY <1>10 DEF WorkerApply, Acceptable
  <2>3. \A v \in torn : last'[v] = last[v]
    BY <2>1, <2>2 DEF TornInv, ResizeInv, ConnectorTypeOK, WorkerTypeOK
  <2> QED BY <2>1, <2>3 DEF TornInv
<1>11. ASSUME NEW w \in Workers, WorkerApplyRaises(w)
       PROVE  /\ TornInv'
              /\ \A v \in torn : UNCHANGED <<gen, stage, goal>>
              /\ \A v \in torn' : v \in torn \/ wpc'[v] # "forward"
  <2>1. UNCHANGED <<gen, stage, goal, last>> /\ wpc[w] = "apply"
    BY <1>11 DEF WorkerApplyRaises
  <2>2. torn' = torn \/ (torn' = torn \cup {w} /\ wop[w].gen # last[w])
    BY <1>11 DEF WorkerApplyRaises
  <2>3. wpc'[w] # "forward"
    BY <1>11 DEF WorkerApplyRaises, LoadRaises, WorkerGoto, ResizeInv, ConnectorTypeOK, WorkerTypeOK
  <2>4. wop[w].gen # last[w] => last[w] < gen /\ stage \in WorkerStages
    BY <2>1 DEF ResizeInv, WorkerInv, WorkerOps
  <2> QED BY <2>1, <2>2, <2>3, <2>4 DEF TornInv
<1>12. ASSUME NEW w \in Workers, Worker(w)
       PROVE  /\ TornInv'
              /\ \A v \in torn : UNCHANGED <<gen, stage, goal>>
              /\ \A v \in torn' : v \in torn \/ wpc'[v] # "forward"
  BY <1>2, <1>7, <1>9, <1>10, <1>11, <1>12 DEF Worker
<1> QED BY <1>3, <1>5, <1>6, <1>8, <1>12 DEF Next, Engine

LEMMA TornInvAlways == Spec => [](ResizeInv /\ TornInv)
<1>1. Init => TornInv
  BY DEF Init, TornInv
<1>2. ResizeInv /\ TornInv /\ [Next]_vars => TornInv'
  BY TornStep
<1> QED BY <1>1, <1>2, ResizeInvAlways, PTL DEF Spec

\* Every reachable state of the coordinator, the scheduler's connector and the
\* workers is well typed; in particular the pool always has a size that the
\* coordinator asked for.
THEOREM TypeCorrect == Spec => []TypeOK
<1>1. ResizeInv /\ TornInv => TypeOK
  BY DEF ResizeInv, TornInv, TypeOK
<1> QED BY <1>1, TornInvAlways, PTL

\* What the scheduler may hand out is mapped in every worker and backed by
\* physical memory, for any number of workers, sizes and resizes, any loss, delay or
\* repetition of acknowledgements and operations, and any failure in a worker.
THEOREM CapacityOrderHolds == Spec => []CapacityOrder
<1>1. ResizeInv => CapacityOrder
  BY OrderFromInv DEF ResizeInv, ConnectorTypeOK, WorkerInv, CapacityOrder, Backed
<1> QED BY <1>1, ResizeInvAlways, PTL

\* apply_worker_resize refuses an operation of the coordinator only in a worker where
\* a CUDA call or a zero check failed inside that operation; and the coordinator then
\* waits in that operation's stage, having neither committed it nor released its memory.
THEOREM StuckOnlyWhenTornHolds == Spec => []StuckOnlyWhenTorn
<1>1. ASSUME ResizeInv, NEW w \in Workers, wpc[w] = "apply", w \notin torn
      PROVE  Acceptable(w)
  <2>1. size \in Nat /\ goal \in Nat /\ gen \in Nat /\ last[w] \in Nat
    BY <1>1, SizesAreNaturals DEF ResizeInv, ConnectorTypeOK, CoordinatorTypeOK, WorkerTypeOK
  <2>2. CASE wop[w].gen = last[w]
    BY <2>2 DEF Acceptable
  <2>3. CASE last[w] < gen /\ stage \in WorkerStages /\ wop[w] = CurrentOp
    <3>1. wop[w].gen = gen /\ wop[w].stage = stage /\ wop[w].target = goal
      BY <2>3 DEF CurrentOp
    <3>2. mapped[w] = size
      BY <1>1, <2>1, <2>3 DEF ResizeInv, WorkerInv, WorkerCore
    <3> QED BY <1>1, <2>1, <2>3, <3>1, <3>2 DEF Acceptable, ResizeInv, StageInv, WorkerStages
  <2> QED BY <1>1, <2>2, <2>3 DEF ResizeInv, WorkerInv, WorkerOps
<1>2. ASSUME ResizeInv, TornInv, NEW w \in torn
      PROVE  stage \in WorkerStages /\ w \notin acks /\ last[w] < gen
  <2>1. gen \in Nat /\ w \in Workers /\ last[w] \in Nat
    BY <1>2 DEF TornInv, ResizeInv, ConnectorTypeOK, CoordinatorTypeOK, WorkerTypeOK
  <2>2. last[w] < gen /\ stage \in WorkerStages
    BY <1>2 DEF TornInv
  <2> QED BY <1>2, <2>1, <2>2 DEF ResizeInv, WorkerInv, WorkerCore
<1>3. ResizeInv /\ TornInv => StuckOnlyWhenTorn
  BY <1>1, <1>2 DEF StuckOnlyWhenTorn
<1> QED BY <1>3, TornInvAlways, PTL

\* The step behind ResizedOnce: only ApplyOp changes the pool, and when its
\* operation is not of the resize under way its target is in force already.
LEMMA ResizedOnceStep ==
  ASSUME ResizeInv, [Next]_vars, cur' # cur
  PROVE  stage \in SchedulerStages /\ cur = size /\ cur' = goal
<1>1. ApplyOp
  BY DEF Next, vars, poolVars, StartResize, LateAck, Poller, PollSend, PollMerge, PollFails,
     Engine, Sleep, StepWithRequests, ZeroTokenStep, StartStep, ApplyOpRaises, AckOp, AckOpRaises,
     Dispatch, StepDone, StepFails, Worker, StartLoad, StartLoadRaises, WorkerApply,
     WorkerApplyRaises, WorkerAck, WorkerAckRaises, EndForward
<1>2. /\ Head(ops) = ops[1]
      /\ ops[1] \in Op
      /\ Known(ops[1])
  BY <1>1, HeadIsKnown DEF ApplyOp, ResizeInv, ConnectorTypeOK
<1>3. size \in Nat /\ goal \in Nat /\ gen \in Nat /\ ops[1].gen \in Nat
  BY <1>2, SizesAreNaturals DEF ResizeInv, ConnectorTypeOK, CoordinatorTypeOK, Op
<1>4. cur' = ops[1].target
  BY <1>1, <1>2 DEF ApplyOp
<1> QED
  BY <1>2, <1>3, <1>4 DEF Known, ResizeInv, StageInv, ConnectorTypeOK, CoordinatorTypeOK, Stages,
       SchedulerStages

\* The block pool changes size once per resize, whatever is delivered twice.
THEOREM ResizedOnceHolds == Spec => ResizedOnce
<1>1. ResizeInv /\ [Next]_vars =>
        [cur' # cur => stage \in SchedulerStages /\ cur = size /\ cur' = goal]_vars
  BY ResizedOnceStep
<1> QED BY <1>1, ResizeInvAlways, PTL DEF Spec, ResizedOnce

-----------------------------------------------------------------------------
(* The detailed specification implements ResizeContract                    *)

ContractView == <<stage, goal, size, phys, cur, mapped>>

LEMMA ViewUnchanged ==
  ASSUME UNCHANGED ContractView PROVE UNCHANGED Contract!vars
BY DEF ContractView, Contract!vars

LEMMA ContractStart ==
  ASSUME ResizeInv, StartResize PROVE Contract!Next
<1> USE DEF StartResize, poolVars, workerVars
<1>1. size \in Nat /\ gen \in Nat
  BY SizesAreNaturals DEF ResizeInv, ConnectorTypeOK, CoordinatorTypeOK
<1>2. PICK n \in Sizes \ {size} :
        /\ goal' = n
        /\ stage' = IF n > size THEN "map_workers" ELSE "retire_scheduler"
        /\ phys' = IF n > size THEN n ELSE phys
  OBVIOUS
<1>3. n \in Nat /\ n # size
  BY SizesAreNaturals
<1>4. phys = size /\ stage = "stable" /\ UNCHANGED <<size, mapped, cur>>
  BY DEF ResizeInv, StageInv
<1>5. CASE n > size
  <2>1. Contract!StartGrow
    BY <1>1, <1>2, <1>3, <1>4, <1>5 DEF Contract!StartGrow
  <2> QED BY <2>1 DEF Contract!Next
<1>6. CASE ~(n > size)
  <2>1. Contract!StartShrink
    BY <1>1, <1>2, <1>3, <1>4, <1>6 DEF Contract!StartShrink
  <2> QED BY <2>1 DEF Contract!Next
<1> QED BY <1>5, <1>6

\* The pool moves only when every worker has mapped the new blocks, or while
\* every worker still has the old ones.
LEMMA ContractApply ==
  ASSUME ResizeInv, ApplyOp, cur' # cur PROVE Contract!Next
<1>1. stage \in SchedulerStages /\ cur = size /\ cur' = goal
  BY ResizedOnceStep DEF Next, Engine
<1>2. size \in Nat /\ goal \in Nat /\ gen \in Nat
  BY SizesAreNaturals DEF ResizeInv, ConnectorTypeOK, CoordinatorTypeOK
<1>3. UNCHANGED <<stage, goal, size, phys, mapped>>
  BY DEF ApplyOp, coVars, workerVars
<1>4. CASE stage = "activate_scheduler"
  <2>1. goal > size /\ phys = goal /\ \A w \in Workers : mapped[w] = goal
    BY <1>4 DEF ResizeInv, StageInv, WorkerInv, WorkerCore
  <2>2. Contract!Expose
    BY <1>1, <1>2, <1>3, <1>4, <2>1 DEF Contract!Expose
  <2> QED BY <2>2 DEF Contract!Next
<1>5. CASE stage = "retire_scheduler"
  <2>1. goal < size /\ phys = size
    BY <1>5 DEF ResizeInv, StageInv
  <2>2. Contract!Retire
    BY <1>1, <1>2, <1>3, <1>5, <2>1 DEF Contract!Retire
  <2> QED BY <2>2 DEF Contract!Next
<1> QED BY <1>1, <1>4, <1>5 DEF SchedulerStages

LEMMA ContractWorkerApply ==
  ASSUME ResizeInv, NEW w \in Workers, WorkerApply(w)
  PROVE  Contract!Next \/ UNCHANGED ContractView
<1>1. WorkerTypeOK /\ WorkerCore /\ WorkerOps /\ CoordinatorTypeOK
  BY DEF ResizeInv, ConnectorTypeOK, WorkerInv
<1>2. size \in Nat /\ goal \in Nat /\ gen \in Nat /\ last[w] \in Nat
  BY <1>1, SizesAreNaturals DEF CoordinatorTypeOK, WorkerTypeOK
<1>3. UNCHANGED <<stage, goal, size, phys, cur>> /\ wpc[w] = "apply"
  BY DEF WorkerApply, coVars, poolVars
<1>4. CASE wop[w].gen = last[w]
  BY <1>3, <1>4 DEF WorkerApply, ContractView
<1>5. CASE wop[w].gen # last[w]
  <2>1. last[w] < gen /\ stage \in WorkerStages /\ wop[w].target = goal
    BY <1>1, <1>3, <1>5 DEF WorkerOps, CurrentOp
  <2>2. mapped' = [mapped EXCEPT ![w] = goal] /\ mapped[w] = size
    BY <1>1, <1>2, <1>5, <2>1 DEF WorkerApply, WorkerCore
  <2>3. CASE stage = "map_workers"
    <3>1. goal > size /\ phys = goal
      BY <2>3 DEF ResizeInv, StageInv
    <3>2. Contract!Map(w)
      BY <1>2, <1>3, <2>2, <2>3, <3>1 DEF Contract!Map
    <3> QED BY <3>2 DEF Contract!Next
  <2>4. CASE stage = "unmap_workers"
    <3>1. goal < size /\ cur = goal
      BY <2>4 DEF ResizeInv, StageInv
    <3>2. Contract!Unmap(w)
      BY <1>2, <1>3, <2>2, <2>4, <3>1 DEF Contract!Unmap
    <3> QED BY <3>2 DEF Contract!Next
  <2> QED BY <2>1, <2>3, <2>4 DEF WorkerStages
<1> QED BY <1>4, <1>5

\* An acknowledgement ends the resize only when the pool and every worker have
\* reached the goal.
LEMMA ContractReceive ==
  ASSUME ResizeInv, NEW a \in Actors, NEW g \in Nat, Claim(a, g), Receive(a, g),
         UNCHANGED <<goal, cur, mapped>>
  PROVE  Contract!Next \/ UNCHANGED ContractView \/ UNCHANGED Contract!vars
<1>1. size \in Nat /\ goal \in Nat /\ gen \in Nat /\ \A w \in Workers : last[w] \in Nat
  BY SizesAreNaturals DEF ResizeInv, ConnectorTypeOK, CoordinatorTypeOK, WorkerTypeOK
<1>2. CASE ~Expected(a, g)
  BY <1>2 DEF Receive, ContractView
<1>3. CASE Expected(a, g) /\ stage = "retire_scheduler"
  BY <1>1, <1>3 DEF Receive, Contract!vars, ResizeInv, StageInv
<1>4. CASE Expected(a, g) /\ stage = "activate_scheduler"
  <2>1. cur = goal /\ phys = goal /\ goal > size
    BY <1>4 DEF Expected, Claim, WorkerStages, Actors, ResizeInv, StageInv
  <2>2. stage' = "stable" /\ UNCHANGED phys
    BY <1>4 DEF Receive
  <2>3. Contract!EndGrow
    BY <1>1, <1>4, <2>1, <2>2 DEF Contract!EndGrow
  <2> QED BY <2>3 DEF Contract!Next
<1>5. CASE Expected(a, g) /\ stage \in WorkerStages
  <2>1. a \in Workers /\ last[a] = gen
    BY <1>1, <1>5, SchedulerIsNoWorker
       DEF Expected, Claim, WorkerStages, SchedulerStages, Actors, ResizeInv, WorkerInv, WorkerCore
  <2>2. CASE acks \cup {a} # Workers
    BY <1>5, <2>2 DEF Receive, WorkerStages, ContractView
  <2>3. CASE acks \cup {a} = Workers /\ stage = "map_workers"
    <3>1. goal > size
      BY <2>3 DEF ResizeInv, StageInv
    <3>2. stage' = "activate_scheduler" /\ UNCHANGED <<size, phys>>
      BY <1>5, <2>3 DEF Receive
    <3> QED BY <1>1, <2>3, <3>1, <3>2 DEF Contract!vars
  <2>4. CASE acks \cup {a} = Workers /\ stage = "unmap_workers"
    <3>1. \A w \in Workers : mapped[w] = goal
      BY <1>5, <2>1, <2>4 DEF ResizeInv, WorkerInv, WorkerCore
    <3>2. cur = goal /\ goal < size /\ phys = size
      BY <2>4 DEF ResizeInv, StageInv
    <3>3. stage' = "stable" /\ phys' = goal
      BY <1>5, <2>4 DEF Receive
    <3>4. Contract!EndShrink
      BY <1>1, <2>4, <3>1, <3>2, <3>3 DEF Contract!EndShrink
    <3> QED BY <3>4 DEF Contract!Next
  <2> QED BY <1>5, <2>2, <2>3, <2>4 DEF WorkerStages
<1> QED
  BY <1>2, <1>3, <1>4, <1>5 DEF Expected, WorkerStages, SchedulerStages

LEMMA ContractStep == ResizeInv /\ [Next]_vars => [Contract!Next]_(Contract!vars)
<1> SUFFICES ASSUME ResizeInv, [Next]_vars
             PROVE  Contract!Next \/ UNCHANGED ContractView \/ UNCHANGED Contract!vars
  BY ViewUnchanged
<1>1. CASE StartResize
  BY <1>1, ContractStart
<1>2. CASE LateAck
  <2>1. PICK m \in late : Receive(m.actor, m.gen) /\ UNCHANGED <<goal, cur, mapped>>
    BY <1>2 DEF LateAck, poolVars, workerVars
  <2>2. m.actor \in Actors /\ m.gen \in Nat /\ Claim(m.actor, m.gen)
    BY DEF ResizeInv, ConnectorTypeOK, CoordinatorTypeOK, LateInv
  <2> QED BY <2>1, <2>2, ContractReceive
<1>3. CASE AckOp
  <2>1. spc = "ack" /\ ops # <<>>
    BY <1>3 DEF AckOp, ResizeInv, AckInv
  <2>2. Head(ops) = ops[1] /\ ops[1] \in Op /\ Known(ops[1])
    BY <2>1, HeadIsKnown DEF ResizeInv, ConnectorTypeOK
  <2>3. "scheduler" \in Actors /\ ops[1].gen \in Nat
    BY <2>2 DEF Actors, Op
  <2>4. Claim("scheduler", ops[1].gen)
    BY <2>1, <2>2, SchedulerIsNoWorker DEF Claim, Known, ResizeInv, AckInv
  <2>5. Receive("scheduler", ops[1].gen) /\ UNCHANGED <<goal, cur, mapped>>
    BY <1>3, <2>2 DEF AckOp, AckReturns, poolVars, workerVars
  <2> QED BY <2>3, <2>4, <2>5, ContractReceive
<1>4. CASE ApplyOp
  <2>1. UNCHANGED <<stage, goal, size, phys, mapped>>
    BY <1>4 DEF ApplyOp, coVars, workerVars
  <2> QED BY <1>4, <2>1, ContractApply DEF ContractView
<1>5. ASSUME NEW w \in Workers, WorkerApply(w)
      PROVE  Contract!Next \/ UNCHANGED ContractView
  BY <1>5, ContractWorkerApply
<1>6. ASSUME NEW w \in Workers, WorkerAck(w)
      PROVE  Contract!Next \/ UNCHANGED ContractView \/ UNCHANGED Contract!vars
  <2>1. w \in Actors /\ wop[w].gen \in Nat
    BY DEF Actors, ResizeInv, ConnectorTypeOK, WorkerTypeOK, Op
  <2>2. Claim(w, wop[w].gen)
    <3>1. wop[w].gen = last[w] /\ last[w] <= gen
      BY <1>6 DEF WorkerAck, ResizeInv, WorkerInv, WorkerOps, WorkerCore
    <3> QED BY <2>1, <3>1, SchedulerIsNoWorker DEF Claim
  <2>3. Receive(w, wop[w].gen) /\ UNCHANGED <<goal, cur, mapped>>
    BY <1>6 DEF WorkerAck, AckReturns, poolVars
  <2> QED BY <2>1, <2>2, <2>3, ContractReceive
<1>7. CASE \/ Poller \/ Sleep \/ StepWithRequests \/ ZeroTokenStep \/ ApplyOpRaises \/ AckOpRaises
           \/ Dispatch \/ StepDone \/ StepFails \/ UNCHANGED vars
  BY <1>7 DEF ContractView, Poller, PollSend, PollMerge, PollFails, Sleep, StepWithRequests,
     ZeroTokenStep, StartStep, ApplyOpRaises, AckOpRaises, AckRaises, Dispatch, StepDone, StepFails,
     vars, coVars, poolVars, workerVars
<1>8. ASSUME NEW w \in Workers,
             \/ StartLoad(w) \/ StartLoadRaises(w) \/ WorkerApplyRaises(w)
             \/ WorkerAckRaises(w) \/ EndForward(w)
      PROVE  UNCHANGED ContractView
  BY <1>8 DEF ContractView, StartLoad, StartLoadRaises, WorkerApplyRaises, WorkerAckRaises,
     AckRaises, EndForward, coVars, poolVars
<1> QED
  BY <1>1, <1>2, <1>3, <1>4, <1>5, <1>6, <1>7, <1>8 DEF Next, Engine, Worker

\* Polls, replays, lost and late acknowledgements and engine steps together take
\* only the steps of a resize without messages: memory, then every worker's
\* mapping, then the scheduler, and back in the opposite order.
THEOREM ImplementsContractHolds == Spec => ImplementsContract
<1>1. Init => Contract!Init
  BY DEF Init, Contract!Init
<1> QED
  BY <1>1, ContractStep, ResizeInvAlways, PTL DEF Spec, ImplementsContract, Contract!Spec

-----------------------------------------------------------------------------
(* A forward pass touches mapped blocks only                               *)

LEMMA AccessInvInit == Init => AccessInv
<1> SUFFICES ASSUME Init PROVE AccessInv
  OBVIOUS
<1>1. ResizeInv
  BY ResizeInvInit
<1>2. \A w \in Workers : queue[w] = <<>> /\ wpc[w] = "idle" /\ Len(queue[w]) = 0
  BY EmptySeq DEF Init
<1>3. used = {} /\ spc = "top"
  BY DEF Init
<1>4. PassInv
  BY <1>2, <1>3, LeaderIsWorker DEF PassInv, LeaderStep, PassToCome, LeaderLast
<1>5. PassesMapped
  BY <1>2 DEF PassesMapped
<1> QED BY <1>1, <1>4, <1>5 DEF AccessInv

\* A worker that enters its forward pass has the blocks of its step mapped.
LEMMA PassIsMapped ==
  ASSUME ResizeInv, PassInv, NEW w \in Workers
  PROVE  /\ \A k \in 1..Len(queue[w]) : queue[w][k] \subseteq Tail0(1, mapped[w])
         /\ wpc[w] \in {"apply", "ack"} => batch[w] \subseteq Tail0(1, mapped[w])
<1>1. cur \in Nat /\ mapped[w] \in Nat
  BY SizesAreNaturals DEF ResizeInv, ConnectorTypeOK, SchedulerTypeOK, WorkerTypeOK
<1>2. cur <= mapped[w]
  BY OrderFromInv DEF ResizeInv, ConnectorTypeOK, WorkerInv
<1>3. Tail0(1, cur) \subseteq Tail0(1, mapped[w])
  BY <1>1, <1>2 DEF Tail0
<1>4. used \subseteq Tail0(1, mapped[w])
  BY <1>3 DEF PassInv
<1> QED BY <1>4 DEF PassInv, PassToCome

\* The coordinator and the heartbeat thread touch neither the engine's step nor
\* a worker's.
LEMMA AccessInvOthers ==
  ASSUME AccessInv, UNCHANGED <<poolVars, engineVars, workerVars>>
  PROVE  PassInv' /\ PassesMapped'
BY DEF AccessInv, PassInv, LeaderStep, PassToCome, LeaderLast, PassesMapped, poolVars,
       engineVars, workerVars

\* The engine outside the wait for its step: no pass with requests is to come,
\* so the blocks in use and the pool may change.
LEMMA AccessInvEngine ==
  ASSUME AccessInv, spc # "wait", spc' # "wait", UNCHANGED workerVars,
         used' \subseteq Tail0(1, cur')
  PROVE  PassInv' /\ PassesMapped'
BY DEF AccessInv, PassInv, LeaderStep, PassToCome, LeaderLast, PassesMapped, workerVars

LEMMA AccessInvApply == ASSUME AccessInv, ApplyOp PROVE PassInv' /\ PassesMapped'
<1>1. spc # "wait" /\ spc' # "wait" /\ UNCHANGED workerVars /\ used' = used
  BY DEF ApplyOp
<1>2. cur \in Nat /\ cur' = Head(ops).target /\ Tail0(cur', cur) \cap used = {}
  BY SizesAreNaturals DEF ApplyOp, AccessInv, ResizeInv, ConnectorTypeOK, SchedulerTypeOK
<1>3. cur' \in Nat
  BY ResizeInvApply, SizesAreNaturals DEF AccessInv, ResizeInv, ConnectorTypeOK, SchedulerTypeOK
<1>4. used \subseteq Tail0(1, cur)
  BY DEF AccessInv, PassInv
<1>5. used' \subseteq Tail0(1, cur')
  BY <1>1, <1>2, <1>3, <1>4 DEF Tail0
<1> QED BY <1>1, <1>5, AccessInvEngine

LEMMA AccessInvDispatch == ASSUME AccessInv, Dispatch PROVE PassInv' /\ PassesMapped'
<1>1. /\ spc = "meta" /\ spc' = "wait"
      /\ queue' = [w \in Workers |-> Append(queue[w], used)]
      /\ UNCHANGED <<cur, used, wpc, batch, mapped>>
  BY DEF Dispatch, poolVars
<1>2. \A w \in Workers : queue[w] \in Seq(SUBSET Nat) /\ Len(queue[w]) \in Nat
  BY LenProperties DEF AccessInv, ResizeInv, ConnectorTypeOK, WorkerTypeOK
<1>3. used \in SUBSET Nat
  BY DEF AccessInv, ResizeInv, ConnectorTypeOK, SchedulerTypeOK
<1>4. \A w \in Workers :
        /\ queue'[w] # <<>>
        /\ Len(queue'[w]) = Len(queue[w]) + 1
        /\ queue'[w][Len(queue[w]) + 1] = used
        /\ \A k \in 1..Len(queue[w]) : queue'[w][k] = queue[w][k]
  <2> SUFFICES ASSUME NEW w \in Workers
               PROVE  LET q == Append(queue[w], used)
                      IN  /\ q # <<>>
                          /\ Len(q) = Len(queue[w]) + 1
                          /\ q[Len(queue[w]) + 1] = used
                          /\ \A k \in 1..Len(queue[w]) : q[k] = queue[w][k]
    BY <1>1
  <2> QED BY <1>2, <1>3, AppendProperties
<1>5. queue[Leader] = <<>> /\ wpc[Leader] = "idle"
  BY <1>1 DEF AccessInv, PassInv, LeaderStep
<1>6. LeaderStep'
  <2>1. queue'[Leader] = <<used>>
    <3>1. queue'[Leader] = Append(<<>>, used)
      BY <1>1, <1>5, LeaderIsWorker
    <3>2. Append(<<>>, used) = <<used>>
      OBVIOUS
    <3> QED BY <3>1, <3>2
  <2> QED BY <1>1, <1>5, <2>1 DEF LeaderStep
<1>7. PassToCome'
  <2> SUFFICES ASSUME NEW w \in Workers
               PROVE  /\ \A k \in 1..Len(queue'[w]) : queue'[w][k] # {} => queue'[w][k] = used
                      /\ wpc[w] \in {"apply", "ack"} /\ batch[w] # {} => batch[w] = used
    BY <1>1 DEF PassToCome
  <2>1. \A k \in 1..Len(queue'[w]) : k \in 1..Len(queue[w]) \/ k = Len(queue[w]) + 1
    BY <1>2, <1>4
  <2> QED BY <1>1, <1>4, <2>1 DEF AccessInv, PassInv, PassToCome
<1>8. LeaderLast'
  BY <1>4, LeaderIsWorker DEF LeaderLast
<1>9. used' \subseteq Tail0(1, cur') /\ PassesMapped'
  BY <1>1 DEF AccessInv, PassInv, PassesMapped
<1> QED BY <1>6, <1>7, <1>8, <1>9 DEF PassInv

\* The engine leaves its step: no rank has a pass with requests before it.
LEMMA AccessInvStepEnds ==
  ASSUME AccessInv, StepDone \/ StepFails PROVE PassInv' /\ PassesMapped'
<1>1. /\ spc = "wait" /\ spc' = "top" /\ used' \subseteq used
      /\ UNCHANGED <<cur, queue, batch, mapped>>
  BY DEF StepDone, StepFails, poolVars, workerVars
<1>2. used' \subseteq Tail0(1, cur')
  BY <1>1 DEF AccessInv, PassInv
<1>3. CASE StepDone
  <2>1. queue[Leader] = <<>> /\ wpc[Leader] = "idle" /\ wpc' = wpc
    BY <1>3 DEF StepDone, workerVars
  <2>2. \A w \in Workers :
          /\ \A k \in 1..Len(queue[w]) : queue[w][k] = {}
          /\ wpc[w] \in {"apply", "ack"} => batch[w] = {}
    <3>1. CASE used = {}
      BY <3>1 DEF AccessInv, PassInv, PassToCome
    <3>2. CASE used # {}
      <4>1. \A w \in Workers : Len(queue[w]) = 0 /\ wpc[w] \in {"idle", "forward"}
        BY <1>1, <2>1, <3>2, EmptySeq DEF AccessInv, PassInv, LeaderLast
      <4> QED BY <4>1
    <3> QED BY <3>1, <3>2
  <2> QED
    BY <1>1, <1>2, <2>1, <2>2 DEF AccessInv, PassInv, LeaderStep, PassToCome, LeaderLast,
         PassesMapped
<1>4. CASE StepFails
  <2>1. wpc[Leader] = "raised" /\ wpc' = [wpc EXCEPT ![Leader] = "idle"]
    BY <1>4 DEF StepFails
  <2>2. queue[Leader] = <<>>
    BY <1>1, <2>1 DEF AccessInv, PassInv, LeaderStep
  <2>3. \A w \in Workers : queue[w] = <<>> /\ wpc'[w] = "idle"
    BY <1>4, <2>1, <2>2, LeaderIsWorker
       DEF StepFails, AccessInv, ResizeInv, ConnectorTypeOK, WorkerTypeOK
  <2>4. \A w \in Workers : Len(queue[w]) = 0
    BY <2>3, EmptySeq
  <2> QED
    BY <1>1, <1>2, <2>3, <2>4, LeaderIsWorker DEF PassInv, LeaderStep, PassToCome, LeaderLast,
         PassesMapped
<1> QED BY <1>3, <1>4

\* A worker takes its next step from the queue.
LEMMA AccessInvTake ==
  ASSUME AccessInv, NEW w \in Workers, StartLoad(w) \/ StartLoadRaises(w)
  PROVE  PassInv' /\ PassesMapped'
<1>1. /\ wpc[w] = "idle" /\ queue[w] # <<>>
      /\ queue' = [queue EXCEPT ![w] = Tail(queue[w])]
      /\ UNCHANGED <<cur, used, spc, mapped>>
  BY DEF StartLoad, StartLoadRaises, poolVars, engineVars
<1>2. WorkerTypeOK /\ ResizeInv /\ PassInv
  BY DEF AccessInv, ResizeInv, ConnectorTypeOK
<1>3. /\ queue[w] \in Seq(SUBSET Nat) /\ Len(queue[w]) \in Nat /\ 1 \in 1..Len(queue[w])
      /\ Head(queue[w]) = queue[w][1]
      /\ Len(queue'[w]) = Len(queue[w]) - 1
      /\ \A k \in 1..Len(queue'[w]) : queue'[w][k] = queue[w][k + 1]
  BY <1>1, <1>2, LenProperties, EmptySeq, HeadTailProperties DEF WorkerTypeOK
<1>4. \E to \in {"idle", "apply", "forward", "raised"}, b \in {{}, queue[w][1]} :
        /\ wpc' = [wpc EXCEPT ![w] = to]
        /\ batch' = [batch EXCEPT ![w] = b]
        /\ to \in {"apply", "forward"} => b = queue[w][1]
        /\ to = "idle" => b = {}
        /\ to = "idle" => queue[w][1] = {} \/ w # Leader
        /\ to = "raised" => w = Leader
  <2>1. CASE StartLoad(w)
    <3>1. batch' = [batch EXCEPT ![w] = queue[w][1]] /\ batch'[w] = queue[w][1]
      BY <1>2, <1>3, <2>1 DEF StartLoad, WorkerTypeOK
    <3>2. LoadEnds(w) \/ WorkerGoto(w, "apply")
      BY <2>1 DEF StartLoad
    <3> QED BY <3>1, <3>2 DEF LoadEnds, WorkerGoto
  <2>2. CASE StartLoadRaises(w)
    BY <2>2 DEF StartLoadRaises, LoadRaises, WorkerGoto
  <2> QED BY <2>1, <2>2
<1>5. PICK to \in {"idle", "apply", "forward", "raised"}, b \in {{}, queue[w][1]} :
        /\ wpc' = [wpc EXCEPT ![w] = to]
        /\ batch' = [batch EXCEPT ![w] = b]
        /\ to \in {"apply", "forward"} => b = queue[w][1]
        /\ to = "idle" => b = {}
        /\ to = "idle" => queue[w][1] = {} \/ w # Leader
        /\ to = "raised" => w = Leader
  BY <1>4
<1>6. wpc'[w] = to /\ batch'[w] = b
  BY <1>2, <1>5 DEF WorkerTypeOK
<1>7. \A v \in Workers \ {w} : wpc'[v] = wpc[v] /\ batch'[v] = batch[v] /\ queue'[v] = queue[v]
  BY <1>1, <1>2, <1>5 DEF WorkerTypeOK
<1>8. w = Leader => spc = "wait" /\ queue[w] = <<used>> /\ queue[w][1] = used /\ queue'[w] = <<>>
  <2> SUFFICES ASSUME w = Leader
               PROVE  spc = "wait" /\ queue[w] = <<used>> /\ queue[w][1] = used /\ queue'[w] = <<>>
    OBVIOUS
  <2>1. spc = "wait" /\ queue[w] = <<used>>
    BY <1>1, <1>2 DEF PassInv, LeaderStep
  <2>2. queue'[w] = Tail(queue[w])
    BY <1>1, <1>2 DEF WorkerTypeOK
  <2> QED BY <2>1, <2>2
<1>9. LeaderStep'
  BY <1>1, <1>2, <1>5, <1>6, <1>7, <1>8, LeaderIsWorker DEF PassInv, LeaderStep
<1>10. PassToCome'
  <2>1. \A k \in 1..Len(queue'[w]) : k + 1 \in 1..Len(queue[w])
    BY <1>3
  <2>2. \A k \in 1..Len(queue'[w]) : queue'[w][k] # {} => spc = "wait" /\ queue'[w][k] = used
    BY <1>2, <1>3, <2>1 DEF PassInv, PassToCome
  <2>3. b # {} => spc = "wait" /\ b = used
    BY <1>2, <1>3, <1>5 DEF PassInv, PassToCome
  <2> QED BY <1>1, <1>2, <1>6, <1>7, <2>2, <2>3 DEF PassInv, PassToCome
<1>11. LeaderLast'
  <2>1. CASE w = Leader
    BY <1>1, <1>5, <1>6, <1>8, <2>1 DEF LeaderLast
  <2>2. CASE w # Leader
    BY <1>1, <1>2, <1>7, <2>2, LeaderIsWorker DEF PassInv, LeaderLast
  <2> QED BY <2>1, <2>2
<1>12. PassesMapped'
  <2>1. queue[w][1] \subseteq Tail0(1, mapped[w])
    BY <1>2, <1>3, PassIsMapped
  <2> QED BY <1>1, <1>5, <1>6, <1>7, <2>1 DEF AccessInv, PassesMapped
<1> QED BY <1>1, <1>2, <1>9, <1>10, <1>11, <1>12 DEF PassInv

\* A worker goes on in its step.
LEMMA AccessInvWork ==
  ASSUME AccessInv, NEW w \in Workers,
         \/ WorkerApply(w) \/ WorkerApplyRaises(w) \/ WorkerAck(w) \/ WorkerAckRaises(w)
         \/ EndForward(w)
  PROVE  PassInv' /\ PassesMapped'
<1>1. wpc[w] \in {"apply", "ack", "forward"} /\ UNCHANGED <<cur, used, spc, queue>>
  BY DEF WorkerApply, WorkerApplyRaises, WorkerAck, WorkerAckRaises, EndForward, poolVars, engineVars
<1>2. WorkerTypeOK /\ ResizeInv /\ PassInv
  BY DEF AccessInv, ResizeInv, ConnectorTypeOK
<1>3. \A v \in Workers \ {w} : wpc'[v] = wpc[v] /\ batch'[v] = batch[v] /\ mapped'[v] = mapped[v]
  BY <1>2 DEF WorkerApply, WorkerApplyRaises, WorkerAck, WorkerAckRaises, EndForward, WorkerTypeOK,
     WorkerGoto, LoadEnds, LoadRaises
<1>4. \/ wpc[w] = "apply" /\ wpc'[w] = "ack" /\ batch'[w] = batch[w]
      \/ wpc[w] = "ack" /\ wpc'[w] = "forward" /\ batch'[w] = batch[w] /\ mapped'[w] = mapped[w]
      \/ w = Leader /\ wpc'[w] = "raised"
      \/ /\ wpc'[w] = "idle"
         /\ \/ w # Leader
            \/ wpc[w] = "ack" /\ batch[w] = {}
            \/ \A v \in Workers : queue[v] = <<>> /\ wpc[v] \in {"idle", "forward"}
  BY <1>2 DEF WorkerApply, WorkerApplyRaises, WorkerAck, WorkerAckRaises, EndForward, WorkerTypeOK,
     WorkerGoto, LoadEnds, LoadRaises
<1>5. LeaderStep'
  BY <1>1, <1>2, <1>3, <1>4, LeaderIsWorker DEF PassInv, LeaderStep
<1>6. PassToCome'
  BY <1>1, <1>2, <1>3, <1>4 DEF PassInv, PassToCome
<1>7. LeaderLast'
  <2>1. CASE w # Leader
    <3>1. CASE LeaderLast /\ spc = "wait" /\ used # {} /\ queue[Leader] = <<>> /\ wpc[Leader] = "idle"
      BY <1>1, <1>3, <1>4, <2>1, <3>1 DEF LeaderLast
    <3> QED BY <1>1, <1>2, <1>3, <2>1, <3>1, LeaderIsWorker DEF PassInv, LeaderLast
  <2>2. CASE w = Leader /\ wpc'[w] # "idle"
    BY <2>2 DEF LeaderLast
  <2>3. CASE w = Leader /\ wpc[w] = "ack" /\ batch[w] = {}
    BY <1>1, <1>2, <2>3 DEF PassInv, LeaderStep, LeaderLast
  <2>4. CASE /\ w = Leader /\ wpc'[w] = "idle"
             /\ \A v \in Workers : queue[v] = <<>> /\ wpc[v] \in {"idle", "forward"}
    BY <1>1, <1>3, <2>4 DEF LeaderLast
  <2> QED BY <1>4, <2>1, <2>2, <2>3, <2>4
<1>8. PassesMapped'
  <2>1. wpc[w] = "ack" => batch[w] \subseteq Tail0(1, mapped[w])
    BY <1>2, PassIsMapped
  <2> QED BY <1>3, <1>4, <2>1 DEF AccessInv, PassesMapped
<1> QED BY <1>1, <1>2, <1>5, <1>6, <1>7, <1>8 DEF PassInv

LEMMA AccessInvStep == AccessInv /\ [Next]_vars => AccessInv'
<1> SUFFICES ASSUME AccessInv, [Next]_vars PROVE PassInv' /\ PassesMapped'
  BY ResizeInvStep DEF AccessInv
<1>1. CASE StartResize \/ LateAck \/ Poller \/ UNCHANGED vars
  BY <1>1, AccessInvOthers DEF StartResize, LateAck, Poller, PollSend, PollMerge, PollFails, vars
<1>2. CASE StepWithRequests \/ ZeroTokenStep
  <2>1. PICK new \in SUBSET Tail0(1, cur) : StartStep(new)
    BY <1>2 DEF StepWithRequests, ZeroTokenStep
  <2>2. used' \subseteq Tail0(1, cur') /\ spc' = "meta" /\ UNCHANGED workerVars
    BY <2>1 DEF StartStep, AccessInv, PassInv
  <2>3. spc # "wait"
    BY <1>2 DEF StepWithRequests, ZeroTokenStep
  <2> QED BY <2>2, <2>3, AccessInvEngine
<1>3. CASE Sleep \/ ApplyOpRaises \/ AckOp \/ AckOpRaises
  <2>1. UNCHANGED <<poolVars, workerVars>> /\ spc # "wait" /\ spc' # "wait"
    BY <1>3 DEF Sleep, ApplyOpRaises, AckOp, AckOpRaises, StepRaises
  <2>2. used' \subseteq Tail0(1, cur')
    BY <2>1 DEF poolVars, AccessInv, PassInv
  <2> QED BY <2>1, <2>2, AccessInvEngine
<1>4. CASE ApplyOp
  BY <1>4, AccessInvApply
<1>5. CASE Dispatch
  BY <1>5, AccessInvDispatch
<1>6. CASE StepDone \/ StepFails
  BY <1>6, AccessInvStepEnds
<1>7. ASSUME NEW w \in Workers, Worker(w) PROVE PassInv' /\ PassesMapped'
  BY <1>7, AccessInvTake, AccessInvWork DEF Worker
<1> QED BY <1>1, <1>2, <1>3, <1>4, <1>5, <1>6, <1>7 DEF Next, Engine

\* A worker enters its forward pass with blocks of the pool only.
LEMMA EntersPass ==
  ASSUME AccessInv, [Next]_vars, NEW w \in Workers, wpc'[w] = "forward"
  PROVE  (wpc[w] = "forward" /\ batch'[w] = batch[w]) \/ batch'[w] \subseteq Tail0(1, cur')
<1>1. WorkerTypeOK /\ PassInv
  BY DEF AccessInv, ResizeInv, ConnectorTypeOK
<1>2. ASSUME \A v \in Workers : ~Worker(v) PROVE wpc[w] = "forward" /\ batch'[w] = batch[w]
  BY <1>1, <1>2, LeaderIsWorker DEF Next, vars, workerVars, WorkerTypeOK, StartResize, LateAck, Poller,
     PollSend, PollMerge, PollFails, Engine, Sleep, StepWithRequests, ZeroTokenStep, StartStep, ApplyOp,
     ApplyOpRaises, AckOp, AckOpRaises, Dispatch, StepDone, StepFails
<1>3. ASSUME NEW v \in Workers, Worker(v), v # w
      PROVE  wpc[w] = "forward" /\ batch'[w] = batch[w]
  BY <1>1, <1>3 DEF Worker, StartLoad, StartLoadRaises, WorkerApply, WorkerApplyRaises, WorkerAck,
     WorkerAckRaises, EndForward, WorkerTypeOK, LoadEnds, LoadRaises, WorkerGoto
<1>4. CASE StartLoad(w)
  <2>1. queue[w] # <<>> /\ batch'[w] = Head(queue[w]) /\ UNCHANGED cur
    BY <1>1, <1>4 DEF StartLoad, WorkerTypeOK, poolVars
  <2>2. 1 \in 1..Len(queue[w]) /\ Head(queue[w]) = queue[w][1]
    BY <1>1, <2>1, LenProperties, EmptySeq, HeadTailProperties DEF WorkerTypeOK
  <2> QED BY <1>1, <2>1, <2>2 DEF PassInv, PassToCome
<1>5. CASE WorkerAck(w)
  <2>1. wpc[w] = "ack" /\ batch'[w] = batch[w] /\ UNCHANGED cur
    BY <1>5 DEF WorkerAck, poolVars
  <2> QED BY <1>1, <2>1 DEF PassInv, PassToCome
<1>6. CASE \/ StartLoadRaises(w) \/ WorkerApply(w) \/ WorkerApplyRaises(w) \/ WorkerAckRaises(w)
           \/ EndForward(w)
  BY <1>1, <1>6 DEF StartLoadRaises, WorkerApply, WorkerApplyRaises, WorkerAckRaises, EndForward,
     WorkerTypeOK, LoadRaises, WorkerGoto
<1> QED BY <1>2, <1>3, <1>4, <1>5, <1>6 DEF Worker

LEMMA ServingInvStep == ServingInv /\ [Next]_vars => ServingInv'
<1> SUFFICES ASSUME ServingInv, [Next]_vars PROVE TornAccess'
  BY AccessInvStep, TornStep DEF ServingInv, AccessInv
<1>1. AccessInv /\ ResizeInv /\ TornInv
  BY DEF ServingInv, AccessInv
<1>2. ResizeInv' /\ TornInv'
  BY <1>1, ResizeInvStep, TornStep
<1> SUFFICES ASSUME NEW w \in torn', wpc'[w] = "forward", stage' = "unmap_workers"
             PROVE  batch'[w] \subseteq Tail0(1, goal')
  BY DEF TornAccess
<1>3. w \in torn /\ w \in Workers /\ UNCHANGED <<stage, goal>>
  BY <1>1, <1>2, TornStep DEF TornInv
<1>4. cur' = goal'
  BY <1>2 DEF ResizeInv, StageInv
<1>5. wpc[w] = "forward" => batch[w] \subseteq Tail0(1, goal)
  BY <1>3 DEF ServingInv, TornAccess
<1> QED BY <1>1, <1>3, <1>4, <1>5, EntersPass

\* No forward pass reads or writes a block that its worker has unmapped, however
\* far a slow rank lags behind the leader, whatever fails, and also in a worker that
\* goes on serving after a shrink that stopped half-way.
THEOREM NoUnmappedAccessHolds == Spec => []NoUnmappedAccess
<1>1. Init => ServingInv
  BY AccessInvInit DEF ServingInv, TornInv, TornAccess, Init
<1>2. ServingInv => NoUnmappedAccess
  BY DEF ServingInv, AccessInv, PassesMapped, TornAccess, NoUnmappedAccess, Backed
<1> QED BY <1>1, <1>2, ServingInvStep, PTL DEF Spec
=============================================================================
