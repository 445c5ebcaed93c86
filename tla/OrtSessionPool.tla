--------------------------- MODULE OrtSessionPool ---------------------------
(***************************************************************************)
(* Session pool and request cancellation of the ONNX Runtime backend       *)
(* (integrations/ort/src/model.rs), as driven by the `infer`,              *)
(* `infer_batch` and `cancel` entry points of integrations/ort/src/lib.rs. *)
(*                                                                         *)
(* A thread of Threads runs one inference call at a time.  A call          *)
(* registers the IDs of its requests, runs one graph execution per batch   *)
(* group, each on a session borrowed from the pool, and drops its          *)
(* registration when it leaves.  A thread of Cancellers runs `cancel`.     *)
(*                                                                         *)
(* One atomic step is one critical section (the pool's `inner` mutex or    *)
(* the registry's `requests` mutex) or one call that touches neither.      *)
(***************************************************************************)
EXTENDS Naturals, Sequences, FiniteSets

CONSTANTS
  Threads,      \* host threads that call infer / infer_batch
  Ids,          \* request IDs
  Cancellers,   \* host threads that call cancel
  Runs,         \* identities of the CancellableRunOptions alive at one time
  MaxSessions   \* SessionPool.max_sessions

ASSUME ThreadsFinite == IsFiniteSet(Threads)
ASSUME IdsFinite == IsFiniteSet(Ids)
ASSUME MaxSessionsPositive == MaxSessions \in Nat \ {0}
ASSUME RunsAreRuns == "none" \notin Runs /\ "pool" \notin Runs

VARIABLES
  phase,       \* load of the model that owns the pool: prewarm loop, ready, failed
  idle,        \* SessionPoolInner.idle.len()
  total,       \* SessionPoolInner.total
  pc,          \* where each inference thread stands
  ids,         \* RequestRegistration.request_ids of the thread's call
  todo,        \* batch groups the call has still to execute, in order
  filled,      \* requests of the call that have a result
  res,         \* outcome of the graph execution, then of the call
  run,         \* run options of the thread's graph execution
  active,      \* keys of ActiveRequests.requests
  cancelled,   \* the IDs among them with ActiveRequest.cancelled
  term,        \* ActiveRequest.terminator
  pend,        \* terminator a canceller cloned and has not called yet
  terminated   \* run options whose termination flag is set

poolVars == <<phase, idle, total>>
callVars == <<ids, todo, filled, res, run>>
registryVars == <<active, cancelled, term>>
vars == <<poolVars, pc, callVars, registryVars, pend, terminated>>

Terminators == {"none", "pool"} \cup Runs

PCs == {"idle", "entered", "prepare", "infer", "attach", "wake", "check",
        "lock", "waiting", "create", "attachRun", "run", "ranOk", "ranErr",
        "drop", "inferred", "final", "leave"}

Outcomes == {"none", "ok", "cancelled", "error"}

\* Program points at which a thread owns a PooledSession.
Holding == {"attachRun", "run", "ranOk", "ranErr", "drop"}

Waiting == {t \in Threads : pc[t] = "waiting"}

\* RequestRegistration::is_cancelled
IsCancelled(t) == ids[t] \cap cancelled # {}

\* Every order in which infer_batch can take the groups of a batch: disjoint
\* groups covering it (a group is a set of requests stacked into one tensor;
\* HashMap::into_values leaves their order open).
GroupOrders(S) ==
  {g \in UNION {[1..n -> (SUBSET S) \ {{}}] : n \in 1..Cardinality(S)} :
     /\ UNION {g[k] : k \in DOMAIN g} = S
     /\ \A j, k \in DOMAIN g : j # k => g[j] \cap g[k] = {}}

\* The same requests one at a time.
Singles(S) == {g \in GroupOrders(S) : \A k \in DOMAIN g : Cardinality(g[k]) = 1}

Goto(t, to) == pc' = [pc EXCEPT ![t] = to]

\* Thread t moves on after Condvar::notify_one: one waiter, if any, wakes up
\* and goes back to the top of the loop in acquire.
GotoNotifyingOne(t, to) ==
  IF Waiting = {}
    THEN Goto(t, to)
    ELSE \E w \in Waiting : pc' = [pc EXCEPT ![t] = to, ![w] = "check"]

\* All waiters woken, as by Condvar::notify_all.
AllWoken == [t \in Threads |-> IF pc[t] = "waiting" THEN "check" ELSE pc[t]]

-----------------------------------------------------------------------------
(* Loading: SessionPool::new, then prewarm_session_pool.  A pool made for a *)
(* secondary bucket is not prewarmed and starts in use.                     *)

Init ==
  /\ phase \in {"prewarm", "ready"}
  /\ idle = 1
  /\ total = 1
  /\ pc = [t \in Threads |-> "idle"]
  /\ ids = [t \in Threads |-> {}]
  /\ todo = [t \in Threads |-> <<>>]
  /\ filled = [t \in Threads |-> {}]
  /\ res = [t \in Threads |-> "none"]
  /\ run = [t \in Threads |-> "none"]
  /\ active = {}
  /\ cancelled = {}
  /\ term = [i \in Ids |-> "none"]
  /\ pend = [c \in Cancellers |-> "none"]
  /\ terminated = {}

ReserveSlot ==
  /\ phase = "prewarm"
  /\ \/ /\ total >= MaxSessions
        /\ phase' = "ready"
        /\ UNCHANGED total
     \/ /\ total < MaxSessions
        /\ total' = total + 1
        /\ phase' = "creating"
  /\ UNCHANGED <<idle, pc, callVars, registryVars, pend, terminated>>

AddReservedSession ==
  /\ phase = "creating"
  /\ idle' = idle + 1
  /\ phase' = "prewarm"
  /\ UNCHANGED <<total, pc, callVars, registryVars, pend, terminated>>

\* A session cannot be created: the slot is given back and the load fails,
\* dropping the pool.
PrewarmFails ==
  /\ phase = "creating"
  /\ total' = total - 1
  /\ phase' = "failed"
  /\ UNCHANGED <<idle, pc, callVars, registryVars, pend, terminated>>

\* The host loads the model again, into a new pool.
LoadAgain ==
  /\ phase = "failed"
  /\ phase' = "prewarm"
  /\ idle' = 1
  /\ total' = 1
  /\ UNCHANGED <<pc, callVars, registryVars, pend, terminated>>

-----------------------------------------------------------------------------
(* The call: registration, checks, graph executions, departure.            *)

\* ActiveRequests::register; a call that names an active ID gets an error and
\* changes nothing.
Register(t, S, groups, to) ==
  /\ phase = "ready"
  /\ pc[t] = "idle"
  /\ S \cap active = {}
  /\ active' = active \cup S
  /\ term' = [i \in Ids |-> IF i \in S THEN "none" ELSE term[i]]
  /\ ids' = [ids EXCEPT ![t] = S]
  /\ todo' = [todo EXCEPT ![t] = groups]
  /\ filled' = [filled EXCEPT ![t] = {}]
  /\ res' = [res EXCEPT ![t] = "none"]
  /\ Goto(t, to)
  /\ UNCHANGED <<poolVars, run, cancelled, pend, terminated>>

CallInfer(t) == \E i \in Ids : Register(t, {i}, <<{i}>>, "entered")

CallInferBatch(t) ==
  \E S \in (SUBSET Ids) \ {{}} : \E groups \in GroupOrders(S) :
    Register(t, S, groups, "prepare")

\* The call goes to the drop of its registration with outcome o.
LeaveWith(t, o) ==
  /\ res' = [res EXCEPT ![t] = o]
  /\ Goto(t, "leave")
  /\ UNCHANGED <<poolVars, ids, todo, filled, run, registryVars, pend, terminated>>

\* The call goes on to `to` without touching anything else.
Proceed(t, to) ==
  /\ Goto(t, to)
  /\ UNCHANGED <<poolVars, callVars, registryVars, pend, terminated>>

\* A check of lib.rs asks the host's callback too, which may say yes at any
\* time; it continues only when the registry does not say cancelled.
HostOrRegistryCheck(t, to) ==
  \/ LeaveWith(t, "cancelled")
  \/ ~IsCancelled(t) /\ Proceed(t, to)

EntryCheck(t) == pc[t] = "entered" /\ HostOrRegistryCheck(t, "prepare")

Prepare(t) ==
  /\ pc[t] = "prepare"
  /\ \/ LeaveWith(t, "error")             \* preprocessor.prepare fails
     \/ HostOrRegistryCheck(t, "infer")

\* OrtBackend::infer ends with outcome o.
InferEnds(t, o) ==
  /\ res' = [res EXCEPT ![t] = o]
  /\ Goto(t, "inferred")
  /\ UNCHANGED <<poolVars, ids, todo, filled, run, registryVars, pend, terminated>>

\* Start of OrtBackend::infer up to the choice of the pool, which fails when
\* the model was unloaded or a bucket session cannot be created.
InferStart(t) ==
  /\ pc[t] = "infer"
  /\ \/ IsCancelled(t) /\ InferEnds(t, "cancelled")
     \/ ~IsCancelled(t) /\ (InferEnds(t, "error") \/ Proceed(t, "attach"))

\* RequestRegistration::attach(SessionWaitTerminator)
AttachWait(t) ==
  /\ pc[t] = "attach"
  /\ term' = [i \in Ids |-> IF i \in ids[t] THEN "pool" ELSE term[i]]
  /\ Goto(t, IF IsCancelled(t) THEN "wake" ELSE "check")
  /\ UNCHANGED <<poolVars, callVars, active, cancelled, pend, terminated>>

\* attach calls terminate itself when a request is cancelled already
AttachWake(t) ==
  /\ pc[t] = "wake"
  /\ pc' = [AllWoken EXCEPT ![t] = "check"]
  /\ UNCHANGED <<poolVars, callVars, registryVars, pend, terminated>>

-----------------------------------------------------------------------------
(* SessionPool::acquire: the cancellation check takes the registry mutex   *)
(* and releases it before the pool mutex is taken.                         *)

AcquireCheck(t) ==
  /\ pc[t] = "check"
  /\ IF IsCancelled(t) THEN InferEnds(t, "cancelled") ELSE Proceed(t, "lock")

\* Mutant: the idle list is popped without looking whether it is empty.
AcquireLock_PopsEmpty(t) ==
  /\ pc[t] = "lock"
  /\ idle' = idle - 1
  /\ Goto(t, "attachRun")
  /\ UNCHANGED <<phase, total, callVars, registryVars, pend, terminated>>

AcquireLock(t) ==
  /\ pc[t] = "lock"
  /\ \/ /\ idle > 0
        /\ idle' = idle - 1
        /\ Goto(t, "attachRun")
        /\ UNCHANGED total
     \/ /\ idle = 0
        /\ total < MaxSessions
        /\ total' = total + 1
        /\ Goto(t, "create")
        /\ UNCHANGED idle
     \/ /\ idle = 0
        /\ total >= MaxSessions
        /\ Goto(t, "waiting")
        /\ UNCHANGED <<idle, total>>
  /\ UNCHANGED <<phase, callVars, registryVars, pend, terminated>>

\* Condvar::wait may return without a notification.
SpuriousWake(t) == pc[t] = "waiting" /\ Proceed(t, "check")

CreateSession(t) ==
  /\ pc[t] = "create"
  /\ Proceed(t, "attachRun")

\* create_session fails: release_reserved_slot
CreateSessionFails(t) ==
  /\ pc[t] = "create"
  /\ total' = IF total = 0 THEN 0 ELSE total - 1
  /\ res' = [res EXCEPT ![t] = "error"]
  /\ GotoNotifyingOne(t, "inferred")
  /\ UNCHANGED <<phase, idle, ids, todo, filled, run, registryVars, pend, terminated>>

-----------------------------------------------------------------------------
(* infer_with_session and the drop of the PooledSession                    *)

\* Mutant: the early error return skips the session's drop.
InputsRejected_Leaks(t) ==
  /\ pc[t] = "attachRun"
  /\ res' = [res EXCEPT ![t] = "error"]
  /\ Goto(t, "inferred")
  /\ UNCHANGED <<poolVars, ids, todo, filled, run, registryVars, pend, terminated>>

\* The inputs do not fit the model: no graph is executed.
InputsRejected(t) ==
  /\ pc[t] = "attachRun"
  /\ res' = [res EXCEPT ![t] = "error"]
  /\ Goto(t, "drop")
  /\ UNCHANGED <<poolVars, ids, todo, filled, run, registryVars, pend, terminated>>

\* Run options nobody refers to any more; a new Arc has a fresh identity.
FreshRuns ==
  Runs \ ({run[t] : t \in Threads} \cup {term[i] : i \in Ids}
            \cup {pend[c] : c \in Cancellers})

\* Mutant: attach replaces the terminator without looking at the mark a cancel
\* left before.
AttachRun_IgnoresMark(t) ==
  /\ pc[t] = "attachRun"
  /\ \E r \in FreshRuns :
       /\ run' = [run EXCEPT ![t] = r]
       /\ term' = [i \in Ids |-> IF i \in ids[t] THEN r ELSE term[i]]
       /\ terminated' = terminated \ {r}
  /\ Goto(t, "run")
  /\ UNCHANGED <<poolVars, ids, todo, filled, res, active, cancelled, pend>>

\* Mutant: attach records the terminator for one request of the batch only.
AttachRun_OneId(t) ==
  /\ pc[t] = "attachRun"
  /\ \E r \in FreshRuns, first \in ids[t] :
       /\ run' = [run EXCEPT ![t] = r]
       /\ term' = [term EXCEPT ![first] = r]
       /\ terminated' = IF IsCancelled(t) THEN terminated \cup {r}
                                          ELSE terminated \ {r}
  /\ Goto(t, "run")
  /\ UNCHANGED <<poolVars, ids, todo, filled, res, active, cancelled, pend>>

\* RequestRegistration::attach(run_options), which terminates the run at once
\* when a request is cancelled already.
AttachRun(t) ==
  /\ pc[t] = "attachRun"
  /\ \E r \in FreshRuns :
       /\ run' = [run EXCEPT ![t] = r]
       /\ term' = [i \in Ids |-> IF i \in ids[t] THEN r ELSE term[i]]
       /\ terminated' = IF IsCancelled(t) THEN terminated \cup {r}
                                          ELSE terminated \ {r}
  /\ Goto(t, "run")
  /\ UNCHANGED <<poolVars, ids, todo, filled, res, active, cancelled, pend>>

\* ORT runs the graph to its end, or fails; a termination flag makes it fail
\* unless the graph was finished already.
RunOk(t)  == pc[t] = "run" /\ Proceed(t, "ranOk")
RunErr(t) == pc[t] = "run" /\ Proceed(t, "ranErr")

\* An input cannot be converted, which is noticed after the run options are
\* attached: no graph is executed.
InputUnconvertible(t) ==
  /\ pc[t] = "run"
  /\ res' = [res EXCEPT ![t] = "error"]
  /\ Goto(t, "drop")
  /\ UNCHANGED <<poolVars, ids, todo, filled, run, registryVars, pend, terminated>>

\* The check after the run: a cancelled request is reported as cancelled, and
\* an output that cannot be converted as an error.
RunCheck(t) ==
  /\ pc[t] \in {"ranOk", "ranErr"}
  /\ \E o \in Outcomes \ {"none"} :
       /\ IF IsCancelled(t) THEN o = "cancelled"
          ELSE o \in (IF pc[t] = "ranOk" THEN {"ok", "error"} ELSE {"error"})
       /\ res' = [res EXCEPT ![t] = o]
  /\ Goto(t, "drop")
  /\ UNCHANGED <<poolVars, ids, todo, filled, run, registryVars, pend, terminated>>

\* Mutant: the session is pushed back without notify_one.
DropSession_Silent(t) ==
  /\ pc[t] = "drop"
  /\ idle' = idle + 1
  /\ run' = [run EXCEPT ![t] = "none"]
  /\ Goto(t, "inferred")
  /\ UNCHANGED <<phase, total, ids, todo, filled, res, registryVars, pend, terminated>>

\* Drop of the PooledSession and of the run options at the end of infer
DropSession(t) ==
  /\ pc[t] = "drop"
  /\ idle' = idle + 1
  /\ run' = [run EXCEPT ![t] = "none"]
  /\ GotoNotifyingOne(t, "inferred")
  /\ UNCHANGED <<phase, total, ids, todo, filled, res, registryVars, pend, terminated>>

-----------------------------------------------------------------------------
(* OrtBackend::infer_batch around infer, and the end of the call           *)

\* The group has its results; the stacked output of a group was split.
GroupDone(t) ==
  /\ pc[t] = "inferred"
  /\ res[t] = "ok"
  /\ filled' = [filled EXCEPT ![t] = @ \cup Head(todo[t])]
  /\ todo' = [todo EXCEPT ![t] = Tail(@)]
  /\ Goto(t, IF Len(todo[t]) = 1 THEN "final" ELSE "infer")
  /\ UNCHANGED <<poolVars, ids, res, run, registryVars, pend, terminated>>

\* Mutant: the fallback runs the first request of the group only.
GroupFallback_FirstOnly(t) ==
  /\ pc[t] = "inferred"
  /\ Cardinality(Head(todo[t])) > 1
  /\ ~IsCancelled(t)
  /\ \E i \in Head(todo[t]) : todo' = [todo EXCEPT ![t] = <<{i}>> \o Tail(@)]
  /\ Goto(t, "infer")
  /\ UNCHANGED <<poolVars, ids, filled, res, run, registryVars, pend, terminated>>

\* A stacked group failed, or its output could not be split: unless the call
\* is cancelled, its requests are executed one by one.
GroupFallback(t) ==
  /\ pc[t] = "inferred"
  /\ Cardinality(Head(todo[t])) > 1
  /\ ~IsCancelled(t)
  /\ \E singles \in Singles(Head(todo[t])) :
       todo' = [todo EXCEPT ![t] = singles \o Tail(@)]
  /\ Goto(t, "infer")
  /\ UNCHANGED <<poolVars, ids, filled, res, run, registryVars, pend, terminated>>

GroupFails(t) ==
  /\ pc[t] = "inferred"
  /\ \/ res[t] # "ok" /\ Cardinality(Head(todo[t])) = 1 /\ LeaveWith(t, res[t])
     \/ Cardinality(Head(todo[t])) > 1 /\ IsCancelled(t)
          /\ LeaveWith(t, IF res[t] = "ok" THEN "error" ELSE res[t])

\* Postprocessing, and the last check before the result is written.
Finish(t) ==
  /\ pc[t] = "final"
  /\ \/ LeaveWith(t, "error")
     \/ LeaveWith(t, "cancelled")
     \/ ~IsCancelled(t) /\ LeaveWith(t, "ok")

\* Mutant: the drop of the registration forgets the cancellation marks.
Leave_KeepsMark(t) ==
  /\ pc[t] = "leave"
  /\ active' = active \ ids[t]
  /\ term' = [i \in Ids |-> IF i \in ids[t] THEN "none" ELSE term[i]]
  /\ ids' = [ids EXCEPT ![t] = {}]
  /\ todo' = [todo EXCEPT ![t] = <<>>]
  /\ filled' = [filled EXCEPT ![t] = {}]
  /\ Goto(t, "idle")
  /\ UNCHANGED <<poolVars, cancelled, res, run, pend, terminated>>

\* Drop of the RequestRegistration
Leave(t) ==
  /\ pc[t] = "leave"
  /\ active' = active \ ids[t]
  /\ cancelled' = cancelled \ ids[t]
  /\ term' = [i \in Ids |-> IF i \in ids[t] THEN "none" ELSE term[i]]
  /\ ids' = [ids EXCEPT ![t] = {}]
  /\ todo' = [todo EXCEPT ![t] = <<>>]
  /\ filled' = [filled EXCEPT ![t] = {}]
  /\ Goto(t, "idle")
  /\ UNCHANGED <<poolVars, res, run, pend, terminated>>

-----------------------------------------------------------------------------
(* ActiveRequests::cancel: mark and clone under the registry mutex, then   *)
(* terminate outside it.  An unknown ID changes nothing.                   *)

CancelMark(c, i) ==
  /\ pend[c] = "none"
  /\ i \in active
  /\ cancelled' = cancelled \cup {i}
  /\ pend' = [pend EXCEPT ![c] = term[i]]
  /\ UNCHANGED <<poolVars, pc, callVars, active, term, terminated>>

\* SessionWaitTerminator::terminate (wake_cancelled_waiters)
CancelWakes(c) ==
  /\ pend[c] = "pool"
  /\ pc' = AllWoken
  /\ pend' = [pend EXCEPT ![c] = "none"]
  /\ UNCHANGED <<poolVars, callVars, registryVars, terminated>>

\* Mutant: the flag is set on whatever runs for the requests now, not on the
\* run options that were cloned.
CancelTerminatesRun_Current(c) ==
  /\ pend[c] \in Runs
  /\ terminated' = terminated \cup ({run[t] : t \in Threads} \cap Runs)
  /\ pend' = [pend EXCEPT ![c] = "none"]
  /\ UNCHANGED <<poolVars, pc, callVars, registryVars>>

\* CancellableRunOptions::terminate
CancelTerminatesRun(c) ==
  /\ pend[c] \in Runs
  /\ terminated' = terminated \cup {pend[c]}
  /\ pend' = [pend EXCEPT ![c] = "none"]
  /\ UNCHANGED <<poolVars, pc, callVars, registryVars>>

-----------------------------------------------------------------------------
Load == ReserveSlot \/ AddReservedSession \/ PrewarmFails \/ LoadAgain

\* Steps a thread takes on its own once it is in a call, apart from the end
\* of a graph execution.
CallStep(t) ==
  \/ EntryCheck(t) \/ Prepare(t) \/ InferStart(t) \/ AttachWait(t) \/ AttachWake(t)
  \/ AcquireCheck(t) \/ AcquireLock(t) \/ CreateSession(t) \/ CreateSessionFails(t)
  \/ InputsRejected(t) \/ AttachRun(t) \/ RunCheck(t) \/ DropSession(t)
  \/ GroupDone(t) \/ GroupFallback(t) \/ GroupFails(t) \/ Finish(t) \/ Leave(t)

RunEnds(t) == RunOk(t) \/ RunErr(t) \/ InputUnconvertible(t)

CancelFinishes(c) == CancelWakes(c) \/ CancelTerminatesRun(c)

Next ==
  \/ Load
  \/ \E t \in Threads : CallInfer(t) \/ CallInferBatch(t) \/ CallStep(t)
                          \/ SpuriousWake(t) \/ RunEnds(t)
  \/ \E c \in Cancellers : (\E i \in Ids : CancelMark(c, i)) \/ CancelFinishes(c)

Spec == Init /\ [][Next]_vars

\* Threads are scheduled; a terminated graph execution ends (the contract of
\* ORT's RunOptions::terminate).  Nothing says that any other one does.
Scheduled ==
  /\ \A t \in Threads : WF_vars(CallStep(t))
  /\ \A t \in Threads : WF_vars(run[t] \in terminated /\ RunEnds(t))
  /\ \A c \in Cancellers : WF_vars(CancelFinishes(c))

SpecTerminating == Spec /\ Scheduled

\* As above, and every graph execution ends by itself.
SpecRunsEnd == Spec /\ Scheduled /\ \A t \in Threads : WF_vars(RunEnds(t))
-----------------------------------------------------------------------------
(* Properties                                                              *)

\* Types of the pool, of the calls and of the cancellation registry.
TypeOK ==
  /\ phase \in {"prewarm", "creating", "ready", "failed"}
  /\ idle \in Nat
  /\ total \in Nat
  /\ pc \in [Threads -> PCs]
  /\ ids \in [Threads -> SUBSET Ids]
  /\ todo \in [Threads -> Seq(SUBSET Ids)]
  /\ filled \in [Threads -> SUBSET Ids]
  /\ res \in [Threads -> Outcomes]
  /\ run \in [Threads -> {"none"} \cup Runs]
  /\ active \in SUBSET Ids
  /\ cancelled \in SUBSET Ids
  /\ term \in [Ids -> Terminators]
  /\ pend \in [Cancellers -> Terminators]
  /\ terminated \in SUBSET Runs

Holders == {t \in Threads : pc[t] \in Holding}
Creators == {t \in Threads : pc[t] = "create"}
PrewarmSlot == IF phase = "creating" THEN 1 ELSE 0

\* `total` counts exactly the sessions that exist or are being created: the
\* idle ones, those in the hands of a PooledSession, and the reserved slots of
\* acquire and of the prewarm loop.  No error path of acquire, infer or the
\* prewarm loop leaks a slot or gives one back twice, and the pool never grows
\* past max_sessions.
SlotAccounting ==
  /\ total = idle + Cardinality(Holders) + Cardinality(Creators) + PrewarmSlot
  /\ total <= MaxSessions

\* The cancellation registry holds exactly the requests of the calls in
\* progress, each one for a single call: no path out of infer or infer_batch
\* leaves an ID behind (it would be refused as already active for ever), and no
\* cancellation mark survives the call it was meant for.
RegistryMatchesCalls ==
  /\ active = UNION {ids[t] : t \in Threads}
  /\ cancelled \subseteq active
  /\ \A t \in Threads : ids[t] = {} <=> pc[t] = "idle"
  /\ \A t, u \in Threads : t # u => ids[t] \cap ids[u] = {}

\* While a graph runs for a call with a cancelled request, its run options are
\* terminated or a `cancel` that is still in progress will terminate them,
\* whichever of attach and cancel came first, for any member of a batch.
CancelReachesRun ==
  \A t \in Threads :
    pc[t] = "run" /\ IsCancelled(t) =>
      \/ run[t] \in terminated
      \/ \E c \in Cancellers : pend[c] = run[t]

\* A graph execution is terminated only when a request of its own call was
\* cancelled: a `cancel` that read the terminator of an earlier call and comes
\* late never hits the call that follows on the thread or reuses the ID.
NoStrayTermination ==
  \A t \in Threads : pc[t] = "run" /\ run[t] \in terminated => IsCancelled(t)

\* A batch is answered with a result for each of its requests, through any
\* mixture of stacked groups, single executions and fallbacks.
BatchComplete ==
  \A t \in Threads : pc[t] = "leave" /\ res[t] = "ok" => filled[t] = ids[t]

\* Threads that are on their way to the pool's mutex
Acquiring == {t \in Threads : pc[t] \in {"check", "lock"}}

\* While some thread sleeps on the condition variable, every idle session and
\* every free slot is matched by a thread awake in acquire that will look for
\* it: notify_one on each release is enough, whoever barges in.  Without
\* cancellation only: see CancelledWaiterIsWoken.
NoStrandedWaiter ==
  Waiting # {} => idle + (MaxSessions - total) <= Cardinality(Acquiring)

\* An idle session does not stay idle beside a sleeping thread.
IdleSessionTaken == (Waiting # {} /\ idle > 0) ~> (Waiting = {} \/ idle = 0)

\* A cancelled call that does not have to wait for a session returns, however
\* long its graph would run by itself.  (For one that waits see
\* CancelledWaiterIsWoken.)
CancelledCallReturns == \A t \in Threads : IsCancelled(t) ~> ~IsCancelled(t)

\* What wake_cancelled_waiters says of itself: a waiter whose request is
\* cancelled does not sleep on, because the canceller takes the mutex before it
\* notifies.
CancelledWaiterIsWoken ==
  \A t \in Threads :
    pc[t] = "waiting" /\ IsCancelled(t) =>
      \/ \E c \in Cancellers : pend[c] = "pool"
      \/ \E u \in Threads : pc[u] = "wake"
=============================================================================
