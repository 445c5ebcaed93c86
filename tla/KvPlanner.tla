----------------------------- MODULE KvPlanner -----------------------------
(* One run of kapsl-vllm-plan (plan.py): parse, redirect the runtime's logs, *)
(* build the pinned executor, resolve its cache configuration, shut it down, *)
(* put stdout back, size the plan and write it out.  Steps that call the     *)
(* operating system or vLLM may fail where Faults holds.  The process has    *)
(* real descriptors: the in-memory streams of the host tests are left out.   *)
EXTENDS KvSizing, Functions

CONSTANTS
  Policies,     \* the sizing arguments an operator may pass
  Configs,      \* the worker configurations vLLM may resolve
  Worlds,       \* tensor-parallel sizes asked for
  Faults        \* whether arguments, vLLM and the operating system may fail

PlannerAssumption ==
  /\ Policies \subseteq PolicyRecords
  /\ \A c \in Configs : ResolvedConfig(c)
  /\ Worlds \subseteq Nat \ {0} /\ Faults \in BOOLEAN

VARIABLES
  pc,        \* the step run() is at
  policy,    \* the policy asked for
  tp,        \* the tensor-parallel size asked for
  configs,   \* what vLLM resolved, one configuration per rank
  raised,    \* the exception travelling up: none, PlanningError, another
  executor,  \* the pinned executor: none, live, shut down, or its shutdown failed
  fd1,       \* what file descriptor 1 refers to
  saved,     \* whether the duplicate of the original stdout is open
  out,       \* what reached the original stdout
  exit       \* how the process ended

vars == <<pc, policy, tp, configs, raised, executor, fd1, saved, out, exit>>

Ranks == 0 .. tp - 1
Pending == {"none", "planning", "other"}

TypeOK ==
  /\ pc \in {"parse", "version", "redirect", "load", "build", "resolve", "shutdown",
             "restore", "validate", "plan", "print", "ended"}
  /\ policy \in Policies /\ tp \in Worlds
  /\ configs = <<>> \/ configs \in [Ranks -> Configs]
  /\ raised \in Pending
  /\ executor \in {"none", "live", "down", "leaked"}
  /\ fd1 \in {"stdout", "stderr"} /\ saved \in BOOLEAN
  /\ out \in Seq({"log", "schema", "plan"})
  /\ exit \in {"running", "ok", "failure", "traceback"}

Init ==
  /\ pc = "parse"
  /\ policy \in Policies /\ tp \in Worlds
  /\ configs = <<>> /\ raised = "none" /\ executor = "none"
  /\ fd1 = "stdout" /\ saved = FALSE /\ out = <<>> /\ exit = "running"

-----------------------------------------------------------------------------

\* A PlanningError is caught by run() and becomes the structured failure on
\* stderr and exit code 2; any other exception leaves run() as a traceback.
Fail(kind) ==
  /\ pc' = "ended"
  /\ raised' = kind
  /\ exit' = IF kind = "planning" THEN "failure" ELSE "traceback"

\* An exception inside the with-block: it is kept while the finally clauses run.
Unwind(kind, next) == raised' = kind /\ pc' = next

\* What the runtime logs goes where file descriptor 1 points (native code and
\* retained handlers do not look at sys.stdout).
Log == out' = IF fd1 = "stdout" THEN Append(out, "log") ELSE out

\* The argument parser and the two schema printers.
PrintSchema ==
  /\ pc = "parse"
  /\ pc' = "ended" /\ exit' = "ok" /\ out' = Append(out, "schema")
  /\ UNCHANGED <<policy, tp, configs, raised, executor, fd1, saved>>

\* Malformed arguments, a request or a policy the checks refuse: a
\* PlanningError before the runtime is touched.
RejectArguments ==
  /\ pc = "parse"
  /\ Faults \/ ~SizingPolicy(policy)
  /\ Fail("planning")
  /\ UNCHANGED <<policy, tp, configs, executor, fd1, saved, out>>

AcceptArguments ==
  /\ pc = "parse"
  /\ SizingPolicy(policy)
  /\ pc' = "version"
  /\ UNCHANGED <<policy, tp, configs, raised, executor, fd1, saved, out, exit>>

\* _installed_backend_version turns whatever the lookup raises into a
\* PlanningError.
ReadVersion ==
  /\ pc = "version"
  /\ \/ pc' = "redirect" /\ UNCHANGED <<raised, exit>>
     \/ Faults /\ Fail("planning")
  /\ UNCHANGED <<policy, tp, configs, executor, fd1, saved, out>>

\* Entering _runtime_logs_to_stderr: flush both streams, duplicate stdout,
\* point descriptor 1 at stderr.  An error here is an OSError and leaves the
\* duplicate closed.
RedirectLogs ==
  /\ pc = "redirect"
  /\ \/ /\ fd1' = "stderr" /\ saved' = TRUE /\ pc' = "load"
        /\ UNCHANGED <<raised, exit>>
     \/ /\ Faults /\ Fail("other")
        /\ UNCHANGED <<fd1, saved>>
  /\ UNCHANGED <<policy, tp, configs, executor, out>>

\* The model directory, the installed version and the pinned APIs.  What goes
\* wrong from here on _runtime_geometry turns into a PlanningError.
LoadRuntime ==
  /\ pc = "load"
  /\ Log
  /\ \/ pc' = "build" /\ UNCHANGED raised
     \/ Faults /\ Unwind("planning", "restore")
  /\ UNCHANGED <<policy, tp, configs, executor, fd1, saved, exit>>

\* The engine configuration and the executor's constructor: when they raise
\* there is no executor to shut down.
BuildExecutor ==
  /\ pc = "build"
  /\ Log
  /\ \/ executor' = "live" /\ pc' = "resolve" /\ UNCHANGED raised
     \/ Faults /\ Unwind("planning", "restore") /\ UNCHANGED executor
  /\ UNCHANGED <<policy, tp, configs, fd1, saved, exit>>

\* The cache specs, layout, groups and configurations of every worker, taken
\* into a geometry; a call that fails, or a geometry the checks refuse, raises.
ResolveGeometry ==
  /\ pc = "resolve"
  /\ Log
  /\ \/ \E found \in [Ranks -> Configs], x \in Executions :
          IF /\ ExecutionCertified(x)
             /\ GeometryAccepted(found)
             /\ MinimumPlanningMemory(found[0].groups) # Err
          THEN configs' = found /\ pc' = "shutdown" /\ UNCHANGED raised
          ELSE Unwind("planning", "shutdown") /\ UNCHANGED configs
     \/ Faults /\ Unwind("planning", "shutdown") /\ UNCHANGED configs
  /\ UNCHANGED <<policy, tp, executor, fd1, saved, exit>>

\* The finally clause of _geometry_from_executor.  A shutdown that raises
\* replaces the exception in flight; _runtime_geometry wraps it.
ShutdownExecutor ==
  /\ pc = "shutdown"
  /\ Log
  /\ \/ executor' = "down" /\ pc' = "restore" /\ UNCHANGED raised
     \/ Faults /\ executor' = "leaked" /\ Unwind("planning", "restore")
  /\ UNCHANGED <<policy, tp, configs, fd1, saved, exit>>

\* Leaving _runtime_logs_to_stderr: flush, then in a finally clause point
\* descriptor 1 back and close the duplicate.  A flush that raises still
\* restores; a dup2 that raises leaves both as they are.
RestoreStdout ==
  /\ pc = "restore"
  /\ \/ /\ fd1' = "stdout" /\ saved' = FALSE
        /\ \/ raised = "none" /\ pc' = "validate" /\ UNCHANGED <<raised, exit>>
           \/ raised # "none" /\ Fail(raised)
           \/ Faults /\ Fail("other")
     \/ /\ Faults /\ Fail("other")
        /\ UNCHANGED <<fd1, saved>>
  /\ UNCHANGED <<policy, tp, configs, executor, out>>

\* _validate_provider_result: the geometry names another version (the package
\* changed since ReadVersion), model, world, device or layout than the request.
ValidateGeometry ==
  /\ pc = "validate"
  /\ \/ pc' = "plan" /\ UNCHANGED <<raised, exit>>
     \/ Faults /\ Fail("planning")
  /\ UNCHANGED <<policy, tp, configs, executor, fd1, saved, out>>

BuildPlan ==
  /\ pc = "plan"
  /\ IF Plannable(configs, policy)
     THEN pc' = "print" /\ UNCHANGED <<raised, exit>>
     ELSE Fail("planning")
  /\ UNCHANGED <<policy, tp, configs, executor, fd1, saved, out>>

\* print(json.dumps(result.to_dict())), outside the try: the sum of the maxima
\* is computed here.
PrintPlan ==
  /\ pc = "print"
  /\ IF build_plan(configs, policy).totalMaximum = Err
     THEN pc' = "ended" /\ raised' = "planning" /\ exit' = "traceback" /\ UNCHANGED out
     ELSE /\ pc' = "ended" /\ exit' = "ok" /\ out' = Append(out, "plan")
          /\ UNCHANGED raised
  /\ UNCHANGED <<policy, tp, configs, executor, fd1, saved>>

Next ==
  \/ PrintSchema
  \/ RejectArguments
  \/ AcceptArguments
  \/ ReadVersion
  \/ RedirectLogs
  \/ LoadRuntime
  \/ BuildExecutor
  \/ ResolveGeometry
  \/ ShutdownExecutor
  \/ RestoreStdout
  \/ ValidateGeometry
  \/ BuildPlan
  \/ PrintPlan

Spec == Init /\ [][Next]_vars

-----------------------------------------------------------------------------
(* Properties *)

Planned == pc = "print" \/ "plan" \in Range(out)
Sizing(r) == size_rank(RankGeometry(configs[r]), policy)

\* The bytes one block of a group really takes: tokens, heads and state of the
\* member that serves each layer.
PhysicalBlock(g) ==
  LET member(l) == g.members[IF g.wrapped THEN l ELSE CHOOSE d \in DOMAIN g.members : TRUE]
  IN Total([l \in g.layers |-> member(l).block * member(l).heads * member(l).state])

\* Blocks of a pool that holds n whole sequences in every group, the null block
\* included, by definition rather than by division.
Needed(groups, n) ==
  1 + n * Total([g \in groups |-> Min({b \in Word : b * g.page >= g.seqBytes})])

\* A geometry the planner accepts (geometry_from_resolved_configs) has on every
\* rank a block exactly as large as the largest group physically needs.
StrideIsPhysical ==
  configs # <<>> =>
    \A r, q \in Ranks :
      RankGeometry(configs[q]).stride =
        Max({PhysicalBlock(g) : g \in configs[r].groups})

\* The concurrency a plan promises (size_rank) is the largest its initial grant
\* really holds, null block included.  It is below the target only when there is a
\* byte cap and that cap cannot hold the target's bare sequences: prefix and headroom
\* go first, and a plan without a cap promises its target.
PlanHoldsItsConcurrency ==
  Planned =>
    \A r \in Ranks :
      LET s == Sizing(r)
          groups == configs[r].groups
          fits(n) == Needed(groups, n) <= s.desired
      IN /\ s.effective = Max({n \in 0 .. policy.target : fits(n)})
         /\ s.effective < policy.target =>
              /\ policy.maxBytes # Absent
              /\ \A b \in Word :
                   /\ b % policy.alignment = 0
                   /\ b >= Needed(groups, policy.target)
                   => b * s.stride > policy.maxBytes

\* Every grant respects the operator's bytes (size_rank): a whole number of
\* aligned blocks, at least one full sequence, the initial grant within the
\* virtual maximum that live resize may later reach, both within floor and cap.
WithinBytePolicy ==
  Planned =>
    \A r \in Ranks :
      LET s == Sizing(r)
      IN /\ s.minimum <= s.desired /\ s.desired <= s.maximum
         /\ s.desired % policy.alignment = 0 /\ s.maximum % policy.alignment = 0
         /\ policy.minBytes # Absent => policy.minBytes <= s.desiredBytes
         /\ policy.maxBytes # Absent => s.maximumBytes <= policy.maxBytes

\* Asking for more concurrency never grants fewer blocks or promises fewer
\* sequences (size_rank under the same geometry, floor and cap).
MoreIsNotLess ==
  Planned =>
    \A t \in policy.target .. policy.target + 2 :
      LET more == [policy EXCEPT !.target = t]
      IN SizingPolicy(more) /\ Plannable(configs, more) =>
           \A r \in Ranks :
             LET s == size_rank(RankGeometry(configs[r]), more)
             IN s.desired >= Sizing(r).desired /\ s.effective >= Sizing(r).effective

\* A plan that is printed fits the published schema (planner_json_schema).
EmittedPlanFitsSchema ==
  "plan" \in Range(out) => SchemaAccepts(build_plan(configs, policy))

\* Stdout carries one JSON document when the run succeeds and nothing when it
\* does not, whatever the runtime logs and wherever a step fails
\* (_runtime_logs_to_stderr and run).
StdoutIsOneDocument ==
  /\ out \in {<<>>, <<"schema">>, <<"plan">>}
  /\ exit = "ok" <=> out # <<>>

\* Before a plan leaves the process the executor's footprint is released and
\* stdout is back; and no way out leaves a live executor that was never shut
\* down, or, short of a failing descriptor call, the duplicate open.
ReleasedBeforePlan ==
  /\ "plan" \in Range(out) => executor = "down" /\ fd1 = "stdout" /\ ~saved
  /\ pc = "ended" => executor # "live"
  /\ saved /\ pc = "ended" => raised = "other"

\* What a run of the planner prints is one document, after everything was released,
\* and a plan in it holds what it promises within what the operator allows.
PlanIsSound ==
  /\ TypeOK
  /\ StrideIsPhysical
  /\ PlanHoldsItsConcurrency
  /\ WithinBytePolicy
  /\ MoreIsNotLess
  /\ EmittedPlanFitsSchema
  /\ StdoutIsOneDocument
  /\ ReleasedBeforePlan
=============================================================================
