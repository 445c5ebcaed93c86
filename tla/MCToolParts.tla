----------------------------- MODULE MCToolParts -----------------------------
(* The repository's commands: the KV planner, the certification probe, the    *)
(* build and release of packs, and the parity certification.  Each leaves a   *)
(* document somebody acts on.  They share no state, so each behaviour runs    *)
(* one of them (part) and leaves the others where they start.                 *)
EXTENDS MCKvSizing

CONSTANTS
  Policies, Configs, Worlds, ProbeRanks, Leader, Faults,
  Profiles, Blocks, PartBlocks, MaxBuilds, MaxDeaths,
  Outputs, MaxSequence, MaxFaults

VARIABLES
  part,
  pc, policy, tp, configs, raised, executor, fd1, saved, out, exit,
  kept, main, at, gates, facts, got, files, attached, mapped, active, lease, beat,
  report, allowlist,
  matrix, publish, bpc, build, handoff, ppc, made, output, inventory, draft, listed,
  index, bound, deaths,
  parity_pc, sequence, session, alive, port, log, step, exception, answered, failed, tensor,
  sampled, captures, rss, verdict, status, faults

Planner == INSTANCE KvPlanner
Probe == INSTANCE CertificationProbe WITH Ranks <- ProbeRanks
Release == INSTANCE PackRelease WITH out <- output
Parity == INSTANCE ParitySession WITH
  pc <- parity_pc, i <- session, raised <- exception, report <- verdict, exit <- status

ASSUME PartsAssumption ==
  /\ Planner!PlannerAssumption /\ Probe!ProbeAssumption
  /\ Release!ReleaseAssumption /\ Parity!ParityAssumption

plannerVars == <<pc, policy, tp, configs, raised, executor, fd1, saved, out, exit>>
probeVars ==
  <<kept, main, at, gates, facts, got, files, attached, mapped, active, lease, beat,
    report, allowlist>>
releaseVars ==
  <<matrix, publish, bpc, build, handoff, ppc, made, output, inventory, draft, listed,
    index, bound, deaths>>
parityVars ==
  <<parity_pc, sequence, session, alive, port, log, step, exception, answered, failed, tensor,
    sampled, captures, rss, verdict, status, faults>>
allVars == <<part, plannerVars, probeVars, releaseVars, parityVars>>

\* A command that does not run has one initial state only.
Init ==
  /\ part \in {"planner", "probe", "release", "parity"}
  /\ part = "planner" \/ (tp = 1 /\ policy = CHOOSE p \in Policies : TRUE)
  /\ part = "probe" \/ (kept = {} /\ allowlist = "absent")
  /\ Planner!Init /\ Probe!Init /\ Release!Init /\ Parity!Init

Next ==
  \/ part = "planner" /\ Planner!Next /\ UNCHANGED <<part, probeVars, releaseVars, parityVars>>
  \/ part = "probe" /\ Probe!Next /\ UNCHANGED <<part, plannerVars, releaseVars, parityVars>>
  \/ part = "release" /\ Release!Next /\ UNCHANGED <<part, plannerVars, probeVars, parityVars>>
  \/ part = "parity" /\ Parity!Next /\ UNCHANGED <<part, plannerVars, probeVars, releaseVars>>

\* The fairness of the probe and of the certification.
Fairness ==
  /\ WF_probeVars(part = "probe" /\ Probe!MainStep)
  /\ \A r \in ProbeRanks : WF_probeVars(part = "probe" /\ Probe!WorkerStep(r))
  /\ WF_probeVars(part = "probe" /\ Probe!LeaseExpires)
  /\ WF_parityVars(part = "parity" /\ Parity!Harness)
  /\ WF_parityVars(part = "parity" /\ Parity!WaitTimesOut)

Spec == Init /\ [][Next]_allVars /\ Fairness

-----------------------------------------------------------------------------
(* The commands' properties, each in the behaviours that run its command. *)

\* A plan holds what it promises, and is all there is on stdout (size_rank, run).
PlanIsSound == part = "planner" => Planner!PlanIsSound

\* Only a conforming runtime and backend are certified (_rank_worker, main).
CertificateIsEarned == part = "probe" => Probe!CertificateIsEarned

\* What is signed, published or deleted is against one whole build.
ReleaseIsOneBuild == part = "release" => Release!ReleaseIsOneBuild

\* A certification that passes measured a complete sequence, one runtime at a time
\* (run_variant_session, stop_process).
VerdictIsMeasured == part = "parity" => Parity!VerdictIsMeasured

\* The probe and the certification end, whatever a rank or a runtime does.
CommandsEnd ==
  /\ part = "probe" => Probe!ProbeEnds
  /\ part = "parity" => Parity!CertifyEnds
=============================================================================
