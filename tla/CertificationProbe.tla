------------------------- MODULE CertificationProbe -------------------------
(* The hardware certification probe (flash_attn_probe.py, certification.py): *)
(* a main process that checks the runtime's refusals and spawns one worker   *)
(* per rank, workers that attach, exercise and detach a Kapsl-owned pool in  *)
(* step, the rank reports, and the report and allowlist files they justify.  *)
(* The runtime and the attention backend are external: each may break any of *)
(* the rules the probe is there to test, and the probe must then not certify.*)
(* The path for the allowlist is optional.                                   *)
EXTENDS Naturals, Sequences, FiniteSets

CONSTANTS
  Ranks,      \* the tensor-parallel ranks probed
  Leader,     \* rank zero, which drives the lease lifecycle
  Faults      \* whether a step of a worker or of main, or a runtime call, may fail

ProbeAssumption == Leader \in Ranks /\ IsFiniteSet(Ranks)

\* What a conforming runtime refuses, and what a conforming backend does not do.
RuntimeRules ==
  {"unlisted_profile", "early_activate", "early_reserve", "live_detach",
   "overflow", "late_reserve", "own_binding"}
BackendRules == {"no_second_pool", "guards_kept", "reads_pool", "unmaps"}
Rules == RuntimeRules \cup BackendRules

Steps ==
  <<"join", "register", "import", "attach", "attached", "activate", "activated",
    "native", "exercised", "finish", "finished", "unmap", "lead_detach",
    "lead_detached", "detach", "detached", "report", "done">>
StepOf == [s \in {Steps[i] : i \in DOMAIN Steps} |->
             CHOOSE i \in DOMAIN Steps : Steps[i] = s]
Barriers == {"join", "attached", "activated", "exercised", "finished",
             "lead_detached", "detached"}
\* Barriers preceded by a broadcast of rank zero's lifecycle facts.
Broadcasts == {"activated", "finished", "lead_detached"}
LeaderSteps == {"activate", "finish", "lead_detach"}

RankGates == {"allocator_attachment", "backend_native_write", "backend_native_read"}
LifecycleFacts ==
  {"activation_after_all_attachments", "live_lease_detach_rejected",
   "heartbeat_renewal", "cancellation_release", "capacity_exhaustion_rejected",
   "post_deactivation_reserve_rejected"}

VARIABLES
  kept,      \* the rules this runtime and this backend keep
  main,      \* where main is
  at,        \* per rank: the index of its step; 0 once it failed or was killed
  gates,     \* per rank: the gates its report claims
  facts,     \* rank zero's lifecycle facts
  got,       \* per rank: the facts of the last broadcast
  files,     \* per rank: its report file, a set that is empty or holds one report
  attached,  \* the ranks the runtime holds an attachment of
  mapped,    \* the ranks whose process maps its binding
  active,    \* whether the runtime serves reservations
  lease,     \* rank zero's live lease: none, live, expired
  beat,      \* its heartbeat thread: off, running, failed (a renewal was refused,
             \* remembered), dead (of another exception)
  report,    \* the report file: old (an earlier run's), passed, failed
  allowlist  \* the file --allowlist-output names: none (not asked for), absent, old, new

vars == <<kept, main, at, gates, facts, got, files, attached, mapped, active,
          lease, beat, report, allowlist>>
worker == <<at, gates, facts, got, files>>
runtime == <<attached, active, lease>>
disk == <<report, allowlist>>

RankReport == [passed : BOOLEAN, gates : SUBSET RankGates, facts : SUBSET LifecycleFacts]

TypeOK ==
  /\ kept \subseteq Rules
  /\ main \in {"start", "checks", "joining", "verdict", "report", "allowlist",
               "print", "failing", "passed", "failed", "raised"}
  /\ at \in [Ranks -> 0 .. Len(Steps)]
  /\ gates \in [Ranks -> SUBSET RankGates]
  /\ facts \subseteq LifecycleFacts /\ got \in [Ranks -> SUBSET LifecycleFacts]
  /\ \A r \in Ranks : files[r] \subseteq RankReport /\ Cardinality(files[r]) <= 1
  /\ attached \subseteq Ranks /\ mapped \subseteq Ranks /\ active \in BOOLEAN
  /\ lease \in {"none", "live", "expired"}
  /\ beat \in {"off", "running", "failed", "dead"}
  /\ report \in {"old", "passed", "failed"}
  /\ allowlist \in {"none", "absent", "old", "new"}

Init ==
  /\ kept \in SUBSET Rules
  /\ main = "start"
  /\ at = [r \in Ranks |-> 1]
  /\ gates = [r \in Ranks |-> {}] /\ facts = {} /\ got = [r \in Ranks |-> {}]
  /\ files = [r \in Ranks |-> {}]
  /\ attached = {} /\ mapped = {} /\ active = FALSE /\ lease = "none" /\ beat = "off"
  /\ report = "old" /\ allowlist \in {"none", "absent", "old"}

-----------------------------------------------------------------------------
(* Main before the workers *)

\* remove_stale_allowlist, if a path is given, comes before anything else that can
\* fail; it is outside the try, so that an unlink that fails ends main.
RemoveStaleAllowlist ==
  /\ main = "start"
  /\ \/ allowlist' = (IF allowlist = "none" THEN "none" ELSE "absent") /\ main' = "checks"
     \/ Faults /\ allowlist # "none" /\ main' = "raised" /\ UNCHANGED allowlist
  /\ UNCHANGED <<kept, worker, runtime, mapped, beat, report>>

\* The devices argument is parsed outside the try: no report is written.
RejectDevices ==
  /\ main = "checks"
  /\ main' = "raised"
  /\ UNCHANGED <<kept, worker, runtime, mapped, beat, disk>>

\* _expect_unallowlisted_profile_rejected, the registration, and
\* _expect_activation_rejected: each refusal the runtime does not make is an
\* AssertionError.
RefusesEarly == {"unlisted_profile", "early_activate", "early_reserve"} \subseteq kept
CheckRuntime ==
  /\ main = "checks"
  /\ \/ RefusesEarly /\ main' = "joining"
     \/ (Faults \/ ~RefusesEarly) /\ main' = "failing"
  /\ UNCHANGED <<kept, worker, runtime, mapped, beat, disk>>

-----------------------------------------------------------------------------
(* A worker *)

Running(r, s) == main = "joining" /\ at[r] = StepOf[s]
Advance(r) == at' = [at EXCEPT ![r] = @ + 1]

\* _LeaseHeartbeat.stop, or the end of its process; a refused renewal stays remembered.
Stopped == IF beat = "running" THEN "off" ELSE beat

\* Any exception: the rank writes a failed report, then its finally clause stops
\* the heartbeat and shuts the hook down.  The live lease is not released: the
\* runtime expires it.
Raise(r) ==
  /\ at' = [at EXCEPT ![r] = 0]
  /\ files' = [files EXCEPT ![r] = {[passed |-> FALSE, gates |-> gates[r], facts |-> got[r]]}]
  /\ mapped' = mapped \ {r}
  /\ beat' = IF r = Leader THEN Stopped ELSE beat
  /\ UNCHANGED <<kept, main, gates, facts, got, disk>>

\* A step on the way that raises for a reason of its own.
Fault(r) ==
  /\ Faults /\ main = "joining" /\ at[r] \in 1 .. Len(Steps) - 1
  /\ Raise(r)
  /\ UNCHANGED runtime

\* A call the runtime carried out whose answer never arrived.
LostReply(r) ==
  /\ Faults /\ main = "joining"
  /\ \/ /\ Running(r, "attach")
        /\ attached' = attached \cup {r} /\ UNCHANGED <<active, lease>>
     \/ /\ r = Leader /\ Running(r, "activate")
        /\ active' = TRUE /\ lease' = "live" /\ UNCHANGED attached
     \/ /\ Running(r, IF r = Leader THEN "lead_detach" ELSE "detach")
        /\ attached' = attached \ {r} /\ active' = FALSE /\ UNCHANGED lease
  /\ Raise(r)

\* init_process_group and the barriers; a broadcast hands out rank zero's facts
\* first.
Cross(r) ==
  /\ main = "joining" /\ at[r] # 0
  /\ Steps[at[r]] \in Barriers
  /\ \A q \in Ranks : at[q] >= at[r]
  /\ got' = IF Steps[at[r]] \in Broadcasts THEN [got EXCEPT ![r] = facts] ELSE got
  /\ Advance(r)
  /\ UNCHANGED <<kept, main, gates, facts, files, runtime, mapped, beat, disk>>

\* What only rank zero, or only the others, do.
Skip(r) ==
  /\ \/ r # Leader /\ \E s \in LeaderSteps : Running(r, s)
     \/ r = Leader /\ Running(r, "detach")
  /\ Advance(r)
  /\ UNCHANGED <<kept, main, gates, facts, got, files, runtime, mapped, beat, disk>>

\* Register again for this process; each rank must be given its own binding.
Register(r) ==
  /\ Running(r, "register")
  /\ Advance(r)
  /\ UNCHANGED <<kept, main, gates, facts, got, files, runtime, mapped, beat, disk>>

\* The hook imports the binding, the pool is filled, and vLLM allocates its
\* cache with torch.zeros poisoned.
Import(r) ==
  /\ Running(r, "import")
  /\ IF "no_second_pool" \in kept
     THEN /\ mapped' = mapped \cup {r}
          /\ Advance(r)
          /\ UNCHANGED <<kept, main, gates, facts, got, files, beat, disk>>
     ELSE Raise(r)
  /\ UNCHANGED runtime

Attach(r) ==
  /\ Running(r, "attach")
  /\ attached' = attached \cup {r}
  /\ gates' = [gates EXCEPT ![r] = @ \cup {"allocator_attachment"}]
  /\ Advance(r)
  /\ UNCHANGED <<kept, main, facts, got, files, mapped, active, lease, beat, disk>>

\* Rank zero activates, reserves a lease and tries to detach under it
\* (_begin_lifecycle_probe); a runtime that lets it is refused.  Then the
\* heartbeat starts with a first renewal.
\* Mutant: a detach that is accepted is not looked at.
Activate_IgnoreDetach(r) ==
  /\ r = Leader /\ Running(r, "activate")
  /\ active' = TRUE /\ lease' = "live"
  /\ facts' = facts \cup {"activation_after_all_attachments", "live_lease_detach_rejected"}
  /\ beat' = "running" /\ Advance(r)
  /\ UNCHANGED <<kept, main, gates, got, files, attached, mapped, disk>>
Activate(r) ==
  /\ r = Leader /\ Running(r, "activate")
  /\ active' = TRUE /\ lease' = "live"
  /\ IF "live_detach" \in kept
     THEN /\ facts' = facts \cup {"activation_after_all_attachments",
                                  "live_lease_detach_rejected"}
          /\ beat' = "running" /\ Advance(r)
          /\ UNCHANGED <<kept, main, gates, got, files, attached, mapped, disk>>
     ELSE attached' = attached \ {r} /\ Raise(r)

\* _run_native_probe: write through vLLM's cache writer, read through its
\* attention against the reference, check the guard bytes of every block.
Native(r) ==
  /\ Running(r, "native")
  /\ IF {"guards_kept", "reads_pool"} \subseteq kept
     THEN /\ gates' = [gates EXCEPT ![r] = @ \cup {"backend_native_write",
                                                   "backend_native_read"}]
          /\ Advance(r)
          /\ UNCHANGED <<kept, main, facts, got, files, mapped, beat, disk>>
     ELSE Raise(r)
  /\ UNCHANGED runtime

\* Rank zero stops the heartbeat (which reports a renewal the runtime refused,
\* not a thread that died of another exception), releases the lease, cancels
\* one, fills the pool and overflows it (_finish_lifecycle_probe).  The runtime
\* may or may not accept the release of a lease that expired.
Finish(r) ==
  /\ r = Leader /\ Running(r, "finish")
  /\ \/ /\ beat # "failed" /\ "overflow" \in kept
        /\ facts' = facts \cup {"heartbeat_renewal", "cancellation_release",
                                "capacity_exhaustion_rejected"}
        /\ lease' = "none" /\ beat' = Stopped /\ Advance(r)
        /\ UNCHANGED <<kept, main, gates, got, files, mapped, disk>>
     \/ /\ beat = "failed" \/ lease = "expired" \/ "overflow" \notin kept
        /\ lease' = IF beat = "failed" THEN lease ELSE "none"
        /\ Raise(r)
  /\ UNCHANGED <<attached, active>>

\* Fence, shut the hook down, drop the views; a mapping that survives is an
\* error, so the detach that follows is never of mapped memory.
Unmap(r) ==
  /\ Running(r, "unmap")
  /\ IF "unmaps" \in kept
     THEN /\ mapped' = mapped \ {r}
          /\ Advance(r)
          /\ UNCHANGED <<kept, main, gates, facts, got, files, beat, disk>>
     ELSE Raise(r)
  /\ UNCHANGED runtime

\* Rank zero detaches first, which ends service, and sees a reservation refused.
LeadDetach(r) ==
  /\ r = Leader /\ Running(r, "lead_detach")
  /\ attached' = attached \ {r} /\ active' = FALSE
  /\ IF "late_reserve" \in kept
     THEN /\ facts' = facts \cup {"post_deactivation_reserve_rejected"}
          /\ Advance(r)
          /\ UNCHANGED <<kept, main, gates, got, files, mapped, lease, beat, disk>>
     ELSE lease' = "live" /\ Raise(r)

Detach(r) ==
  /\ r # Leader /\ Running(r, "detach")
  /\ attached' = attached \ {r}
  /\ Advance(r)
  /\ UNCHANGED <<kept, main, gates, facts, got, files, active, lease, mapped, beat, disk>>

WriteRankReport(r) ==
  /\ Running(r, "report")
  /\ files' = [files EXCEPT ![r] = {[passed |-> TRUE, gates |-> gates[r], facts |-> got[r]]}]
  /\ Advance(r)
  /\ UNCHANGED <<kept, main, gates, facts, got, runtime, mapped, beat, disk>>

\* The heartbeat thread: a renewal the runtime refuses is remembered, any other
\* exception ends the thread unnoticed.
BeatFails ==
  /\ Faults /\ beat = "running"
  /\ beat' \in {"failed", "dead"}
  /\ UNCHANGED <<kept, main, worker, runtime, mapped, disk>>

\* External: the runtime expires a lease nobody renews.
LeaseExpires ==
  /\ lease = "live" /\ beat # "running"
  /\ lease' = "expired"
  /\ UNCHANGED <<kept, main, worker, attached, active, mapped, beat, disk>>

-----------------------------------------------------------------------------
(* Main after the workers *)

\* torch.multiprocessing.spawn ends when every worker returned, or kills the
\* others once one failed; a killed worker runs no finally clause, but its
\* mapping and its threads go with the process.
\* Mutant: a failed worker is waited for like any other.
JoinWorkers_Wait ==
  /\ main = "joining"
  /\ \A r \in Ranks : at[r] = Len(Steps)
  /\ main' = "verdict"
  /\ UNCHANGED <<kept, worker, runtime, mapped, beat, disk>>
JoinWorkers ==
  /\ main = "joining"
  /\ \/ /\ \A r \in Ranks : at[r] = Len(Steps)
        /\ main' = "verdict"
        /\ UNCHANGED <<at, mapped, beat>>
     \/ /\ \E r \in Ranks : at[r] = 0
        /\ at' = [r \in Ranks |-> IF at[r] = Len(Steps) THEN at[r] ELSE 0]
        /\ mapped' = {} /\ beat' = Stopped
        /\ main' = "failing"
  /\ UNCHANGED <<kept, gates, facts, got, files, runtime, disk>>

\* _read_rank_reports and _aggregate_gates: every rank passed every gate, on a
\* binding of its own, and rank zero's lifecycle is complete.
AggregatePasses ==
  /\ \A r \in Ranks : \E f \in files[r] : f.passed /\ f.gates = RankGates
  /\ "own_binding" \in kept
  /\ \A f \in files[Leader] : f.facts = LifecycleFacts

\* validate_certification_report: the same of the report as written, and every
\* rank's lifecycle complete.
ReportValid ==
  /\ \A r \in Ranks :
       \E f \in files[r] : f.passed /\ f.gates = RankGates /\ f.facts = LifecycleFacts
  /\ "own_binding" \in kept

Verdict ==
  /\ main = "verdict"
  /\ main' = IF AggregatePasses /\ ReportValid THEN "report" ELSE "failing"
  /\ UNCHANGED <<kept, worker, runtime, mapped, beat, disk>>

WriteReport ==
  /\ main = "report"
  /\ \/ report' = "passed" /\ main' = "allowlist"
     \/ Faults /\ main' = "failing" /\ UNCHANGED report
  /\ UNCHANGED <<kept, worker, runtime, mapped, beat, allowlist>>

\* Only with a path for it; write_allowlist_atomic validates the report once more.
WriteAllowlist ==
  /\ main = "allowlist"
  /\ \/ allowlist = "none" /\ main' = "print" /\ UNCHANGED allowlist
     \/ allowlist # "none" /\ ReportValid /\ allowlist' = "new" /\ main' = "print"
     \/ /\ allowlist # "none" /\ (Faults \/ ~ReportValid)
        /\ main' = "failing" /\ UNCHANGED allowlist
  /\ UNCHANGED <<kept, worker, runtime, mapped, beat, report>>

\* Printing the verdict is still inside the try: an interrupt or a closed stdout
\* makes a failed report of it and leaves the allowlist.
PrintVerdict ==
  /\ main = "print"
  /\ \/ main' = "passed"
     \/ Faults /\ main' = "failing"
  /\ UNCHANGED <<kept, worker, runtime, mapped, beat, disk>>

\* except BaseException: a failed report replaces whatever is there.  Writing it may
\* fail as well, and so may the print after it: then main raises.
WriteFailure ==
  /\ main = "failing"
  /\ \/ main' = "failed" /\ report' = "failed"
     \/ Faults /\ main' = "raised" /\ report' \in {report, "failed"}
  /\ UNCHANGED <<kept, worker, runtime, mapped, beat, allowlist>>

MainStep ==
  \/ RemoveStaleAllowlist
  \/ RejectDevices
  \/ CheckRuntime
  \/ JoinWorkers
  \/ Verdict
  \/ WriteReport
  \/ WriteAllowlist
  \/ PrintVerdict
  \/ WriteFailure

WorkerStep(r) ==
  \/ Cross(r)
  \/ Skip(r)
  \/ Register(r)
  \/ Import(r)
  \/ Attach(r)
  \/ Activate(r)
  \/ Native(r)
  \/ Finish(r)
  \/ Unmap(r)
  \/ LeadDetach(r)
  \/ Detach(r)
  \/ WriteRankReport(r)

Next ==
  \/ MainStep
  \/ \E r \in Ranks : WorkerStep(r) \/ Fault(r) \/ LostReply(r)
  \/ BeatFails
  \/ LeaseExpires

\* Processes run, and the runtime's expiry timer fires.
Spec ==
  /\ Init /\ [][Next]_vars
  /\ WF_vars(MainStep)
  /\ \A r \in Ranks : WF_vars(WorkerStep(r))
  /\ WF_vars(LeaseExpires)

-----------------------------------------------------------------------------
(* Properties *)

\* A passed report or a fresh allowlist (validate_certification_report,
\* _aggregate_gates) means that the runtime and the backend kept every rule the
\* probe tests: no breach on any rank gets past the gates.
CertifiedMeansConforming ==
  report = "passed" \/ allowlist = "new" => kept = Rules

\* The native writes and reads of _run_native_probe happen only while every rank
\* is mapped and attached and the pool is served: no rank is behind a barrier of
\* _rank_worker or ahead of one.
NativeOnServedPool ==
  \A r \in Ranks :
    Running(r, "native") /\ (\A q \in Ranks : at[q] # 0) =>
      attached = Ranks /\ mapped = Ranks /\ active

\* Against a runtime that refuses to detach under a live lease, a rank the
\* runtime no longer holds has no mapping left: detach is only claimed for
\* memory that is unmapped (_rank_worker).
DetachedIsUnmapped ==
  "live_detach" \in kept =>
    \A r \in Ranks : at[r] > StepOf["attach"] /\ r \notin attached => r \notin mapped

\* A report this run wrote is never beside a tuple of an earlier run at the path the
\* run was given, "Leaving an older successful tuple beside a newer failed report is
\* unsafe." (remove_stale_allowlist), and the exit status is that of the files: with
\* status 0 the report passed and the allowlist, if asked for, is this run's; with
\* status 1 the report failed.  Where main raises the files may disagree.
AllowlistIsThisRuns ==
  /\ report # "old" => allowlist # "old"
  /\ main = "passed" => report = "passed" /\ allowlist \in {"none", "new"}
  /\ main = "failed" => report = "failed"

\* A renewal that the runtime refused (_LeaseHeartbeat._run) while the workers went on
\* keeps the run from certifying, although it is remembered in rank zero's thread
\* only: it has to reach main through stop, the broadcasts and the rank reports.
RefusedRenewalFails == beat = "failed" => report # "passed" /\ allowlist # "new"

\* The probe ends although a worker failed while the others wait for it at a
\* barrier, and whatever it leaves behind at the runtime expires.
ProbeEnds == <>(main \in {"passed", "failed", "raised"}) /\ <>[](lease # "live")

\* Files that certify are of this run and of a runtime and a backend that kept every
\* rule, tested in the order the barriers of _rank_worker prescribe.
CertificateIsEarned ==
  /\ TypeOK
  /\ CertifiedMeansConforming
  /\ NativeOnServedPool
  /\ DetachedIsUnmapped
  /\ AllowlistIsThisRuns
  /\ RefusedRenewalFails
=============================================================================
