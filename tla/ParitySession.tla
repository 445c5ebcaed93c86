---------------------------- MODULE ParitySession ----------------------------
(* The owned-process certification of conformance/parity.py (certify): the   *)
(* sessions of an ABBA sequence, each of which launches a runtime in a       *)
(* process group of its own, waits until the model is ready, measures it     *)
(* over HTTP, stops the group and records a capture; then the report.        *)
(* The runtime may crash at any moment, leave a helper behind, ignore        *)
(* SIGTERM, activate the wrong route or answer wrongly, log its route before *)
(* or after it serves, and a stranger may answer at the URL.                 *)
(*                                                                           *)
(* Gates have their default values.  Latency, throughput, memory and start   *)
(* time are one verdict, chosen when the report is built; an output tensor   *)
(* is a number, equal numbers being tensors within the tolerance.            *)
EXTENDS Integers, Sequences

CONSTANTS
  Outputs,      \* output tensors that differ by more than the tolerance
  MaxSequence,  \* bound: sessions of a configuration
  MaxFaults     \* bound: faults of the runtimes in one certification

ParityAssumption == Outputs \subseteq Nat /\ Outputs # {} /\ {MaxSequence, MaxFaults} \subseteq Nat

FirstOutput == CHOOSE t \in Outputs : TRUE
Variants == {"baseline", "candidate"}
Members == {"leader", "helper"}
Free == 0
Stray == -1     \* a server that is not of this certification
\* Who gives an answer: the session's own runtime, that of another session, or a stranger.
Answerers == {"own", "other", "stray"}

\* What capture_running_endpoint asks the runtime for, at one concurrency point.
Phases == <<"snapshot", "reference", "warmup", "snapshot", "trial", "snapshot">>

VARIABLES
  pc,
  sequence,   \* config["sequence"]
  i,          \* session_index
  alive,      \* living members of process groups: <<session, member>>
  port,       \* who answers at base_url: a session, Stray or Free
  log,        \* what the session's runtime will have logged when its log is read: empty
              \* before the first session, right, wrong (a marker missing or forbidden)
  step,       \* place in Phases
  raised,     \* the exception on its way out: no, parity, other
  answered,   \* who gave the session's answers so far
  failed,     \* a warmup or measured request failed or changed its output
  tensor,     \* the session's reference output
  sampled,    \* the RSS sampler has a value
  captures,   \* captures of the sessions done
  rss,        \* variants with RSS evidence
  report,     \* report.json: none, passed, failed
  exit,       \* exit status, -1 while running
  faults      \* faults of the runtimes so far

session_vars == <<log, step, answered, failed, tensor, sampled>>
vars == <<pc, sequence, i, alive, port, session_vars, raised, captures, rss, report, exit, faults>>

InSession == {"waiting", "probing", "capture", "stop", "grace"}
Captures == [variant : Variants, answered : SUBSET Answerers, failed : BOOLEAN,
             tensor : Outputs, route : BOOLEAN]

TypeOK ==
  /\ pc \in InSession \cup {"config", "output", "launch", "stopped", "write", "report",
                            "markdown", "done"}
  /\ sequence \in Seq(Variants) /\ i \in 0 .. Len(sequence)
  /\ alive \subseteq (1 .. Len(sequence)) \X Members
  /\ port \in Stray .. Len(sequence)
  /\ log \in {"empty", "right", "wrong"} /\ step \in 1 .. Len(Phases) + 1
  /\ raised \in {"no", "parity", "other"}
  /\ answered \subseteq Answerers /\ failed \in BOOLEAN /\ tensor \in Outputs /\ sampled \in BOOLEAN
  /\ captures \in Seq(Captures) /\ Len(captures) <= Len(sequence)
  /\ rss \subseteq Variants
  /\ report \in {"none", "passed", "failed"} /\ exit \in -1 .. 2 /\ faults \in 0 .. MaxFaults

Init ==
  /\ pc = "config" /\ sequence = <<>> /\ i = 0 /\ alive = {} /\ port = Free
  /\ log = "empty" /\ step = 1 /\ answered = {} /\ failed = FALSE /\ sampled = FALSE
  /\ tensor = FirstOutput
  /\ raised = "no" /\ captures = <<>> /\ rss = {} /\ report = "none" /\ exit = -1 /\ faults = 0

\* A step that is a fault of the runtime if bad.
Fault(bad) == faults' = (IF bad THEN faults + 1 ELSE faults) /\ faults' <= MaxFaults

Group(k) == {a \in alive : a[1] = k}

\* Members die; a group with nobody left gives up the port.
Dies(members) ==
  /\ alive' = alive \ members
  /\ port' = IF port > 0 /\ Group(port) \subseteq members THEN Free ELSE port

-----------------------------------------------------------------------------
(* The runtime, and who else may serve at the URL (external). *)

Bind ==
  /\ <<i, "leader">> \in alive /\ port = Free
  /\ port' = i
  /\ UNCHANGED <<pc, sequence, i, alive, session_vars, raised, captures, rss, report, exit, faults>>

\* Another server takes the free port, or gives it up.
Stranger ==
  /\ port \in {Free, Stray} /\ port' \in {Free, Stray} \ {port} /\ Fault(TRUE)
  /\ UNCHANGED <<pc, sequence, i, alive, session_vars, raised, captures, rss, report, exit>>

\* A member ends on its own.
MemberEnds ==
  /\ \E a \in alive : Dies({a}) /\ Fault(a[2] = "leader")
  /\ UNCHANGED <<pc, sequence, i, session_vars, raised, captures, rss, report, exit>>

-----------------------------------------------------------------------------
(* Configuration and output directory *)

ABBA == <<"baseline", "candidate", "candidate", "baseline">>
IsABBA(s) ==
  /\ s # <<>> /\ Len(s) % Len(ABBA) = 0
  /\ \A k \in 1 .. Len(s) : s[k] = ABBA[((k - 1) % Len(ABBA)) + 1]

\* well_formed: types, ranges, unique identifiers, commits; alike: command, working
\* directory and URL are equal and the environments differ as allowed.
Configurations ==
  [well_formed : BOOLEAN, model : {"unnamed", "named", "differs"}, alike : BOOLEAN,
   switches : [Variants -> {"0", "1"}], markers : SUBSET Variants, rss_interval : {0, 1},
   sequence : UNION {[1 .. n -> Variants] : n \in 0 .. MaxSequence}]
ConfigAccepted(c) ==
  /\ c.well_formed /\ c.model # "differs" /\ c.alike
  /\ c.switches = [v \in Variants |-> IF v = "baseline" THEN "0" ELSE "1"]
  /\ c.markers = Variants /\ c.rss_interval > 0
  /\ IsABBA(c.sequence)

Leave(status) == pc' = "done" /\ exit' = status

ResolveConfig ==
  /\ pc = "config"
  /\ \E c \in Configurations :
       IF ConfigAccepted(c)
       THEN pc' = "output" /\ sequence' = c.sequence /\ UNCHANGED exit
       ELSE Leave(2) /\ UNCHANGED sequence
  /\ UNCHANGED <<i, alive, port, session_vars, raised, captures, rss, report, faults>>

\* A directory that is not empty is refused.
PrepareOutput ==
  /\ pc = "output"
  /\ \/ pc' = "launch" /\ i' = 1 /\ UNCHANGED exit
     \/ Leave(2) /\ UNCHANGED i
  /\ UNCHANGED <<sequence, alive, port, session_vars, raised, captures, rss, report, faults>>

-----------------------------------------------------------------------------
(* run_variant_session *)

\* Popen starts a session of its own, in which the runtime may start a helper.  The
\* runtime logs its route at a time of its own, whether it could bind or not.  An
\* OSError of Popen or of the log file is nobody's to catch.
Launch ==
  /\ pc = "launch"
  /\ \/ /\ \E g \in {{"leader"}, Members} : alive' = alive \cup {<<i, m>> : m \in g}
        /\ log' \in {"right", "wrong"} /\ Fault(log' = "wrong")
        /\ step' = 1 /\ answered' = {} /\ failed' = FALSE /\ tensor' = FirstOutput
        /\ sampled' = FALSE
        /\ pc' = "waiting" /\ UNCHANGED exit
     \/ Leave(1) /\ UNCHANGED <<alive, session_vars, faults>>
  /\ UNCHANGED <<sequence, i, port, raised, captures, rss, report>>

\* RssSampler._run, while the process it was given exists.
Sample ==
  /\ pc \in InSession \ {"stop", "grace"} /\ <<i, "leader">> \in alive
  /\ sampled' = TRUE
  /\ UNCHANGED <<pc, sequence, i, alive, port, log, step, answered, failed, tensor,
                 raised, captures, rss, report, exit, faults>>

Raise(kind) == pc' = "stop" /\ raised' = kind

\* wait_ready: is the process still there?
Poll ==
  /\ pc = "waiting"
  /\ IF <<i, "leader">> \in alive THEN pc' = "probing" /\ UNCHANGED raised ELSE Raise("parity")
  /\ UNCHANGED <<sequence, i, alive, port, session_vars, captures, rss, report, exit, faults>>

Answerer == IF port = i THEN "own" ELSE IF port = Stray THEN "stray" ELSE "other"
Heard == IF port = Free THEN answered ELSE answered \cup {Answerer}

\* wait_ready: is the model active?  Every exception is retried.
Probe ==
  /\ pc = "probing"
  /\ \/ port # Free /\ pc' = "capture" /\ answered' = Heard
     \/ pc' = "waiting" /\ UNCHANGED answered
  /\ UNCHANGED <<sequence, i, alive, port, log, step, failed, tensor, sampled,
                 raised, captures, rss, report, exit, faults>>

WaitTimesOut ==
  /\ pc \in {"waiting", "probing"}
  /\ Raise("parity")
  /\ UNCHANGED <<sequence, i, alive, port, session_vars, captures, rss, report, exit, faults>>

Asks(phases) == pc = "capture" /\ step <= Len(Phases) /\ Phases[step] \in phases

\* get_json and post_json turn most failures into ParityError; a connection that
\* is closed before the answer or within it is not one of them.
AskFails ==
  /\ Asks({"snapshot", "reference"})
  /\ \E kind \in IF port = Free THEN {"parity"} ELSE {"parity", "other"} : Raise(kind)
  /\ UNCHANGED <<sequence, i, alive, port, session_vars, captures, rss, report, exit, faults>>

Snapshot ==
  /\ Asks({"snapshot"}) /\ port # Free
  /\ step' = step + 1 /\ answered' = Heard
  /\ UNCHANGED <<pc, sequence, i, alive, port, log, failed, tensor, sampled,
                 raised, captures, rss, report, exit, faults>>

Reference ==
  /\ Asks({"reference"}) /\ port # Free
  /\ tensor' \in Outputs /\ Fault(tensor' # FirstOutput)
  /\ step' = step + 1 /\ answered' = Heard
  /\ UNCHANGED <<pc, sequence, i, alive, port, log, failed, sampled,
                 raised, captures, rss, report, exit>>

\* All requests of a warmup or a trial; what goes wrong in one is counted.
RunRequests ==
  /\ Asks({"warmup", "trial"})
  /\ \E bad \in BOOLEAN : failed' = (failed \/ port = Free \/ bad) /\ Fault(bad)
  /\ step' = step + 1 /\ answered' = Heard
  /\ UNCHANGED <<pc, sequence, i, alive, port, log, tensor, sampled,
                 raised, captures, rss, report, exit>>

EndCapture ==
  /\ pc = "capture" /\ step > Len(Phases)
  /\ Raise("no")
  /\ UNCHANGED <<sequence, i, alive, port, session_vars, captures, rss, report, exit, faults>>

\* stop_process: SIGTERM to the group, which some of its members do not obey.
Terminate ==
  /\ pc = "stop"
  /\ \E obeys \in SUBSET Group(i) : Dies(obeys)
  /\ pc' = "grace"
  /\ UNCHANGED <<sequence, i, session_vars, raised, captures, rss, report, exit, faults>>

\* stop_process: when the group is gone or the time is up, SIGKILL to the group.
\* Mutant: only the process itself.
Kill_Leader ==
  /\ pc = "grace"
  /\ Dies({<<i, "leader">>})
  /\ pc' = "stopped"
  /\ UNCHANGED <<sequence, i, session_vars, raised, captures, rss, report, exit, faults>>
Kill ==
  /\ pc = "grace"
  /\ Dies(Group(i))
  /\ pc' = "stopped"
  /\ UNCHANGED <<sequence, i, session_vars, raised, captures, rss, report, exit, faults>>

\* verify_log and the process record; after an exception there is no capture.  A log
\* or an executable that cannot be read is a ParityError.
EndSession ==
  /\ pc = "stopped"
  /\ \/ /\ raised = "no"
        /\ captures' = Append(captures, [variant |-> sequence[i], answered |-> answered,
                                         failed |-> failed, tensor |-> tensor,
                                         route |-> log = "right"])
        /\ rss' = IF sampled THEN rss \cup {sequence[i]} ELSE rss
        /\ pc' = "write" /\ UNCHANGED exit
     \/ Leave(IF raised = "other" THEN 1 ELSE 2) /\ UNCHANGED <<captures, rss>>
  /\ UNCHANGED <<sequence, i, alive, port, session_vars, raised, report, faults>>

-----------------------------------------------------------------------------
(* certify_command, after a session *)

WriteCapture ==
  /\ pc = "write"
  /\ \/ i < Len(sequence) /\ i' = i + 1 /\ pc' = "launch" /\ UNCHANGED exit
     \/ i = Len(sequence) /\ pc' = "report" /\ UNCHANGED <<i, exit>>
     \/ Leave(1) /\ UNCHANGED i
  /\ UNCHANGED <<sequence, alive, port, session_vars, raised, captures, rss, report, faults>>

Of(variant) == {k \in 1 .. Len(captures) : captures[k].variant = variant}
FirstBaseline == CHOOSE k \in Of("baseline") : \A j \in Of("baseline") : k <= j

\* build_report: the gates but the one over measured numbers.
GatesPass ==
  /\ \A k \in 1 .. Len(captures) :
       /\ captures[k].route /\ ~captures[k].failed
       /\ captures[k].tensor = captures[FirstBaseline].tensor
  /\ rss = Variants

BuildReport ==
  /\ pc = "report"
  /\ \/ /\ \E within \in BOOLEAN :
             report' = IF GatesPass /\ within THEN "passed" ELSE "failed"
        /\ pc' = "markdown" /\ UNCHANGED exit
     \/ Leave(1) /\ UNCHANGED report
  /\ UNCHANGED <<sequence, i, alive, port, session_vars, raised, captures, rss, faults>>

WriteMarkdown ==
  /\ pc = "markdown"
  /\ \/ Leave(IF report = "passed" THEN 0 ELSE 1)
     \/ Leave(1)
  /\ UNCHANGED <<sequence, i, alive, port, session_vars, raised, captures, rss, report, faults>>

Harness ==
  \/ ResolveConfig \/ PrepareOutput \/ Launch \/ Poll \/ Probe \/ WaitTimesOut
  \/ AskFails \/ Snapshot \/ Reference \/ RunRequests \/ EndCapture
  \/ Terminate \/ Kill \/ EndSession \/ WriteCapture \/ BuildReport \/ WriteMarkdown

Next == Harness \/ Sample \/ Bind \/ Stranger \/ MemberEnds

Spec == Init /\ [][Next]_vars
FairSpec == Spec /\ WF_vars(Harness) /\ WF_vars(WaitTimesOut)

-----------------------------------------------------------------------------
(* Properties *)

\* At most one runtime is alive, and none outside its session: whatever crashed,
\* raised or ignored SIGTERM, the group is gone before the next session starts and
\* before certify ends.
GroupsTornDown ==
  \A a \in alive : a[1] = i /\ pc \in InSession

\* A report passes only for a complete, balanced sequence in which each session's own
\* runtime logged its route, no request failed and all outputs agree, and in which no
\* session was answered by the runtime of another one: the groups are torn down before
\* the next Launch.  Nothing ties the answers at base_url to the process that was
\* launched: a stranger that serves there is measured in its place (wait_ready).
PassedIsMeasured ==
  report = "passed" =>
    /\ [k \in 1 .. Len(captures) |-> captures[k].variant] = sequence
    /\ \A k, j \in 1 .. Len(captures) :
         /\ captures[k].answered \subseteq {"own", "stray"} /\ captures[k].route
         /\ ~captures[k].failed /\ captures[k].tensor = captures[j].tensor

\* The certification ends, whatever the runtime does: every wait has its timeout.
CertifyEnds == <>(exit # -1)

\* A certification that passes was measured session by session, each with the one
\* runtime that it launched alive and with no answer of another session's.
VerdictIsMeasured ==
  /\ TypeOK
  /\ GroupsTornDown
  /\ PassedIsMeasured
=============================================================================
