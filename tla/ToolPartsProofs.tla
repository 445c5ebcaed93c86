-------------------------- MODULE ToolPartsProofs --------------------------
(* Theorems about the repository's commands: the parity certification, the    *)
(* certification probe, the release of packs and the KV planner.  Each has an *)
(* inductive invariant of its own (ParityInv, ProbeInv, ReleaseInv, PlanInv), *)
(* which holds in the behaviours of every command, as a command that does not *)
(* run stays where it starts.  What a plan promises rests on the planner's    *)
(* arithmetic and sums, proved for any word width, geometry and policy.       *)
EXTENDS MCToolParts, SequenceTheorems, FiniteSetTheorems, TLAPS

-----------------------------------------------------------------------------
(* The parity certification. *)

Stray == Parity!Stray
Free == Parity!Free

LEMMA ParityConstants ==
  /\ Outputs # {} /\ MaxSequence \in Nat /\ MaxFaults \in Nat /\ Parity!FirstOutput \in Outputs
  /\ Len(Parity!Phases) \in Nat /\ Stray = -1 /\ Free = 0
BY PartsAssumption DEF PartsAssumption, Parity!ParityAssumption, Parity!FirstOutput,
                       Parity!Phases, Stray, Free, Parity!Stray, Parity!Free

\* The runtime of the running session is the only one alive, and the port is its own,
\* nobody's, or a stranger's.
Alone ==
  /\ Parity!GroupsTornDown
  /\ port \in {Free, Stray, session}
  /\ port > 0 => \E a \in alive : a[1] = port

\* Only the session's own runtime and strangers have answered.
Honest == answered \subseteq {"own", "stray"}

\* Where the harness is says how many sessions are recorded.
Counted ==
  /\ parity_pc = "config" => session = 0 /\ Len(captures) = 0
  /\ parity_pc = "output" => session = 0 /\ Len(captures) = 0 /\ Len(sequence) >= 1
  /\ parity_pc \in Parity!InSession \cup {"launch", "stopped"} =>
       session >= 1 /\ Len(captures) = session - 1
  /\ parity_pc = "write" => session >= 1 /\ Len(captures) = session
  /\ parity_pc \in {"report", "markdown"} => Len(captures) = Len(sequence)

\* The captures are of the sequence, and none was answered by another session's runtime.
Recorded ==
  \A k \in 1 .. Len(captures) :
    captures[k].variant = sequence[k] /\ captures[k].answered \subseteq {"own", "stray"}

Judged ==
  /\ verdict # "none" => parity_pc \in {"markdown", "done"}
  /\ verdict = "passed" => Len(captures) = Len(sequence) /\ Parity!GatesPass

ParityInv == Parity!TypeOK /\ Alone /\ Honest /\ Counted /\ Recorded /\ Judged

LEMMA ParityInit == Parity!Init => ParityInv
<1> SUFFICES ASSUME Parity!Init PROVE ParityInv
  OBVIOUS
<1>1. /\ parity_pc = "config" /\ sequence = <<>> /\ session = 0 /\ alive = {} /\ port \in {Free, Stray}
      /\ log = "empty" /\ step = 1 /\ answered = {} /\ failed = FALSE /\ sampled = FALSE
      /\ tensor = Parity!FirstOutput
  BY DEF Parity!Init, Free, Stray
<1>2. exception = "no" /\ captures = <<>> /\ rss = {} /\ verdict = "none" /\ status = -1 /\ faults = 0
  BY DEF Parity!Init
<1>3. /\ sequence \in Seq(Parity!Variants) /\ Len(sequence) = 0
      /\ captures \in Seq(Parity!Captures) /\ Len(captures) = 0
  BY <1>1, <1>2
<1>4. Parity!TypeOK
  <2>1. /\ session \in 0 .. Len(sequence) /\ port \in Parity!Stray .. Len(sequence)
        /\ step \in 1 .. Len(Parity!Phases) + 1 /\ Len(captures) <= Len(sequence)
        /\ status \in -1 .. 2 /\ faults \in 0 .. MaxFaults
    BY <1>1, <1>2, <1>3, ParityConstants DEF Stray
  <2> QED
    BY <1>1, <1>2, <1>3, <2>1, ParityConstants DEF Parity!TypeOK
<1>5. Alone
  BY <1>1, ParityConstants DEF Alone, Parity!GroupsTornDown
<1>6. Honest
  BY <1>1 DEF Honest
<1>7. Counted
  BY <1>1, <1>3 DEF Counted, Parity!InSession
<1>8. Recorded
  BY <1>3 DEF Recorded
<1>9. Judged
  BY <1>1, <1>2 DEF Judged
<1> QED
  BY <1>4, <1>5, <1>6, <1>7, <1>8, <1>9 DEF ParityInv

Books == <<sequence, session, captures, rss, verdict, status>>

\* A step within the session that leaves the processes alone.
LEMMA InSessionStep ==
  ASSUME ParityInv, UNCHANGED <<Books, alive, port>>, parity_pc \in Parity!InSession,
         parity_pc' \in Parity!InSession, log' = log, step' \in 1 .. Len(Parity!Phases) + 1,
         exception' \in {"no", "parity", "other"}, failed' \in BOOLEAN,
         tensor' \in Outputs, sampled' \in BOOLEAN, faults' \in 0 .. MaxFaults,
         answered' \subseteq {"own", "stray"}
  PROVE  ParityInv'
<1>1. UNCHANGED <<sequence, session, captures, rss, verdict, status, alive, port>>
  BY DEF Books
<1>2. Parity!TypeOK'
  BY <1>1 DEF ParityInv, Parity!TypeOK, Parity!Answerers
<1>3. Alone'
  BY <1>1 DEF ParityInv, Alone, Parity!GroupsTornDown
<1>4. Honest'
  BY DEF Honest
<1>5. Counted'
  BY <1>1 DEF ParityInv, Counted, Parity!InSession
<1>6. Recorded'
  BY <1>1 DEF ParityInv, Recorded
<1>7. Judged'
  BY <1>1 DEF ParityInv, Judged, Parity!InSession
<1> QED
  BY <1>2, <1>3, <1>4, <1>5, <1>6, <1>7 DEF ParityInv

LEMMA ParityTypes ==
  ASSUME ParityInv
  PROVE  /\ step \in 1 .. Len(Parity!Phases) + 1 /\ exception \in {"no", "parity", "other"}
         /\ failed \in BOOLEAN /\ tensor \in Outputs /\ sampled \in BOOLEAN
         /\ faults \in 0 .. MaxFaults /\ log \in {"empty", "right", "wrong"}
         /\ answered \subseteq {"own", "stray"} /\ Parity!Heard \subseteq {"own", "stray"}
<1>1. answered \subseteq {"own", "stray"} /\ port \in {Free, Stray, session}
  BY DEF ParityInv, Honest, Alone
<1>2. Parity!Heard \subseteq {"own", "stray"}
  BY <1>1 DEF Parity!Heard, Parity!Answerer, Free, Stray
<1> QED
  BY <1>1, <1>2 DEF ParityInv, Parity!TypeOK

LEMMA SessionSteps ==
  ASSUME ParityInv,
         \/ Parity!Sample \/ Parity!Poll \/ Parity!Probe \/ Parity!WaitTimesOut
         \/ Parity!AskFails \/ Parity!Snapshot \/ Parity!EndCapture
  PROVE  ParityInv'
<1>1. UNCHANGED <<Books, alive, port>> /\ UNCHANGED <<log, failed, tensor, faults>>
  BY DEF Parity!Sample, Parity!Poll, Parity!Probe, Parity!WaitTimesOut, Parity!AskFails,
         Parity!Snapshot, Parity!EndCapture, Parity!session_vars, Books
<1>2. /\ parity_pc \in Parity!InSession /\ parity_pc' \in Parity!InSession
      /\ exception' \in {exception, "no", "parity", "other"}
      /\ sampled' \in {sampled, TRUE}
  BY DEF Parity!Sample, Parity!Poll, Parity!Probe, Parity!WaitTimesOut, Parity!AskFails,
         Parity!Snapshot, Parity!EndCapture, Parity!session_vars, Parity!InSession,
         Parity!Raise, Parity!Asks
<1>3. /\ step' = step \/ (step <= Len(Parity!Phases) /\ step' = step + 1)
      /\ answered' \in {answered, Parity!Heard}
  BY DEF Parity!Sample, Parity!Poll, Parity!Probe, Parity!WaitTimesOut, Parity!AskFails,
         Parity!Snapshot, Parity!EndCapture, Parity!session_vars, Parity!Asks
<1>4. step' \in 1 .. Len(Parity!Phases) + 1
  BY <1>3, ParityTypes, ParityConstants
<1>5. answered' \subseteq {"own", "stray"}
  BY <1>3, ParityTypes
<1> QED
  BY <1>1, <1>2, <1>4, <1>5, ParityTypes, InSessionStep

LEMMA FaultCounted ==
  ASSUME ParityInv, NEW bad, Parity!Fault(bad) PROVE faults' \in 0 .. MaxFaults
BY ParityTypes, ParityConstants DEF Parity!Fault

LEMMA AnswerSteps ==
  ASSUME ParityInv, Parity!Reference \/ Parity!RunRequests PROVE ParityInv'
<1>1. UNCHANGED <<Books, alive, port>> /\ UNCHANGED <<log, sampled, exception, parity_pc>>
  BY DEF Parity!Reference, Parity!RunRequests, Books
<1>2. parity_pc \in Parity!InSession /\ step <= Len(Parity!Phases) /\ step' = step + 1
  BY DEF Parity!Reference, Parity!RunRequests, Parity!Asks, Parity!InSession
<1>3. faults' \in 0 .. MaxFaults
  BY FaultCounted DEF Parity!Reference, Parity!RunRequests
<1>4. step' \in 1 .. Len(Parity!Phases) + 1
  BY <1>2, ParityTypes, ParityConstants
<1>5. tensor' \in Outputs /\ failed' \in BOOLEAN
  BY ParityTypes DEF Parity!Reference, Parity!RunRequests
<1>6. answered' \subseteq {"own", "stray"}
  BY ParityTypes DEF Parity!Reference, Parity!RunRequests
<1> QED
  BY <1>1, <1>2, <1>3, <1>4, <1>5, <1>6, ParityTypes, InSessionStep

\* A step that leaves the records alone, as far as the records are concerned.
LEMMA SameBooks ==
  ASSUME ParityInv, UNCHANGED Books
  PROVE  /\ UNCHANGED <<sequence, session, captures, rss, verdict, status>> /\ Recorded'
         /\ verdict = "passed" => Len(captures') = Len(sequence') /\ Parity!GatesPass'
<1>1. UNCHANGED <<sequence, session, captures, rss, verdict, status>>
  BY DEF Books
<1>2. Recorded'
  BY <1>1 DEF ParityInv, Recorded
<1>3. Parity!GatesPass' = Parity!GatesPass
  BY <1>1 DEF Parity!GatesPass, Parity!FirstBaseline, Parity!Of
<1> QED
  BY <1>1, <1>2, <1>3 DEF ParityInv, Judged

LEMMA DiesAlone ==
  ASSUME ParityInv, NEW gone, Parity!Dies(gone), session' = session
  PROVE  /\ alive' \subseteq alive /\ alive' = alive \ gone
         /\ port' \in {Free, Stray, session} /\ (port' > 0 => \E a \in alive' : a[1] = port')
         /\ port' = Stray <=> port = Stray
<1>1. port \in {Free, Stray, session} /\ (port > 0 => \E a \in alive : a[1] = port)
  BY DEF ParityInv, Alone
<1>2. alive' = alive \ gone
      /\ port' = IF port > 0 /\ Parity!Group(port) \subseteq gone THEN Free ELSE port
  BY DEF Parity!Dies, Free
<1>3. port \in Int
  BY DEF ParityInv, Parity!TypeOK, Parity!Stray
<1>4. port' > 0 => \E a \in alive' : a[1] = port'
  <2> SUFFICES ASSUME port' > 0 PROVE \E a \in alive' : a[1] = port'
    OBVIOUS
  <2>1. port' = port /\ ~(Parity!Group(port) \subseteq gone)
    BY <1>2, <1>3, ParityConstants
  <2> QED
    BY <1>2, <2>1 DEF Parity!Group
<1> QED
  BY <1>1, <1>2, <1>3, <1>4, ParityConstants

\* A process of the running session binds the port or dies.
LEMMA ProcessSteps ==
  ASSUME ParityInv, Parity!Bind \/ Parity!MemberEnds \/ Parity!Terminate \/ Parity!Kill
  PROVE  ParityInv'
<1>1. UNCHANGED Books /\ UNCHANGED <<log, step, answered, failed, tensor, sampled, exception>>
  BY DEF Parity!Bind, Parity!MemberEnds, Parity!Terminate, Parity!Kill, Books, Parity!session_vars
<1>2. /\ UNCHANGED <<sequence, session, captures, rss, verdict, status>> /\ Recorded'
      /\ verdict = "passed" => Len(captures') = Len(sequence') /\ Parity!GatesPass'
  BY <1>1, SameBooks
<1>3. /\ Parity!GroupsTornDown /\ port \in {Free, Stray, session}
      /\ port > 0 => \E a \in alive : a[1] = port
  BY DEF ParityInv, Alone
<1>4. /\ parity_pc \in Parity!InSession /\ parity_pc' \in Parity!InSession \cup {"stopped"}
      /\ parity_pc' = "stopped" => Parity!Kill
  BY <1>3 DEF Parity!Bind, Parity!MemberEnds, Parity!Terminate, Parity!Kill,
              Parity!GroupsTornDown, Parity!InSession
<1>5. /\ alive' \subseteq alive /\ (parity_pc' = "stopped" => alive' = {})
      /\ port' \in {Free, Stray, session} /\ (port' > 0 => \E a \in alive' : a[1] = port')
      /\ faults' \in 0 .. MaxFaults
  <2>1. CASE Parity!Bind
    <3>1. <<session, "leader">> \in alive /\ port = Free /\ port' = session /\ alive' = alive
      BY <2>1 DEF Parity!Bind, Free
    <3>2. session \in Nat
      BY DEF ParityInv, Parity!TypeOK
    <3>3. \E a \in alive' : a[1] = port'
      BY <3>1
    <3>4. faults' \in 0 .. MaxFaults
      BY <2>1, ParityTypes DEF Parity!Bind
    <3>5. parity_pc' # "stopped"
      BY <1>4, <2>1 DEF Parity!Bind, Parity!InSession
    <3> QED
      BY <3>1, <3>2, <3>3, <3>4, <3>5, ParityConstants
  <2>2. CASE Parity!MemberEnds
    <3>1. PICK a \in alive : Parity!Dies({a}) /\ Parity!Fault(a[2] = "leader")
      BY <2>2 DEF Parity!MemberEnds
    <3>2. parity_pc' = parity_pc
      BY <2>2 DEF Parity!MemberEnds
    <3>3. faults' \in 0 .. MaxFaults
      BY <3>1, FaultCounted
    <3>4. parity_pc # "stopped"
      BY <1>4 DEF Parity!InSession
    <3> QED
      BY <1>2, <3>1, <3>2, <3>3, <3>4, DiesAlone, ParityTypes
  <2>3. CASE Parity!Terminate
    <3>1. PICK gone : Parity!Dies(gone)
      BY <2>3 DEF Parity!Terminate
    <3>2. parity_pc' = "grace" /\ faults' = faults
      BY <2>3 DEF Parity!Terminate
    <3> QED
      BY <1>2, <3>1, <3>2, DiesAlone, ParityTypes
  <2>4. CASE Parity!Kill
    <3>1. Parity!Dies(Parity!Group(session))
      BY <2>4 DEF Parity!Kill
    <3>2. faults' = faults
      BY <2>4 DEF Parity!Kill
    <3>3. alive' = alive \ Parity!Group(session)
      BY <1>2, <3>1, DiesAlone
    <3>4. alive' = {}
      BY <1>3, <3>3 DEF Parity!GroupsTornDown, Parity!Group
    <3> QED
      BY <1>2, <3>1, <3>2, <3>4, DiesAlone, ParityTypes
  <2> QED
    BY <2>1, <2>2, <2>3, <2>4
<1>6. Parity!TypeOK'
  <2>1. port' \in Parity!Stray .. Len(sequence)
    <3>1. session \in 0 .. Len(sequence) /\ Len(sequence) \in Nat
      BY DEF ParityInv, Parity!TypeOK
    <3> QED
      BY <1>5, <3>1, ParityConstants DEF Stray
  <2> QED
    BY <1>1, <1>2, <1>4, <1>5, <2>1 DEF ParityInv, Parity!TypeOK
<1>7. Alone'
  BY <1>2, <1>3, <1>4, <1>5 DEF Alone, Parity!GroupsTornDown
<1>8. Honest'
  BY <1>1 DEF ParityInv, Honest
<1>9. Counted'
  BY <1>2, <1>4 DEF ParityInv, Counted, Parity!InSession
<1>10. Judged'
  <2>1. verdict = "none"
    BY <1>4 DEF ParityInv, Judged, Parity!InSession
  <2> QED
    BY <1>2, <2>1 DEF Judged
<1> QED
  BY <1>2, <1>6, <1>7, <1>8, <1>9, <1>10 DEF ParityInv

\* A stranger takes the port or gives it up.
LEMMA StrangerStep == ParityInv /\ Parity!Stranger => ParityInv'
<1> SUFFICES ASSUME ParityInv, Parity!Stranger PROVE ParityInv'
  OBVIOUS
<1>1. /\ UNCHANGED Books /\ port' \in {Free, Stray}
      /\ UNCHANGED <<parity_pc, alive, log, step, answered, failed, tensor, sampled, exception>>
  BY DEF Parity!Stranger, Parity!session_vars, Books, Free, Stray
<1>2. /\ UNCHANGED <<sequence, session, captures, rss, verdict, status>> /\ Recorded'
      /\ verdict = "passed" => Len(captures') = Len(sequence') /\ Parity!GatesPass'
  BY <1>1, SameBooks
<1>3. Parity!TypeOK'
  <2>1. faults' \in 0 .. MaxFaults
    BY FaultCounted DEF Parity!Stranger
  <2>2. port' \in Parity!Stray .. Len(sequence)
    <3>1. Len(sequence) \in Nat
      BY DEF ParityInv, Parity!TypeOK
    <3> QED
      BY <1>1, <3>1, ParityConstants DEF Stray
  <2> QED
    BY <1>1, <1>2, <2>1, <2>2 DEF ParityInv, Parity!TypeOK
<1>4. Alone'
  BY <1>1, <1>2, ParityConstants DEF ParityInv, Alone, Parity!GroupsTornDown
<1>5. Honest' /\ Counted'
  BY <1>1, <1>2 DEF ParityInv, Honest, Counted
<1>6. Judged'
  BY <1>1, <1>2 DEF ParityInv, Judged
<1> QED
  BY <1>2, <1>3, <1>4, <1>5, <1>6 DEF ParityInv

LEMMA ConfigStep == ParityInv /\ Parity!ResolveConfig => ParityInv'
<1> SUFFICES ASSUME ParityInv, Parity!ResolveConfig PROVE ParityInv'
  OBVIOUS
<1>1. /\ parity_pc = "config" /\ session = 0 /\ Len(captures) = 0 /\ verdict = "none" /\ alive = {}
  BY DEF ParityInv, Parity!ResolveConfig, Counted, Judged, Alone, Parity!GroupsTornDown,
         Parity!InSession
<1>2. UNCHANGED <<session, alive, port, log, step, answered, failed, tensor, sampled, exception,
                  captures, rss, verdict, faults>>
  BY DEF Parity!ResolveConfig, Parity!session_vars
<1>3. /\ sequence' \in Seq(Parity!Variants) /\ Len(sequence') \in Nat
      /\ parity_pc' \in {"output", "done"} /\ status' \in -1 .. 2
      /\ parity_pc' = "output" => Len(sequence') >= 1
      /\ Len(sequence') >= Len(sequence) \/ parity_pc' = "output"
  <2>1. PICK c \in Parity!Configurations :
          IF Parity!ConfigAccepted(c)
          THEN parity_pc' = "output" /\ sequence' = c.sequence /\ UNCHANGED status
          ELSE Parity!Leave(2) /\ UNCHANGED sequence
    BY DEF Parity!ResolveConfig
  <2>2. status \in -1 .. 2 /\ sequence \in Seq(Parity!Variants) /\ Len(sequence) \in Nat
    BY DEF ParityInv, Parity!TypeOK
  <2>3. CASE Parity!ConfigAccepted(c)
    <3>1. c.sequence \in UNION {[1 .. n -> Parity!Variants] : n \in 0 .. MaxSequence}
      BY DEF Parity!Configurations
    <3>2. PICK n \in 0 .. MaxSequence : c.sequence \in [1 .. n -> Parity!Variants]
      BY <3>1
    <3>3. n \in Nat
      BY ParityConstants
    <3>4. c.sequence \in Seq(Parity!Variants) /\ c.sequence # <<>>
      BY <2>3, <3>2, <3>3, SeqDef DEF Parity!ConfigAccepted, Parity!IsABBA
    <3>5. Len(c.sequence) \in Nat /\ Len(c.sequence) # 0
      BY <3>4, EmptySeq, LenProperties
    <3> QED
      BY <2>1, <2>2, <2>3, <3>4, <3>5
  <2>4. CASE ~Parity!ConfigAccepted(c)
    BY <2>1, <2>2, <2>4 DEF Parity!Leave
  <2> QED
    BY <2>3, <2>4
<1>4. Parity!TypeOK'
  <2>1. /\ session' \in 0 .. Len(sequence') /\ port' \in Parity!Stray .. Len(sequence')
        /\ Len(captures') <= Len(sequence')
    <3>1. port \in {Free, Stray} \cup {0}
      BY <1>1 DEF ParityInv, Alone
    <3> QED
      BY <1>1, <1>2, <1>3, <3>1, ParityConstants DEF Stray
  <2>2. alive' \subseteq (1 .. Len(sequence')) \X Parity!Members
    BY <1>1, <1>2
  <2> QED
    BY <1>2, <1>3, <2>1, <2>2 DEF ParityInv, Parity!TypeOK
<1>5. Alone'
  BY <1>1, <1>2 DEF ParityInv, Alone, Parity!GroupsTornDown
<1>6. Honest'
  BY <1>2 DEF ParityInv, Honest
<1>7. Counted'
  BY <1>1, <1>2, <1>3 DEF Counted, Parity!InSession
<1>8. Recorded'
  BY <1>1, <1>2 DEF Recorded
<1>9. Judged'
  BY <1>1, <1>2 DEF Judged
<1> QED
  BY <1>4, <1>5, <1>6, <1>7, <1>8, <1>9 DEF ParityInv

\* The steps that only move the harness between sessions.
LEMMA HarnessSteps ==
  ASSUME ParityInv, Parity!PrepareOutput \/ Parity!WriteCapture \/ Parity!WriteMarkdown
  PROVE  ParityInv'
<1>1. UNCHANGED <<sequence, alive, port, log, step, answered, failed, tensor, sampled, exception,
                  captures, rss, verdict, faults>>
  BY DEF Parity!PrepareOutput, Parity!WriteCapture, Parity!WriteMarkdown, Parity!session_vars
<1>2. /\ \/ /\ parity_pc = "output"
            /\ \/ parity_pc' = "launch" /\ session' = 1
               \/ parity_pc' = "done" /\ session' = session
         \/ /\ parity_pc = "write"
            /\ \/ session < Len(sequence) /\ session' = session + 1 /\ parity_pc' = "launch"
               \/ session = Len(sequence) /\ session' = session /\ parity_pc' = "report"
               \/ parity_pc' = "done" /\ session' = session
         \/ parity_pc = "markdown" /\ parity_pc' = "done" /\ session' = session
      /\ status' \in {status, 0, 1, 2}
  BY DEF Parity!PrepareOutput, Parity!WriteCapture, Parity!WriteMarkdown, Parity!Leave
<1>3. /\ session \in 0 .. Len(sequence) /\ Len(sequence) \in Nat /\ Len(captures) \in Nat
      /\ status \in -1 .. 2
  BY DEF ParityInv, Parity!TypeOK
<1>4. /\ parity_pc = "output" => session = 0 /\ Len(captures) = 0 /\ Len(sequence) >= 1
      /\ parity_pc = "write" => session >= 1 /\ Len(captures) = session
      /\ parity_pc = "markdown" => Len(captures) = Len(sequence)
  BY DEF ParityInv, Counted
<1>5. alive = {}
  BY <1>2 DEF ParityInv, Alone, Parity!GroupsTornDown, Parity!InSession
<1>6. port \in {Free, Stray}
  <2>1. port \in {Free, Stray, session} /\ ~(port > 0) /\ port \in Int
    BY <1>5 DEF ParityInv, Alone, Parity!TypeOK, Parity!Stray
  <2> QED
    BY <1>3, <2>1, ParityConstants
<1>7. session' \in 0 .. Len(sequence) /\ (parity_pc' = "launch" => session' >= 1 /\ Len(captures) = session' - 1)
      /\ (parity_pc' = "report" => Len(captures) = Len(sequence))
  <2>1. CASE parity_pc = "output"
    BY <1>2, <1>3, <1>4, <2>1
  <2>2. CASE parity_pc = "write"
    BY <1>2, <1>3, <1>4, <2>2
  <2>3. CASE parity_pc = "markdown"
    BY <1>2, <1>3, <2>3
  <2> QED
    BY <1>2, <2>1, <2>2, <2>3
<1>8. Parity!TypeOK'
  <2>1. status' \in -1 .. 2
    BY <1>2, <1>3
  <2>2. parity_pc' \in Parity!InSession \cup {"config", "output", "launch", "stopped", "write",
                                               "report", "markdown", "done"}
    BY <1>2
  <2> QED
    BY <1>1, <1>7, <2>1, <2>2 DEF ParityInv, Parity!TypeOK
<1>9. Alone'
  BY <1>1, <1>5, <1>6, ParityConstants DEF Alone, Parity!GroupsTornDown
<1>10. Honest'
  BY <1>1 DEF ParityInv, Honest
<1>11. Counted'
  BY <1>1, <1>2, <1>7 DEF Counted, Parity!InSession
<1>12. Recorded'
  BY <1>1 DEF ParityInv, Recorded
<1>13. Judged'
  <2>1. Parity!GatesPass' = Parity!GatesPass
    BY <1>1 DEF Parity!GatesPass, Parity!FirstBaseline, Parity!Of
  <2>2. verdict' # "none" => parity_pc = "markdown"
    BY <1>1, <1>2 DEF ParityInv, Judged
  <2>3. parity_pc = "markdown" => parity_pc' = "done"
    BY DEF Parity!PrepareOutput, Parity!WriteCapture, Parity!WriteMarkdown, Parity!Leave
  <2> QED
    BY <1>1, <2>1, <2>2, <2>3 DEF ParityInv, Judged
<1> QED
  BY <1>8, <1>9, <1>10, <1>11, <1>12, <1>13 DEF ParityInv

LEMMA LaunchStep == ParityInv /\ Parity!Launch => ParityInv'
<1> SUFFICES ASSUME ParityInv, Parity!Launch PROVE ParityInv'
  OBVIOUS
<1>1. parity_pc = "launch" /\ UNCHANGED <<sequence, session, port, exception, captures, rss, verdict>>
  BY DEF Parity!Launch
<1>2. /\ session >= 1 /\ Len(captures) = session - 1 /\ session \in 0 .. Len(sequence)
      /\ Len(sequence) \in Nat /\ verdict = "none" /\ alive = {}
  BY <1>1 DEF ParityInv, Counted, Judged, Alone, Parity!GroupsTornDown, Parity!InSession, Parity!TypeOK
<1>3. \/ /\ \E g \in SUBSET Parity!Members : alive' = {<<session, m>> : m \in g}
         /\ log' \in {"right", "wrong"} /\ step' = 1 /\ answered' = {} /\ failed' = FALSE
         /\ tensor' = Parity!FirstOutput /\ sampled' = FALSE
         /\ parity_pc' = "waiting" /\ status' = status
      \/ /\ parity_pc' = "done" /\ status' = 1
         /\ UNCHANGED <<alive, log, step, answered, failed, tensor, sampled>>
  <2>1. CASE \E g \in {{"leader"}, Parity!Members} : alive' = alive \cup {<<session, m>> : m \in g}
    <3>1. PICK g \in {{"leader"}, Parity!Members} : alive' = alive \cup {<<session, m>> : m \in g}
      BY <2>1
    <3>2. g \in SUBSET Parity!Members
      BY DEF Parity!Members
    <3>3. alive' = {<<session, m>> : m \in g}
      BY <1>2, <3>1
    <3> QED
      BY <3>2, <3>3 DEF Parity!Launch, Parity!Leave, Parity!session_vars
  <2>2. CASE ~ \E g \in {{"leader"}, Parity!Members} : alive' = alive \cup {<<session, m>> : m \in g}
    BY <2>2 DEF Parity!Launch, Parity!Leave, Parity!session_vars
  <2> QED
    BY <2>1, <2>2
<1>4. \A a \in alive' : a[1] = session /\ parity_pc' = "waiting"
                      /\ a \in (1 .. Len(sequence)) \X Parity!Members
  <2>1. session \in 1 .. Len(sequence)
    BY <1>2
  <2> QED
    BY <1>2, <1>3, <2>1
<1>5. port \in {Free, Stray}
  <2>1. port \in {Free, Stray, session} /\ ~(port > 0) /\ port \in Int
    BY <1>2 DEF ParityInv, Alone, Parity!TypeOK, Parity!Stray
  <2> QED
    BY <1>2, <2>1, ParityConstants
<1>6. /\ parity_pc' \in {"waiting", "done"} /\ status' \in -1 .. 2
      /\ log' \in {"right", "wrong", log} /\ step' \in 1 .. Len(Parity!Phases) + 1
      /\ answered' \in {{}, answered} /\ faults' \in 0 .. MaxFaults
      /\ failed' \in BOOLEAN /\ tensor' \in Outputs /\ sampled' \in BOOLEAN
  <2>1. status \in -1 .. 2
    BY DEF ParityInv, Parity!TypeOK
  <2>2. step' \in 1 .. Len(Parity!Phases) + 1 /\ status' \in -1 .. 2
    BY <1>3, <2>1, ParityTypes, ParityConstants
  <2>3. faults' \in 0 .. MaxFaults
    BY FaultCounted, ParityTypes DEF Parity!Launch
  <2> QED
    BY <1>3, <2>2, <2>3, ParityTypes, ParityConstants
<1>7. Parity!TypeOK'
  <2>1. answered' \subseteq Parity!Answerers /\ log' \in {"empty", "right", "wrong"}
    BY <1>6, ParityTypes DEF Parity!Answerers
  <2>2. parity_pc' \in Parity!InSession \cup {"config", "output", "launch", "stopped", "write",
                                               "report", "markdown", "done"}
    BY <1>6 DEF Parity!InSession
  <2> QED
    BY <1>1, <1>4, <1>6, <2>1, <2>2 DEF ParityInv, Parity!TypeOK
<1>8. Alone'
  BY <1>1, <1>4, <1>5, ParityConstants DEF Alone, Parity!GroupsTornDown, Parity!InSession
<1>9. Honest'
  BY <1>1, <1>6 DEF ParityInv, Honest
<1>10. Counted'
  BY <1>1, <1>2, <1>6 DEF Counted, Parity!InSession
<1>11. Recorded'
  BY <1>1 DEF ParityInv, Recorded
<1>12. Judged'
  BY <1>1, <1>2 DEF Judged
<1> QED
  BY <1>7, <1>8, <1>9, <1>10, <1>11, <1>12 DEF ParityInv

\* A session that ended without an exception is recorded.
LEMMA EndSessionStep == ParityInv /\ Parity!EndSession => ParityInv'
<1> SUFFICES ASSUME ParityInv, Parity!EndSession PROVE ParityInv'
  OBVIOUS
<1>1. parity_pc = "stopped"
      /\ UNCHANGED <<sequence, session, alive, port, log, step, answered, failed, tensor, sampled,
                     exception, verdict, faults>>
  BY DEF Parity!EndSession, Parity!session_vars
<1>2. /\ session >= 1 /\ Len(captures) = session - 1 /\ session \in 0 .. Len(sequence)
      /\ Len(sequence) \in Nat /\ verdict = "none" /\ alive = {}
      /\ sequence \in Seq(Parity!Variants) /\ captures \in Seq(Parity!Captures)
  BY <1>1 DEF ParityInv, Counted, Judged, Alone, Parity!GroupsTornDown, Parity!InSession, Parity!TypeOK
<1> DEFINE c == [variant |-> sequence[session], answered |-> answered, failed |-> failed,
                 tensor |-> tensor, route |-> log = "right"]
<1>3. c \in Parity!Captures /\ c.variant = sequence[session] /\ c.answered \subseteq {"own", "stray"}
  <2>1. sequence[session] \in Parity!Variants
    BY <1>2
  <2>2. (log = "right") \in BOOLEAN
    OBVIOUS
  <2>3. answered \in SUBSET Parity!Answerers
    BY DEF ParityInv, Parity!TypeOK
  <2> QED
    BY <2>1, <2>2, <2>3, ParityTypes DEF Parity!Captures
<1>4. \/ /\ captures' = Append(captures, c) /\ parity_pc' = "write" /\ status' = status
         /\ rss' = IF sampled THEN rss \cup {sequence[session]} ELSE rss
      \/ UNCHANGED <<captures, rss>> /\ parity_pc' = "done" /\ status' \in {1, 2}
  BY DEF Parity!EndSession, Parity!Leave
<1> HIDE DEF c
<1>5. captures' \in Seq(Parity!Captures)
  BY <1>2, <1>3, <1>4
<1>6. Len(captures') \in {session, session - 1} /\ (parity_pc' = "write" => Len(captures') = session)
  <2>1. CASE captures' = captures /\ parity_pc' = "done"
    BY <1>2, <2>1
  <2>2. CASE captures' = Append(captures, c)
    <3>1. Len(captures') = Len(captures) + 1 /\ Len(captures) \in Nat
      BY <1>2, <1>3, <2>2
    <3> QED
      BY <1>2, <3>1
  <2> QED
    BY <1>4, <2>1, <2>2
<1>7. Recorded'
  <2> SUFFICES ASSUME NEW k \in 1 .. Len(captures')
               PROVE  captures'[k].variant = sequence[k]
                      /\ captures'[k].answered \subseteq {"own", "stray"}
    BY <1>1 DEF Recorded
  <2>1. CASE captures' = captures
    BY <2>1 DEF ParityInv, Recorded
  <2>2. CASE captures' = Append(captures, c)
    <3>1. Len(captures') = Len(captures) + 1 /\ captures'[Len(captures) + 1] = c
          /\ \A i \in 1 .. Len(captures) : captures'[i] = captures[i]
      BY <1>2, <1>3, <2>2
    <3>2. CASE k = session
      BY <1>2, <1>3, <3>1, <3>2
    <3>3. CASE k # session
      <4>1. k \in 1 .. Len(captures)
        BY <1>2, <3>1, <3>3
      <4> QED
        BY <3>1, <4>1 DEF ParityInv, Recorded
    <3> QED
      BY <3>2, <3>3
  <2> QED
    BY <1>4, <2>1, <2>2
<1>8. Parity!TypeOK'
  <2>1. rss' \subseteq Parity!Variants
    <3>1. sequence[session] \in Parity!Variants /\ rss \subseteq Parity!Variants
      BY <1>2 DEF ParityInv, Parity!TypeOK
    <3> QED
      BY <1>4, <3>1
  <2>2. status' \in -1 .. 2
    <3>1. status \in -1 .. 2
      BY DEF ParityInv, Parity!TypeOK
    <3> QED
      BY <1>4, <3>1
  <2>3. parity_pc' \in Parity!InSession \cup {"config", "output", "launch", "stopped", "write",
                                               "report", "markdown", "done"}
    BY <1>4
  <2>4. Len(captures') <= Len(sequence)
    BY <1>2, <1>6
  <2> QED
    BY <1>1, <1>5, <2>1, <2>2, <2>3, <2>4 DEF ParityInv, Parity!TypeOK
<1>9. Alone'
  BY <1>1, <1>2 DEF ParityInv, Alone, Parity!GroupsTornDown
<1>10. Honest'
  BY <1>1 DEF ParityInv, Honest
<1>11. Counted'
  BY <1>1, <1>2, <1>4, <1>6 DEF Counted, Parity!InSession
<1>12. Judged'
  BY <1>1, <1>2 DEF Judged
<1> QED
  BY <1>7, <1>8, <1>9, <1>10, <1>11, <1>12 DEF ParityInv

LEMMA ReportStep == ParityInv /\ Parity!BuildReport => ParityInv'
<1> SUFFICES ASSUME ParityInv, Parity!BuildReport PROVE ParityInv'
  OBVIOUS
<1>1. parity_pc = "report"
      /\ UNCHANGED <<sequence, session, alive, port, log, step, answered, failed, tensor, sampled,
                     exception, captures, rss, faults>>
  BY DEF Parity!BuildReport, Parity!session_vars
<1>2. Len(captures) = Len(sequence) /\ alive = {} /\ verdict = "none"
  BY <1>1 DEF ParityInv, Counted, Judged, Alone, Parity!GroupsTornDown, Parity!InSession
<1>3. /\ parity_pc' \in {"markdown", "done"} /\ verdict' \in {"none", "passed", "failed"}
      /\ status' \in {status, 1} /\ (verdict' = "passed" => Parity!GatesPass)
  BY <1>2 DEF Parity!BuildReport, Parity!Leave
<1>4. Parity!GatesPass' = Parity!GatesPass
  BY <1>1 DEF Parity!GatesPass, Parity!FirstBaseline, Parity!Of
<1>5. Parity!TypeOK'
  <2>1. status' \in -1 .. 2
    <3>1. status \in -1 .. 2
      BY DEF ParityInv, Parity!TypeOK
    <3> QED
      BY <1>3, <3>1
  <2>2. parity_pc' \in Parity!InSession \cup {"config", "output", "launch", "stopped", "write",
                                               "report", "markdown", "done"}
    BY <1>3
  <2> QED
    BY <1>1, <1>3, <2>1, <2>2 DEF ParityInv, Parity!TypeOK
<1>6. Alone'
  BY <1>1, <1>2 DEF ParityInv, Alone, Parity!GroupsTornDown
<1>7. Honest'
  BY <1>1 DEF ParityInv, Honest
<1>8. Counted'
  BY <1>1, <1>2, <1>3 DEF Counted, Parity!InSession
<1>9. Recorded'
  BY <1>1 DEF ParityInv, Recorded
<1>10. Judged'
  BY <1>1, <1>2, <1>3, <1>4 DEF Judged
<1> QED
  BY <1>5, <1>6, <1>7, <1>8, <1>9, <1>10 DEF ParityInv

LEMMA ParityNext == ParityInv /\ [Parity!Next]_parityVars => ParityInv'
<1>1. ASSUME ParityInv, Parity!Next PROVE ParityInv'
  BY <1>1, ConfigStep, HarnessSteps, LaunchStep, EndSessionStep, ReportStep, SessionSteps,
     AnswerSteps, ProcessSteps, StrangerStep DEF Parity!Next, Parity!Harness
<1>2. ASSUME ParityInv, UNCHANGED parityVars PROVE ParityInv'
  <2>1. UNCHANGED <<parity_pc, sequence, session, alive, port, log, step, exception, answered, failed,
                    tensor, sampled, captures, rss, verdict, status, faults>>
    BY <1>2 DEF parityVars
  <2>2. UNCHANGED Books
    BY <2>1 DEF Books
  <2>3. Recorded' /\ (verdict = "passed" => Len(captures') = Len(sequence') /\ Parity!GatesPass')
    BY <1>2, <2>2, SameBooks
  <2>4. Parity!TypeOK'
    BY <1>2, <2>1 DEF ParityInv, Parity!TypeOK
  <2>5. Alone' /\ Honest' /\ Counted'
    BY <1>2, <2>1 DEF ParityInv, Alone, Honest, Counted, Parity!GroupsTornDown
  <2>6. Judged'
    BY <1>2, <2>1, <2>3 DEF ParityInv, Judged
  <2> QED
    BY <2>3, <2>4, <2>5, <2>6 DEF ParityInv
<1> QED
  BY <1>1, <1>2

\* Whatever the runtimes do, when a stranger answers at the URL or a step of the harness
\* fails: a process group is gone before the next session starts, and a report passes
\* only for the complete sequence, with each session's route logged by the runtime it
\* launched, no answer of another session's runtime, no failed request and one output
\* (run_variant_session, stop_process, build_report of parity.py).
THEOREM VerdictIsMeasuredHolds == Spec => []VerdictIsMeasured
<1>1. Init => ParityInv
  BY ParityInit DEF Init
<1>2. ParityInv /\ [Next]_allVars => ParityInv'
  BY ParityNext DEF Next, allVars
<1>3. ParityInv => VerdictIsMeasured
  <2> SUFFICES ASSUME ParityInv PROVE Parity!VerdictIsMeasured
    BY DEF VerdictIsMeasured
  <2>1. ASSUME verdict = "passed"
        PROVE  /\ [k \in 1 .. Len(captures) |-> captures[k].variant] = sequence
               /\ \A k, j \in 1 .. Len(captures) :
                    /\ captures[k].answered \subseteq {"own", "stray"} /\ captures[k].route
                    /\ ~captures[k].failed /\ captures[k].tensor = captures[j].tensor
    <3>1. /\ sequence \in Seq(Parity!Variants) /\ captures \in Seq(Parity!Captures)
          /\ Len(captures) = Len(sequence) /\ Parity!GatesPass
      BY <2>1 DEF ParityInv, Parity!TypeOK, Judged
    <3>2. sequence = [k \in 1 .. Len(sequence) |-> sequence[k]]
      BY <3>1, LenProperties
    <3>3. \A k \in 1 .. Len(captures) : captures[k].variant = sequence[k]
      BY DEF ParityInv, Recorded
    <3>4. \A k \in 1 .. Len(captures) :
            captures[k].failed \in BOOLEAN /\ captures[k].route \in BOOLEAN
      <4>1. \A k \in 1 .. Len(captures) : captures[k] \in Parity!Captures
        BY <3>1, ElementOfSeq
      <4> QED
        BY <4>1 DEF Parity!Captures
    <3>5. \A k \in 1 .. Len(captures) :
            /\ captures[k].answered \subseteq {"own", "stray"} /\ captures[k].route
            /\ ~captures[k].failed /\ captures[k].tensor = captures[Parity!FirstBaseline].tensor
      BY <3>1, <3>4 DEF ParityInv, Recorded, Parity!GatesPass
    <3> QED
      BY <3>1, <3>2, <3>3, <3>5
  <2> QED
    BY <2>1 DEF ParityInv, Alone, Parity!VerdictIsMeasured, Parity!PassedIsMeasured
<1> QED
  BY <1>1, <1>2, <1>3, PTL DEF Spec

-----------------------------------------------------------------------------
(* The certification probe. *)

\* The number of each step of a worker, and which steps are barriers.
LEMMA StepNumbers ==
  /\ Len(Probe!Steps) = 18 /\ DOMAIN Probe!Steps = 1 .. 18
  /\ Probe!StepOf["join"] = 1 /\ Probe!StepOf["register"] = 2 /\ Probe!StepOf["import"] = 3
  /\ Probe!StepOf["attach"] = 4 /\ Probe!StepOf["attached"] = 5 /\ Probe!StepOf["activate"] = 6
  /\ Probe!StepOf["activated"] = 7 /\ Probe!StepOf["native"] = 8 /\ Probe!StepOf["exercised"] = 9
  /\ Probe!StepOf["finish"] = 10 /\ Probe!StepOf["finished"] = 11 /\ Probe!StepOf["unmap"] = 12
  /\ Probe!StepOf["lead_detach"] = 13 /\ Probe!StepOf["lead_detached"] = 14
  /\ Probe!StepOf["detach"] = 15 /\ Probe!StepOf["detached"] = 16 /\ Probe!StepOf["report"] = 17
  /\ Probe!StepOf["done"] = 18
<1> DEFINE S == Probe!Steps
           Names == {S[i] : i \in DOMAIN S}
<1>1. Len(S) = 18 /\ DOMAIN S = 1 .. 18
  BY DEF Probe!Steps
<1>2. /\ S[1] = "join" /\ S[2] = "register" /\ S[3] = "import" /\ S[4] = "attach"
      /\ S[5] = "attached" /\ S[6] = "activate" /\ S[7] = "activated" /\ S[8] = "native"
      /\ S[9] = "exercised" /\ S[10] = "finish" /\ S[11] = "finished" /\ S[12] = "unmap"
      /\ S[13] = "lead_detach" /\ S[14] = "lead_detached" /\ S[15] = "detach"
      /\ S[16] = "detached" /\ S[17] = "report" /\ S[18] = "done"
  BY DEF Probe!Steps
<1>3. Probe!StepOf = [s \in Names |-> CHOOSE i \in DOMAIN S : S[i] = s]
  BY DEF Probe!StepOf
<1> HIDE DEF S
<1>4. \A i, j \in 1 .. 18 : S[i] = S[j] => i = j
  BY <1>2, SMTT(60)
<1>5. ASSUME NEW n \in 1 .. 18 PROVE Probe!StepOf[S[n]] = n
  <2>1. S[n] \in Names
    BY <1>1
  <2>2. Probe!StepOf[S[n]] = CHOOSE i \in DOMAIN S : S[i] = S[n]
    BY <1>3, <2>1
  <2> QED
    BY <1>1, <1>4, <2>2
<1>6. /\ Probe!StepOf["join"] = 1 /\ Probe!StepOf["register"] = 2 /\ Probe!StepOf["import"] = 3
      /\ Probe!StepOf["attach"] = 4 /\ Probe!StepOf["attached"] = 5 /\ Probe!StepOf["activate"] = 6
      /\ Probe!StepOf["activated"] = 7 /\ Probe!StepOf["native"] = 8 /\ Probe!StepOf["exercised"] = 9
  BY <1>2, <1>5
<1>7. /\ Probe!StepOf["finish"] = 10 /\ Probe!StepOf["finished"] = 11 /\ Probe!StepOf["unmap"] = 12
      /\ Probe!StepOf["lead_detach"] = 13 /\ Probe!StepOf["lead_detached"] = 14
      /\ Probe!StepOf["detach"] = 15 /\ Probe!StepOf["detached"] = 16 /\ Probe!StepOf["report"] = 17
      /\ Probe!StepOf["done"] = 18
  BY <1>2, <1>5
<1> QED
  BY <1>1, <1>6, <1>7 DEF S

BarrierNumbers == {1, 5, 7, 9, 11, 14, 16}

LEMMA BarrierSteps ==
  \A n \in 1 .. 18 : Probe!Steps[n] \in Probe!Barriers <=> n \in BarrierNumbers
<1> SUFFICES ASSUME NEW n \in 1 .. 18
             PROVE  Probe!Steps[n] \in Probe!Barriers <=> n \in BarrierNumbers
  OBVIOUS
<1>1. n \in {1, 2, 3, 4, 5, 6, 7, 8, 9} \/ n \in {10, 11, 12, 13, 14, 15, 16, 17, 18}
  OBVIOUS
<1>2. CASE n \in {1, 2, 3, 4, 5, 6, 7, 8, 9}
  BY <1>2, SMTT(60) DEF Probe!Steps, Probe!Barriers, BarrierNumbers
<1>3. CASE n \in {10, 11, 12, 13, 14, 15, 16, 17, 18}
  BY <1>3, SMTT(60) DEF Probe!Steps, Probe!Barriers, BarrierNumbers
<1> QED
  BY <1>1, <1>2, <1>3

\* No rank is past a barrier that another one, still running, has not reached.
Lockstep ==
  \A b \in BarrierNumbers : \A r, q \in ProbeRanks : at[r] > b => at[q] = 0 \/ at[q] >= b

\* Where a rank is says whether it is mapped and attached; rank zero says whether the
\* pool is served.
Held ==
  /\ mapped = {r \in ProbeRanks : at[r] >= 4 /\ at[r] <= 12}
  /\ \A r \in ProbeRanks : at[r] >= 5 /\ at[r] <= 13 => r \in attached
  /\ at[Leader] >= 7 /\ at[Leader] <= 13 => active = TRUE

\* What a rank has passed, and every gate or fact it claims, was tested.
Earned ==
  /\ \A r \in ProbeRanks :
       /\ at[r] > 3 => "no_second_pool" \in kept
       /\ at[r] > 12 => "unmaps" \in kept
       /\ "backend_native_write" \in gates[r] => {"guards_kept", "reads_pool"} \subseteq kept
       /\ got[r] \subseteq facts
  /\ "live_lease_detach_rejected" \in facts => "live_detach" \in kept
  /\ "capacity_exhaustion_rejected" \in facts => "overflow" \in kept
  /\ "post_deactivation_reserve_rejected" \in facts => "late_reserve" \in kept

\* A rank report claims no more, and passes only for a rank that came to its end.
Filed ==
  \A r \in ProbeRanks : \A f \in files[r] :
    /\ f.gates \subseteq gates[r] /\ f.facts \subseteq facts
    /\ f.passed = TRUE => at[r] = 18

\* Renewal is claimed once the heartbeat is stopped for good.
Renewed ==
  "heartbeat_renewal" \in facts =>
    beat \in {"off", "dead"} /\ (at[Leader] = 0 \/ at[Leader] > 10)

\* Where main is says what it has checked and which files are there.
Signed ==
  /\ main \in {"joining", "verdict", "report", "allowlist", "print"} =>
       {"unlisted_profile", "early_activate", "early_reserve"} \subseteq kept
  /\ report = "passed" \/ allowlist = "new" \/ main \in {"report", "allowlist", "print"} =>
       kept = Probe!Rules /\ "heartbeat_renewal" \in facts
  /\ main = "start" => report = "old"
  /\ main = "raised" \/ main = "start" \/ allowlist # "old"
  /\ report # "old" => allowlist # "old"
  /\ main \in {"allowlist", "print", "passed"} => report = "passed"
  /\ main \in {"print", "passed"} => allowlist \in {"none", "new"}
  /\ main = "failed" => report = "failed"

FileTypes == files \in [ProbeRanks -> SUBSET Probe!RankReport]

ProbeInv ==
  Probe!TypeOK /\ FileTypes /\ Lockstep /\ Held /\ Earned /\ Filed /\ Renewed /\ Signed

LEMMA ProbeCardinality == ASSUME NEW S PROVE Probe!Cardinality(S) = Cardinality(S)
BY DEF Probe!Cardinality, Cardinality

LEMMA ProbeInit == Probe!Init => ProbeInv
<1> SUFFICES ASSUME Probe!Init PROVE ProbeInv
  OBVIOUS
<1>1. /\ kept \subseteq Probe!Rules /\ main = "start" /\ at = [r \in ProbeRanks |-> 1]
      /\ gates = [r \in ProbeRanks |-> {}] /\ facts = {} /\ got = [r \in ProbeRanks |-> {}]
      /\ files = [r \in ProbeRanks |-> {}] /\ attached = {} /\ mapped = {} /\ active = FALSE
      /\ lease = "none" /\ beat = "off" /\ report = "old" /\ allowlist \in {"none", "absent", "old"}
  BY DEF Probe!Init
<1>2. Leader \in ProbeRanks
  BY PartsAssumption DEF PartsAssumption, Probe!ProbeAssumption
<1>3. Probe!TypeOK
  <2>1. at \in [ProbeRanks -> 0 .. Len(Probe!Steps)]
    BY <1>1, StepNumbers
  <2>2. \A r \in ProbeRanks : files[r] \subseteq Probe!RankReport /\ Probe!Cardinality(files[r]) <= 1
    BY <1>1, FS_EmptySet, ProbeCardinality
  <2>3. /\ gates \in [ProbeRanks -> SUBSET Probe!RankGates]
        /\ facts \subseteq Probe!LifecycleFacts /\ got \in [ProbeRanks -> SUBSET Probe!LifecycleFacts]
        /\ attached \subseteq ProbeRanks /\ mapped \subseteq ProbeRanks /\ active \in BOOLEAN
    BY <1>1
  <2>4. /\ main \in {"start", "checks", "joining", "verdict", "report", "allowlist",
                     "print", "failing", "passed", "failed", "raised"}
        /\ lease \in {"none", "live", "expired"} /\ beat \in {"off", "running", "failed", "dead"}
        /\ report \in {"old", "passed", "failed"} /\ allowlist \in {"none", "absent", "old", "new"}
    BY <1>1
  <2> QED
    BY <1>1, <2>1, <2>2, <2>3, <2>4, Zenon DEF Probe!TypeOK
<1>4. FileTypes
  BY <1>1 DEF FileTypes
<1>5. Lockstep
  BY <1>1 DEF Lockstep, BarrierNumbers
<1>6. Held
  BY <1>1, <1>2 DEF Held
<1>7. Earned
  BY <1>1 DEF Earned
<1>8. Filed /\ Renewed
  BY <1>1 DEF Filed, Renewed
<1>9. Signed
  BY <1>1 DEF Signed
<1> QED
  BY <1>3, <1>4, <1>5, <1>6, <1>7, <1>8, <1>9 DEF ProbeInv

LEMMA ProbeTypes ==
  ASSUME ProbeInv
  PROVE  /\ Leader \in ProbeRanks /\ at \in [ProbeRanks -> 0 .. 18]
         /\ kept \subseteq Probe!Rules /\ gates \in [ProbeRanks -> SUBSET Probe!RankGates]
         /\ facts \subseteq Probe!LifecycleFacts
         /\ got \in [ProbeRanks -> SUBSET Probe!LifecycleFacts]
         /\ files \in [ProbeRanks -> SUBSET Probe!RankReport]
         /\ \A r \in ProbeRanks : Probe!Cardinality(files[r]) <= 1
         /\ attached \subseteq ProbeRanks /\ mapped \subseteq ProbeRanks /\ active \in BOOLEAN
         /\ lease \in {"none", "live", "expired"} /\ beat \in {"off", "running", "failed", "dead"}
<1>1. Leader \in ProbeRanks
  BY PartsAssumption DEF PartsAssumption, Probe!ProbeAssumption
<1>2. at \in [ProbeRanks -> 0 .. 18]
  BY StepNumbers DEF ProbeInv, Probe!TypeOK
<1>3. \A r \in ProbeRanks : Probe!Cardinality(files[r]) <= 1
  BY DEF ProbeInv, Probe!TypeOK
<1>4. files \in [ProbeRanks -> SUBSET Probe!RankReport]
  BY DEF ProbeInv, FileTypes
<1>5. /\ kept \subseteq Probe!Rules /\ gates \in [ProbeRanks -> SUBSET Probe!RankGates]
      /\ facts \subseteq Probe!LifecycleFacts
      /\ got \in [ProbeRanks -> SUBSET Probe!LifecycleFacts]
      /\ attached \subseteq ProbeRanks /\ mapped \subseteq ProbeRanks /\ active \in BOOLEAN
      /\ lease \in {"none", "live", "expired"} /\ beat \in {"off", "running", "failed", "dead"}
  BY DEF ProbeInv, Probe!TypeOK
<1> QED
  BY <1>1, <1>2, <1>3, <1>4, <1>5

\* One rank writes its report.
LEMMA ReportFiled ==
  ASSUME ProbeInv, NEW r \in ProbeRanks, NEW passed \in BOOLEAN, NEW f,
         f = [passed |-> passed, gates |-> gates[r], facts |-> got[r]],
         files' = [files EXCEPT ![r] = {f}]
  PROVE  /\ FileTypes' /\ \A q \in ProbeRanks : Probe!Cardinality(files'[q]) <= 1
         /\ files'[r] = {f} /\ \A q \in ProbeRanks : q # r => files'[q] = files[q]
<1>1. f \in Probe!RankReport
  BY ProbeTypes DEF Probe!RankReport
<1>2. FileTypes' /\ files'[r] = {f} /\ \A q \in ProbeRanks : q # r => files'[q] = files[q]
  BY <1>1, ProbeTypes DEF FileTypes
<1>3. Probe!Cardinality({f}) = 1
  BY FS_Singleton, ProbeCardinality
<1>4. \A q \in ProbeRanks : Probe!Cardinality(files'[q]) <= 1
  BY <1>2, <1>3, ProbeTypes
<1> QED
  BY <1>2, <1>4

\* A rank takes a step of its own.
LEMMA RankMoves ==
  ASSUME ProbeInv, NEW r \in ProbeRanks, main = "joining", UNCHANGED <<kept, main, report, allowlist>>,
         at[r] \in 1 .. 17, at' = [at EXCEPT ![r] = @ + 1],
         at[r] \in BarrierNumbers => \A q \in ProbeRanks : at[q] >= at[r],
         gates' \in [ProbeRanks -> SUBSET Probe!RankGates],
         \A q \in ProbeRanks : gates[q] \subseteq gates'[q],
         facts \subseteq facts', facts' \subseteq Probe!LifecycleFacts,
         got' \in [ProbeRanks -> SUBSET Probe!LifecycleFacts],
         \/ files' = files
         \/ /\ at[r] = 17 /\ UNCHANGED <<gates, facts>>
            /\ files' = [files EXCEPT ![r] = {[passed |-> TRUE, gates |-> gates[r], facts |-> got[r]]}],
         attached' \subseteq ProbeRanks, active' \in BOOLEAN,
         lease' \in {"none", "live", "expired"}, beat' \in {"off", "running", "failed", "dead"},
         Held', Earned', Renewed'
  PROVE  ProbeInv'
<1>1. /\ at' \in [ProbeRanks -> 0 .. 18] /\ at'[r] = at[r] + 1
      /\ \A q \in ProbeRanks : q # r => at'[q] = at[q]
  BY ProbeTypes
<1> DEFINE f == [passed |-> TRUE, gates |-> gates[r], facts |-> got[r]]
<1>6. FileTypes' /\ \A q \in ProbeRanks : Probe!Cardinality(files'[q]) <= 1
  <2>1. CASE files' = files
    BY <2>1, ProbeTypes DEF FileTypes
  <2>2. CASE files' = [files EXCEPT ![r] = {f}]
    BY <2>2, ReportFiled
  <2> QED
    BY <2>1, <2>2
<1>2. Probe!TypeOK'
  <2>1. mapped' \subseteq ProbeRanks
    BY DEF Held
  <2>2. at' \in [ProbeRanks -> 0 .. Len(Probe!Steps)]
    BY <1>1, StepNumbers
  <2>3. \A q \in ProbeRanks : files'[q] \subseteq Probe!RankReport /\ Probe!Cardinality(files'[q]) <= 1
    BY <1>6 DEF FileTypes
  <2>4. /\ kept' \subseteq Probe!Rules
        /\ main' \in {"start", "checks", "joining", "verdict", "report", "allowlist",
                      "print", "failing", "passed", "failed", "raised"}
        /\ report' \in {"old", "passed", "failed"} /\ allowlist' \in {"none", "absent", "old", "new"}
    BY DEF ProbeInv, Probe!TypeOK
  <2> QED
    BY <2>1, <2>2, <2>3, <2>4, Zenon DEF Probe!TypeOK
<1>3. Lockstep'
  <2> SUFFICES ASSUME NEW b \in BarrierNumbers, NEW x \in ProbeRanks, NEW y \in ProbeRanks, at'[x] > b
               PROVE  at'[y] = 0 \/ at'[y] >= b
    BY DEF Lockstep
  <2>1. at[x] > b => at[y] = 0 \/ at[y] >= b
    BY DEF ProbeInv, Lockstep
  <2>2. b \in Nat
    BY DEF BarrierNumbers
  <2>3. CASE at[x] > b
    BY <1>1, <2>1, <2>2, <2>3, ProbeTypes
  <2>4. CASE ~(at[x] > b)
    <3>1. x = r /\ at[r] = b
      BY <1>1, <2>2, <2>4, ProbeTypes
    <3>2. at[y] >= b
      BY <3>1
    <3> QED
      BY <1>1, <2>2, <3>2, ProbeTypes
  <2> QED
    BY <2>3, <2>4
<1>4. Filed'
  <2>1. ASSUME NEW q \in ProbeRanks, NEW g \in files[q], q # r \/ files' = files
        PROVE  /\ g.gates \subseteq gates'[q] /\ g.facts \subseteq facts'
               /\ g.passed = TRUE => at'[q] = 18
    <3>1. g.gates \subseteq gates[q] /\ g.facts \subseteq facts /\ (g.passed = TRUE => at[q] = 18)
      BY DEF ProbeInv, Filed
    <3>2. g.passed = TRUE => q # r
      BY <3>1
    <3> QED
      BY <1>1, <3>1, <3>2
  <2>2. CASE files' = files
    BY <2>1, <2>2 DEF Filed
  <2>3. CASE at[r] = 17 /\ UNCHANGED <<gates, facts>> /\ files' = [files EXCEPT ![r] = {f}]
    <3>1. files'[r] = {f} /\ \A q \in ProbeRanks : q # r => files'[q] = files[q]
      BY <2>3, ReportFiled
    <3>2. f.gates \subseteq gates'[r] /\ f.facts \subseteq facts' /\ at'[r] = 18
      BY <1>1, <2>3 DEF ProbeInv, Earned
    <3> HIDE DEF f
    <3> QED
      BY <2>1, <3>1, <3>2 DEF Filed
  <2> QED
    BY <2>2, <2>3
<1>5. Signed'
  BY DEF ProbeInv, Signed
<1> QED
  BY <1>6, <1>2, <1>3, <1>4, <1>5 DEF ProbeInv

\* A rank's exception.
LEMMA RankRaises ==
  ASSUME ProbeInv, NEW r \in ProbeRanks, main = "joining", at[r] \in 1 .. 17, Probe!Raise(r),
         attached' \subseteq ProbeRanks, active' \in BOOLEAN, lease' \in {"none", "live", "expired"},
         \A q \in attached : q # r => q \in attached',
         r # Leader /\ at[Leader] >= 7 /\ at[Leader] <= 13 => active' = active
  PROVE  ProbeInv'
<1>1. /\ at' = [at EXCEPT ![r] = 0] /\ mapped' = mapped \ {r}
      /\ beat' = beat \/ (beat = "running" /\ beat' = "off")
      /\ UNCHANGED <<kept, main, gates, facts, got, report, allowlist>>
  BY DEF Probe!Raise, Probe!Stopped, Probe!disk
<1> DEFINE f == [passed |-> FALSE, gates |-> gates[r], facts |-> got[r]]
<1>2. files' = [files EXCEPT ![r] = {f}]
  BY DEF Probe!Raise
<1>3. /\ FileTypes' /\ \A q \in ProbeRanks : Probe!Cardinality(files'[q]) <= 1
      /\ files'[r] = {f} /\ \A q \in ProbeRanks : q # r => files'[q] = files[q]
  BY <1>2, ReportFiled
<1>4. /\ at' \in [ProbeRanks -> 0 .. 18] /\ at'[r] = 0
      /\ \A q \in ProbeRanks : q # r => at'[q] = at[q]
  BY <1>1, ProbeTypes
<1>5. Probe!TypeOK'
  <2>1. at' \in [ProbeRanks -> 0 .. Len(Probe!Steps)]
    BY <1>4, StepNumbers
  <2>2. beat' \in {"off", "running", "failed", "dead"} /\ mapped' \subseteq ProbeRanks
    BY <1>1, ProbeTypes
  <2>3. \A q \in ProbeRanks : files'[q] \subseteq Probe!RankReport /\ Probe!Cardinality(files'[q]) <= 1
    BY <1>3 DEF FileTypes
  <2>4. /\ kept' \subseteq Probe!Rules /\ gates' \in [ProbeRanks -> SUBSET Probe!RankGates]
        /\ facts' \subseteq Probe!LifecycleFacts
        /\ got' \in [ProbeRanks -> SUBSET Probe!LifecycleFacts]
        /\ main' \in {"start", "checks", "joining", "verdict", "report", "allowlist",
                      "print", "failing", "passed", "failed", "raised"}
        /\ report' \in {"old", "passed", "failed"} /\ allowlist' \in {"none", "absent", "old", "new"}
    BY <1>1 DEF ProbeInv, Probe!TypeOK
  <2> QED
    BY <2>1, <2>2, <2>3, <2>4, Zenon DEF Probe!TypeOK
<1>6. Lockstep'
  <2> SUFFICES ASSUME NEW b \in BarrierNumbers, NEW x \in ProbeRanks, NEW y \in ProbeRanks, at'[x] > b
               PROVE  at'[y] = 0 \/ at'[y] >= b
    BY DEF Lockstep
  <2>1. at[x] > b => at[y] = 0 \/ at[y] >= b
    BY DEF ProbeInv, Lockstep
  <2>2. b \in Nat
    BY DEF BarrierNumbers
  <2> QED
    BY <1>4, <2>1, <2>2
<1>7. Held'
  <2>1. mapped' = {q \in ProbeRanks : at'[q] >= 4 /\ at'[q] <= 12}
    BY <1>1, <1>4 DEF ProbeInv, Held
  <2>2. \A q \in ProbeRanks : at'[q] >= 5 /\ at'[q] <= 13 => q \in attached'
    BY <1>4 DEF ProbeInv, Held
  <2>3. at'[Leader] >= 7 /\ at'[Leader] <= 13 => active' = TRUE
    <3>1. CASE r = Leader
      BY <1>4, <3>1
    <3>2. CASE r # Leader
      <4>1. at'[Leader] = at[Leader]
        BY <1>4, <3>2, ProbeTypes
      <4>2. at[Leader] >= 7 /\ at[Leader] <= 13 => active = TRUE
        BY DEF ProbeInv, Held
      <4> QED
        BY <3>2, <4>1, <4>2
    <3> QED
      BY <3>1, <3>2
  <2> QED
    BY <2>1, <2>2, <2>3 DEF Held
<1>8. Earned'
  <2>1. \A q \in ProbeRanks : at'[q] > 3 => at[q] > 3
    BY <1>4
  <2>2. \A q \in ProbeRanks : at'[q] > 12 => at[q] > 12
    BY <1>4
  <2> QED
    BY <1>1, <2>1, <2>2 DEF ProbeInv, Earned
<1>9. Filed'
  <2> SUFFICES ASSUME NEW q \in ProbeRanks, NEW g \in files'[q]
               PROVE  /\ g.gates \subseteq gates'[q] /\ g.facts \subseteq facts'
                      /\ g.passed = TRUE => at'[q] = 18
    BY DEF Filed
  <2>1. CASE q = r
    BY <1>1, <1>3, <2>1 DEF ProbeInv, Earned
  <2>2. CASE q # r
    BY <1>1, <1>3, <1>4, <2>2 DEF ProbeInv, Filed
  <2> QED
    BY <2>1, <2>2
<1>10. Renewed'
  BY <1>1, <1>4, ProbeTypes DEF ProbeInv, Renewed
<1>11. Signed'
  BY <1>1 DEF ProbeInv, Signed
<1> QED
  BY <1>3, <1>5, <1>6, <1>7, <1>8, <1>9, <1>10, <1>11 DEF ProbeInv

\* Main's steps leave the workers and the runtime alone.
LEMMA MainMoves ==
  ASSUME ProbeInv, UNCHANGED <<kept, at, gates, facts, got, files, attached, mapped, active, lease, beat>>,
         main' \in {"checks", "joining", "verdict", "report", "allowlist", "print", "failing",
                    "passed", "failed", "raised"},
         report' \in {"old", "passed", "failed"}, allowlist' \in {"none", "absent", "old", "new"}, Signed'
  PROVE  ProbeInv'
<1>1. Probe!TypeOK'
  BY DEF ProbeInv, Probe!TypeOK
<1>2. FileTypes' /\ Lockstep' /\ Held'
  BY DEF ProbeInv, FileTypes, Lockstep, Held
<1>3. Earned' /\ Filed' /\ Renewed'
  BY DEF ProbeInv, Earned, Filed, Renewed
<1> QED
  BY <1>1, <1>2, <1>3 DEF ProbeInv

\* What the gates let through kept every rule.
LEMMA ValidIsConforming ==
  ASSUME ProbeInv, main = "verdict", Probe!ReportValid
  PROVE  kept = Probe!Rules /\ "heartbeat_renewal" \in facts
<1>1. PICK f \in files[Leader] : f.passed /\ f.gates = Probe!RankGates /\ f.facts = Probe!LifecycleFacts
  BY ProbeTypes DEF Probe!ReportValid
<1>2. f.passed = TRUE
  BY <1>1, ProbeTypes DEF Probe!RankReport
<1>3. at[Leader] = 18 /\ Probe!RankGates \subseteq gates[Leader] /\ Probe!LifecycleFacts \subseteq facts
  BY <1>1, <1>2, ProbeTypes DEF ProbeInv, Filed
<1>4. {"no_second_pool", "unmaps", "guards_kept", "reads_pool"} \subseteq kept
  BY <1>3, ProbeTypes DEF ProbeInv, Earned, Probe!RankGates
<1>5. {"live_detach", "overflow", "late_reserve"} \subseteq kept
  BY <1>3 DEF ProbeInv, Earned, Probe!LifecycleFacts
<1>6. {"unlisted_profile", "early_activate", "early_reserve", "own_binding"} \subseteq kept
  BY DEF ProbeInv, Signed, Probe!ReportValid
<1>7. "heartbeat_renewal" \in facts
  BY <1>3 DEF Probe!LifecycleFacts
<1> QED
  BY <1>4, <1>5, <1>6, <1>7, ProbeTypes DEF Probe!Rules, Probe!RuntimeRules, Probe!BackendRules

\* A step that neither maps, attaches nor tests anything.
LEMMA QuietMoves ==
  ASSUME ProbeInv, NEW r \in ProbeRanks, Probe!Cross(r) \/ Probe!Skip(r) \/ Probe!Register(r)
         \/ Probe!WriteRankReport(r)
  PROVE  ProbeInv'
<1>1. /\ main = "joining" /\ UNCHANGED <<kept, main, report, allowlist, gates, facts, attached, active,
                                         lease, mapped, beat>>
      /\ at' = [at EXCEPT ![r] = @ + 1]
  BY DEF Probe!Cross, Probe!Skip, Probe!Register, Probe!WriteRankReport, Probe!Advance, Probe!disk,
         Probe!runtime, Probe!Running
<1>2. at[r] \in 1 .. 17 /\ at[r] \notin {3, 4, 12} /\ (r = Leader => at[r] # 6)
  <2>1. CASE Probe!Cross(r)
    <3>1. at[r] \in 1 .. 18 /\ Probe!Steps[at[r]] \in Probe!Barriers
      BY <2>1, ProbeTypes DEF Probe!Cross
    <3> QED
      BY <3>1, BarrierSteps DEF BarrierNumbers
  <2>2. CASE Probe!Skip(r)
    BY <2>2, StepNumbers DEF Probe!Skip, Probe!LeaderSteps, Probe!Running
  <2>3. CASE Probe!Register(r) \/ Probe!WriteRankReport(r)
    BY <2>3, StepNumbers DEF Probe!Register, Probe!WriteRankReport, Probe!Running
  <2> QED
    BY <2>1, <2>2, <2>3
<1>3. at[r] \in BarrierNumbers => \A q \in ProbeRanks : at[q] >= at[r]
  <2>1. CASE Probe!Cross(r)
    BY <2>1 DEF Probe!Cross
  <2>2. CASE Probe!Skip(r)
    BY <2>2, StepNumbers DEF Probe!Skip, Probe!LeaderSteps, Probe!Running, BarrierNumbers
  <2>3. CASE Probe!Register(r) \/ Probe!WriteRankReport(r)
    BY <2>3, StepNumbers DEF Probe!Register, Probe!WriteRankReport, Probe!Running, BarrierNumbers
  <2> QED
    BY <2>1, <2>2, <2>3
<1>4. \/ got' = got
      \/ got' = [got EXCEPT ![r] = facts]
  BY DEF Probe!Cross, Probe!Skip, Probe!Register, Probe!WriteRankReport
<1>5. got' \in [ProbeRanks -> SUBSET Probe!LifecycleFacts] /\ \A q \in ProbeRanks : got'[q] \subseteq facts
  BY <1>4, ProbeTypes DEF ProbeInv, Earned
<1>6. \/ files' = files
      \/ /\ at[r] = 17
         /\ files' = [files EXCEPT ![r] = {[passed |-> TRUE, gates |-> gates[r], facts |-> got[r]]}]
  BY StepNumbers DEF Probe!Cross, Probe!Skip, Probe!Register, Probe!WriteRankReport, Probe!Running
<1>7. at'[r] = at[r] + 1 /\ \A q \in ProbeRanks : q # r => at'[q] = at[q]
  BY <1>1, ProbeTypes
<1>8. Held'
  <2>1. \A q \in ProbeRanks : (at'[q] >= 4 /\ at'[q] <= 12) <=> (at[q] >= 4 /\ at[q] <= 12)
    BY <1>2, <1>7
  <2>2. \A q \in ProbeRanks : at'[q] >= 5 /\ at'[q] <= 13 => at[q] >= 5 /\ at[q] <= 13
    BY <1>2, <1>7
  <2>3. at'[Leader] >= 7 /\ at'[Leader] <= 13 => at[Leader] >= 7 /\ at[Leader] <= 13
    BY <1>2, <1>7, ProbeTypes
  <2>4. mapped' = {q \in ProbeRanks : at'[q] >= 4 /\ at'[q] <= 12}
    BY <1>1, <2>1 DEF ProbeInv, Held
  <2> QED
    BY <1>1, <2>2, <2>3, <2>4 DEF ProbeInv, Held
<1>9. Earned'
  <2>1. \A q \in ProbeRanks : (at'[q] > 3 => at[q] > 3) /\ (at'[q] > 12 => at[q] > 12)
    BY <1>2, <1>7
  <2> QED
    BY <1>1, <1>5, <2>1 DEF ProbeInv, Earned
<1>10. Renewed'
  <2>1. at[Leader] = 0 \/ at[Leader] > 10 => at'[Leader] = 0 \/ at'[Leader] > 10
    BY <1>2, <1>7, ProbeTypes
  <2> QED
    BY <1>1, <2>1 DEF ProbeInv, Renewed
<1> QED
  BY <1>1, <1>2, <1>3, <1>5, <1>6, <1>8, <1>9, <1>10, RankMoves, ProbeTypes

\* What a step owes that maps, attaches, activates or tests: one of a running rank and
\* no barrier; mapping, attachment and service follow the rank; a gate or a fact is
\* claimed after its test; and only rank zero starts and stops the heartbeat.
ActMoves(r) ==
  /\ main = "joining" /\ UNCHANGED <<kept, main, got, files, report, allowlist>>
  /\ at[r] \in (1 .. 17) \ BarrierNumbers /\ at' = [at EXCEPT ![r] = @ + 1]
ActHolds(r) ==
  /\ mapped' = IF at[r] = 3 THEN mapped \cup {r} ELSE IF at[r] = 12 THEN mapped \ {r} ELSE mapped
  /\ attached' \subseteq ProbeRanks /\ (at[r] = 4 => r \in attached')
  /\ \A q \in attached : q # r \/ at[r] < 13 => q \in attached'
  /\ active' \in BOOLEAN /\ (r = Leader /\ at[r] = 6 => active' = TRUE)
  /\ active' = active \/ (r = Leader /\ at[r] \in {6, 13})
ActGates(r) ==
  /\ at[r] = 3 => "no_second_pool" \in kept
  /\ at[r] = 12 => "unmaps" \in kept
  /\ gates' \in [ProbeRanks -> SUBSET Probe!RankGates]
  /\ \A q \in ProbeRanks : gates[q] \subseteq gates'[q]
  /\ \A q \in ProbeRanks : "backend_native_write" \in gates'[q] =>
       "backend_native_write" \in gates[q] \/ {"guards_kept", "reads_pool"} \subseteq kept
ActFacts(r) ==
  /\ \/ facts' = facts
     \/ /\ "live_detach" \in kept
        /\ facts' = facts \cup {"activation_after_all_attachments", "live_lease_detach_rejected"}
     \/ /\ "overflow" \in kept /\ at[r] = 10 /\ r = Leader /\ beat' \in {"off", "dead"}
        /\ facts' = facts \cup {"heartbeat_renewal", "cancellation_release",
                                "capacity_exhaustion_rejected"}
     \/ /\ "late_reserve" \in kept
        /\ facts' = facts \cup {"post_deactivation_reserve_rejected"}
  /\ beat' = beat \/ (r = Leader /\ at[r] \in {6, 10})
  /\ lease' \in {"none", "live", "expired"} /\ beat' \in {"off", "running", "failed", "dead"}

LEMMA RankActs ==
  ASSUME ProbeInv, NEW r \in ProbeRanks, ActMoves(r), ActHolds(r), ActGates(r), ActFacts(r)
  PROVE  ProbeInv'
<1> USE DEF ActMoves
<1>1. at'[r] = at[r] + 1 /\ \A q \in ProbeRanks : q # r => at'[q] = at[q]
  BY ProbeTypes
<1>2. Held'
  <2>1. ASSUME NEW q \in ProbeRanks PROVE q \in mapped' <=> at'[q] >= 4 /\ at'[q] <= 12
    <3>1. q \in mapped <=> at[q] >= 4 /\ at[q] <= 12
      BY DEF ProbeInv, Held
    <3>2. CASE q = r
      BY <1>1, <3>1, <3>2 DEF ActHolds
    <3>3. CASE q # r
      BY <1>1, <3>1, <3>3 DEF ActHolds
    <3> QED
      BY <3>2, <3>3
  <2>2. mapped' \subseteq ProbeRanks
    BY ProbeTypes DEF ActHolds
  <2>3. mapped' = {q \in ProbeRanks : at'[q] >= 4 /\ at'[q] <= 12}
    BY <2>1, <2>2
  <2>4. ASSUME NEW q \in ProbeRanks, at'[q] >= 5, at'[q] <= 13 PROVE q \in attached'
    <3>1. at[q] >= 5 /\ at[q] <= 13 => q \in attached
      BY DEF ProbeInv, Held
    <3>2. CASE q = r
      BY <1>1, <2>4, <3>1, <3>2 DEF ActHolds
    <3>3. CASE q # r
      BY <1>1, <2>4, <3>1, <3>3 DEF ActHolds
    <3> QED
      BY <3>2, <3>3
  <2>5. ASSUME at'[Leader] >= 7, at'[Leader] <= 13 PROVE active' = TRUE
    <3>1. at[Leader] >= 7 /\ at[Leader] <= 13 => active = TRUE
      BY DEF ProbeInv, Held
    <3>2. CASE r = Leader
      BY <1>1, <2>5, <3>1, <3>2 DEF ActHolds
    <3>3. CASE r # Leader
      BY <1>1, <2>5, <3>1, <3>3, ProbeTypes DEF ActHolds
    <3> QED
      BY <3>2, <3>3
  <2> QED
    BY <2>3, <2>4, <2>5 DEF Held
<1>3. facts \subseteq facts' /\ facts' \subseteq Probe!LifecycleFacts
      /\ ("heartbeat_renewal" \in facts' =>
            "heartbeat_renewal" \in facts \/ (at[r] = 10 /\ r = Leader /\ beat' \in {"off", "dead"}))
  BY ProbeTypes DEF ActFacts, Probe!LifecycleFacts
<1>4. Earned'
  <2>1. ASSUME NEW q \in ProbeRanks
        PROVE  (at'[q] > 3 => "no_second_pool" \in kept) /\ (at'[q] > 12 => "unmaps" \in kept)
    <3>1. (at[q] > 3 => "no_second_pool" \in kept) /\ (at[q] > 12 => "unmaps" \in kept)
      BY DEF ProbeInv, Earned
    <3>2. CASE q = r
      BY <1>1, <3>1, <3>2 DEF ActGates
    <3>3. CASE q # r
      BY <1>1, <3>1, <3>3
    <3> QED
      BY <3>2, <3>3
  <2>2. ASSUME NEW q \in ProbeRanks, "backend_native_write" \in gates'[q]
        PROVE  {"guards_kept", "reads_pool"} \subseteq kept
    BY <2>2 DEF ProbeInv, Earned, ActGates
  <2>3. \A q \in ProbeRanks : got'[q] \subseteq facts'
    BY <1>3 DEF ProbeInv, Earned
  <2>4. /\ "live_lease_detach_rejected" \in facts' => "live_detach" \in kept
        /\ "capacity_exhaustion_rejected" \in facts' => "overflow" \in kept
        /\ "post_deactivation_reserve_rejected" \in facts' => "late_reserve" \in kept
    BY DEF ProbeInv, Earned, ActFacts
  <2> QED
    BY <2>1, <2>2, <2>3, <2>4 DEF Earned
<1>5. Renewed'
  <2> SUFFICES ASSUME "heartbeat_renewal" \in facts'
               PROVE  beat' \in {"off", "dead"} /\ (at'[Leader] = 0 \/ at'[Leader] > 10)
    BY DEF Renewed
  <2>1. CASE at[r] = 10 /\ r = Leader /\ beat' \in {"off", "dead"}
    BY <1>1, <2>1
  <2>2. CASE "heartbeat_renewal" \in facts
    <3>1. beat \in {"off", "dead"} /\ (at[Leader] = 0 \/ at[Leader] > 10)
      BY <2>2 DEF ProbeInv, Renewed
    <3>2. beat' = beat
      BY <3>1 DEF ActFacts
    <3>3. at'[Leader] = 0 \/ at'[Leader] > 10
      BY <1>1, <3>1, ProbeTypes
    <3> QED
      BY <3>1, <3>2, <3>3
  <2> QED
    BY <1>3, <2>1, <2>2
<1>6. got' \in [ProbeRanks -> SUBSET Probe!LifecycleFacts]
  BY ProbeTypes
<1> QED
  BY <1>2, <1>3, <1>4, <1>5, <1>6, RankMoves DEF ActHolds, ActGates, ActFacts

LEMMA ImportStep ==
  ASSUME ProbeInv, NEW r \in ProbeRanks, Probe!Import(r) PROVE ProbeInv'
<1>1. main = "joining" /\ at[r] = 3 /\ UNCHANGED <<attached, active, lease>>
  BY StepNumbers DEF Probe!Import, Probe!Running, Probe!runtime
<1>2. CASE "no_second_pool" \in kept
  <2>1. /\ mapped' = mapped \cup {r} /\ at' = [at EXCEPT ![r] = @ + 1]
        /\ UNCHANGED <<kept, main, gates, facts, got, files, beat, report, allowlist>>
    BY <1>2 DEF Probe!Import, Probe!Advance, Probe!disk
  <2>6. ActMoves(r)
    BY <1>1, <1>2, <2>1, ProbeTypes DEF ActMoves, BarrierNumbers
  <2>7. ActHolds(r)
    BY <1>1, <1>2, <2>1, ProbeTypes DEF ActHolds
  <2>8. ActGates(r)
    BY <1>1, <1>2, <2>1, ProbeTypes DEF ActGates
  <2>9. ActFacts(r)
    BY <1>1, <1>2, <2>1, ProbeTypes DEF ActFacts
  <2> QED
    BY <2>6, <2>7, <2>8, <2>9, RankActs
<1>3. CASE "no_second_pool" \notin kept
  <2>1. Probe!Raise(r)
    BY <1>3 DEF Probe!Import
  <2> QED
    BY <1>1, <2>1, RankRaises, ProbeTypes
<1> QED
  BY <1>2, <1>3

LEMMA AttachStep ==
  ASSUME ProbeInv, NEW r \in ProbeRanks, Probe!Attach(r) PROVE ProbeInv'
<1>1. /\ main = "joining" /\ at[r] = 4 /\ at' = [at EXCEPT ![r] = @ + 1]
      /\ attached' = attached \cup {r}
      /\ gates' = [gates EXCEPT ![r] = @ \cup {"allocator_attachment"}]
      /\ UNCHANGED <<kept, main, facts, got, files, mapped, active, lease, beat, report, allowlist>>
  BY StepNumbers DEF Probe!Attach, Probe!Running, Probe!Advance, Probe!disk
<1>2. /\ gates' \in [ProbeRanks -> SUBSET Probe!RankGates]
      /\ \A q \in ProbeRanks : gates[q] \subseteq gates'[q]
      /\ \A q \in ProbeRanks : "backend_native_write" \in gates'[q] =>
                                 "backend_native_write" \in gates[q]
  BY <1>1, ProbeTypes DEF Probe!RankGates
<1>6. ActMoves(r)
  BY <1>1, <1>2, ProbeTypes DEF ActMoves, BarrierNumbers
<1>7. ActHolds(r)
  BY <1>1, <1>2, ProbeTypes DEF ActHolds
<1>8. ActGates(r)
  BY <1>1, <1>2, ProbeTypes DEF ActGates
<1>9. ActFacts(r)
  BY <1>1, <1>2, ProbeTypes DEF ActFacts
<1> QED
  BY <1>6, <1>7, <1>8, <1>9, RankActs

LEMMA ActivateStep ==
  ASSUME ProbeInv, NEW r \in ProbeRanks, Probe!Activate(r) PROVE ProbeInv'
<1>1. main = "joining" /\ r = Leader /\ at[r] = 6 /\ active' = TRUE /\ lease' = "live"
  BY StepNumbers DEF Probe!Activate, Probe!Running
<1>2. CASE "live_detach" \in kept
  <2>1. /\ facts' = facts \cup {"activation_after_all_attachments", "live_lease_detach_rejected"}
        /\ beat' = "running" /\ at' = [at EXCEPT ![r] = @ + 1]
        /\ UNCHANGED <<kept, main, gates, got, files, attached, mapped, report, allowlist>>
    BY <1>2 DEF Probe!Activate, Probe!Advance, Probe!disk
  <2>2. facts' \subseteq Probe!LifecycleFacts
    BY <2>1, ProbeTypes DEF Probe!LifecycleFacts
  <2>6. ActMoves(r)
    BY <1>1, <1>2, <2>1, <2>2, ProbeTypes DEF ActMoves, BarrierNumbers
  <2>7. ActHolds(r)
    BY <1>1, <1>2, <2>1, <2>2, ProbeTypes DEF ActHolds
  <2>8. ActGates(r)
    BY <1>1, <1>2, <2>1, <2>2, ProbeTypes DEF ActGates
  <2>9. ActFacts(r)
    BY <1>1, <1>2, <2>1, <2>2, ProbeTypes DEF ActFacts
  <2> QED
    BY <2>6, <2>7, <2>8, <2>9, RankActs
<1>3. CASE "live_detach" \notin kept
  <2>1. attached' = attached \ {r} /\ Probe!Raise(r)
    BY <1>3 DEF Probe!Activate
  <2> QED
    BY <1>1, <2>1, RankRaises, ProbeTypes
<1> QED
  BY <1>2, <1>3

LEMMA NativeStep ==
  ASSUME ProbeInv, NEW r \in ProbeRanks, Probe!Native(r) PROVE ProbeInv'
<1>1. main = "joining" /\ at[r] = 8 /\ UNCHANGED <<attached, active, lease>>
  BY StepNumbers DEF Probe!Native, Probe!Running, Probe!runtime
<1>2. CASE {"guards_kept", "reads_pool"} \subseteq kept
  <2>1. /\ gates' = [gates EXCEPT ![r] = @ \cup {"backend_native_write", "backend_native_read"}]
        /\ at' = [at EXCEPT ![r] = @ + 1]
        /\ UNCHANGED <<kept, main, facts, got, files, mapped, beat, report, allowlist>>
    BY <1>2 DEF Probe!Native, Probe!Advance, Probe!disk
  <2>2. /\ gates' \in [ProbeRanks -> SUBSET Probe!RankGates]
        /\ \A q \in ProbeRanks : gates[q] \subseteq gates'[q]
    BY <2>1, ProbeTypes DEF Probe!RankGates
  <2>6. ActMoves(r)
    BY <1>1, <1>2, <2>1, <2>2, ProbeTypes DEF ActMoves, BarrierNumbers
  <2>7. ActHolds(r)
    BY <1>1, <1>2, <2>1, <2>2, ProbeTypes DEF ActHolds
  <2>8. ActGates(r)
    BY <1>1, <1>2, <2>1, <2>2, ProbeTypes DEF ActGates
  <2>9. ActFacts(r)
    BY <1>1, <1>2, <2>1, <2>2, ProbeTypes DEF ActFacts
  <2> QED
    BY <2>6, <2>7, <2>8, <2>9, RankActs
<1>3. CASE ~({"guards_kept", "reads_pool"} \subseteq kept)
  <2>1. Probe!Raise(r)
    BY <1>3 DEF Probe!Native
  <2> QED
    BY <1>1, <2>1, RankRaises, ProbeTypes
<1> QED
  BY <1>2, <1>3

LEMMA FinishStep ==
  ASSUME ProbeInv, NEW r \in ProbeRanks, Probe!Finish(r) PROVE ProbeInv'
<1>1. main = "joining" /\ r = Leader /\ at[r] = 10 /\ UNCHANGED <<attached, active>>
  BY StepNumbers DEF Probe!Finish, Probe!Running
<1>2. \/ /\ "overflow" \in kept
         /\ facts' = facts \cup {"heartbeat_renewal", "cancellation_release",
                                 "capacity_exhaustion_rejected"}
         /\ lease' = "none" /\ beat' \in {"off", "dead"} /\ at' = [at EXCEPT ![r] = @ + 1]
         /\ UNCHANGED <<kept, main, gates, got, files, mapped, report, allowlist>>
      \/ lease' \in {lease, "none"} /\ Probe!Raise(r)
  BY ProbeTypes DEF Probe!Finish, Probe!Advance, Probe!Stopped, Probe!disk
<1>3. CASE Probe!Raise(r) /\ lease' \in {lease, "none"}
  BY <1>1, <1>3, RankRaises, ProbeTypes
<1>4. CASE /\ "overflow" \in kept
           /\ facts' = facts \cup {"heartbeat_renewal", "cancellation_release",
                                   "capacity_exhaustion_rejected"}
           /\ lease' = "none" /\ beat' \in {"off", "dead"} /\ at' = [at EXCEPT ![r] = @ + 1]
           /\ UNCHANGED <<kept, main, gates, got, files, mapped, report, allowlist>>
  <2>1. facts' \subseteq Probe!LifecycleFacts
    BY <1>4, ProbeTypes DEF Probe!LifecycleFacts
  <2>6. ActMoves(r)
    BY <1>1, <1>4, <2>1, ProbeTypes DEF ActMoves, BarrierNumbers
  <2>7. ActHolds(r)
    BY <1>1, <1>4, <2>1, ProbeTypes DEF ActHolds
  <2>8. ActGates(r)
    BY <1>1, <1>4, <2>1, ProbeTypes DEF ActGates
  <2>9. ActFacts(r)
    BY <1>1, <1>4, <2>1, ProbeTypes DEF ActFacts
  <2> QED
    BY <2>6, <2>7, <2>8, <2>9, RankActs
<1> QED
  BY <1>2, <1>3, <1>4

LEMMA UnmapStep ==
  ASSUME ProbeInv, NEW r \in ProbeRanks, Probe!Unmap(r) PROVE ProbeInv'
<1>1. main = "joining" /\ at[r] = 12 /\ UNCHANGED <<attached, active, lease>>
  BY StepNumbers DEF Probe!Unmap, Probe!Running, Probe!runtime
<1>2. CASE "unmaps" \in kept
  <2>1. /\ mapped' = mapped \ {r} /\ at' = [at EXCEPT ![r] = @ + 1]
        /\ UNCHANGED <<kept, main, gates, facts, got, files, beat, report, allowlist>>
    BY <1>2 DEF Probe!Unmap, Probe!Advance, Probe!disk
  <2>6. ActMoves(r)
    BY <1>1, <1>2, <2>1, ProbeTypes DEF ActMoves, BarrierNumbers
  <2>7. ActHolds(r)
    BY <1>1, <1>2, <2>1, ProbeTypes DEF ActHolds
  <2>8. ActGates(r)
    BY <1>1, <1>2, <2>1, ProbeTypes DEF ActGates
  <2>9. ActFacts(r)
    BY <1>1, <1>2, <2>1, ProbeTypes DEF ActFacts
  <2> QED
    BY <2>6, <2>7, <2>8, <2>9, RankActs
<1>3. CASE "unmaps" \notin kept
  <2>1. Probe!Raise(r)
    BY <1>3 DEF Probe!Unmap
  <2> QED
    BY <1>1, <2>1, RankRaises, ProbeTypes
<1> QED
  BY <1>2, <1>3

LEMMA LeadDetachStep ==
  ASSUME ProbeInv, NEW r \in ProbeRanks, Probe!LeadDetach(r) PROVE ProbeInv'
<1>1. main = "joining" /\ r = Leader /\ at[r] = 13 /\ attached' = attached \ {r} /\ active' = FALSE
  BY StepNumbers DEF Probe!LeadDetach, Probe!Running
<1>0. active' \in BOOLEAN /\ attached' \subseteq ProbeRanks
  <2>1. active' \in BOOLEAN
    BY <1>1, Zenon
  <2> QED
    BY <1>1, <2>1, ProbeTypes
<1>2. CASE "late_reserve" \in kept
  <2>1. /\ facts' = facts \cup {"post_deactivation_reserve_rejected"}
        /\ at' = [at EXCEPT ![r] = @ + 1]
        /\ UNCHANGED <<kept, main, gates, got, files, mapped, lease, beat, report, allowlist>>
    BY <1>2 DEF Probe!LeadDetach, Probe!Advance, Probe!disk
  <2>2. facts' \subseteq Probe!LifecycleFacts
    BY <2>1, ProbeTypes DEF Probe!LifecycleFacts
  <2>6. ActMoves(r)
    BY <1>1, <1>2, <2>1, <2>2, ProbeTypes DEF ActMoves, BarrierNumbers
  <2>7. ActHolds(r)
    BY <1>0, <1>1, <2>1, ProbeTypes DEF ActHolds
  <2>8. ActGates(r)
    BY <1>1, <1>2, <2>1, <2>2, ProbeTypes DEF ActGates
  <2>9. ActFacts(r)
    BY <1>1, <1>2, <2>1, <2>2, ProbeTypes DEF ActFacts
  <2> QED
    BY <2>6, <2>7, <2>8, <2>9, RankActs
<1>3. CASE "late_reserve" \notin kept
  <2>1. lease' = "live" /\ Probe!Raise(r)
    BY <1>3 DEF Probe!LeadDetach
  <2> QED
    BY <1>0, <1>1, <2>1, RankRaises, ProbeTypes
<1> QED
  BY <1>2, <1>3

LEMMA DetachStep ==
  ASSUME ProbeInv, NEW r \in ProbeRanks, Probe!Detach(r) PROVE ProbeInv'
<1>1. /\ main = "joining" /\ at[r] = 15 /\ at' = [at EXCEPT ![r] = @ + 1]
      /\ attached' = attached \ {r}
      /\ UNCHANGED <<kept, main, gates, facts, got, files, active, lease, mapped, beat, report, allowlist>>
  BY StepNumbers DEF Probe!Detach, Probe!Running, Probe!Advance, Probe!disk
<1>6. ActMoves(r)
  BY <1>1, ProbeTypes DEF ActMoves, BarrierNumbers
<1>7. ActHolds(r)
  BY <1>1, ProbeTypes DEF ActHolds
<1>8. ActGates(r)
  BY <1>1, ProbeTypes DEF ActGates
<1>9. ActFacts(r)
  BY <1>1, ProbeTypes DEF ActFacts
<1> QED
  BY <1>6, <1>7, <1>8, <1>9, RankActs

\* A step that raises for a reason of its own, and a call whose answer is lost.
LEMMA FaultSteps ==
  ASSUME ProbeInv, NEW r \in ProbeRanks, Probe!Fault(r) \/ Probe!LostReply(r) PROVE ProbeInv'
<1>1. main = "joining" /\ at[r] \in 1 .. 17 /\ Probe!Raise(r)
  BY StepNumbers DEF Probe!Fault, Probe!LostReply, Probe!Running
<1>2. CASE Probe!Fault(r)
  BY <1>1, <1>2, RankRaises, ProbeTypes DEF Probe!Fault, Probe!runtime
<1>3. CASE Probe!LostReply(r)
  <2>1. /\ attached' \in {attached, attached \cup {r}, attached \ {r}}
        /\ active' \in {active, TRUE, FALSE} /\ lease' \in {lease, "live"}
    BY <1>3 DEF Probe!LostReply
  <2>2. r # Leader => active' = active \/ at[r] = 15
    BY <1>3, StepNumbers DEF Probe!LostReply, Probe!Running
  <2>3. at[r] = 15 => at[Leader] = 0 \/ at[Leader] >= 14
    BY ProbeTypes DEF ProbeInv, Lockstep, BarrierNumbers
  <2>4. r # Leader /\ at[Leader] >= 7 /\ at[Leader] <= 13 => active' = active
    BY <2>2, <2>3, ProbeTypes
  <2> QED
    BY <1>1, <2>1, <2>4, RankRaises, ProbeTypes
<1> QED
  BY <1>2, <1>3

\* The heartbeat thread and the runtime's timer.
LEMMA TimerSteps == ASSUME ProbeInv, Probe!BeatFails \/ Probe!LeaseExpires PROVE ProbeInv'
<1>1. /\ UNCHANGED <<kept, main, at, gates, facts, got, files, attached, mapped, active, report, allowlist>>
      /\ lease' \in {lease, "expired"}
      /\ beat' = beat \/ (beat = "running" /\ beat' \in {"failed", "dead"})
  BY DEF Probe!BeatFails, Probe!LeaseExpires, Probe!worker, Probe!runtime, Probe!disk
<1>2. Probe!TypeOK'
  BY <1>1 DEF ProbeInv, Probe!TypeOK
<1>3. FileTypes' /\ Lockstep' /\ Held'
  BY <1>1 DEF ProbeInv, FileTypes, Lockstep, Held
<1>4. Earned' /\ Filed' /\ Renewed' /\ Signed'
  BY <1>1 DEF ProbeInv, Earned, Filed, Renewed, Signed
<1> QED
  BY <1>2, <1>3, <1>4 DEF ProbeInv

\* The workers ended, or one of them failed and the others are killed.
LEMMA JoinStep == ASSUME ProbeInv, Probe!JoinWorkers PROVE ProbeInv'
<1>1. /\ main = "joining"
      /\ UNCHANGED <<kept, gates, facts, got, files, attached, active, lease, report, allowlist>>
  BY DEF Probe!JoinWorkers, Probe!runtime, Probe!disk
<1>2. Signed' \/ main' \notin {"verdict", "failing"}
  BY <1>1 DEF ProbeInv, Signed
<1>3. CASE main' = "verdict" /\ UNCHANGED <<at, mapped, beat>>
  BY <1>1, <1>2, <1>3, MainMoves DEF ProbeInv, Probe!TypeOK
<1>4. CASE /\ at' = [r \in ProbeRanks |-> IF at[r] = Len(Probe!Steps) THEN at[r] ELSE 0]
           /\ mapped' = {} /\ main' = "failing"
           /\ beat' = beat \/ (beat = "running" /\ beat' = "off")
  <2>1. /\ at' \in [ProbeRanks -> {0, 18}]
        /\ \A r \in ProbeRanks : (at[r] = 18 => at'[r] = 18) /\ (at[r] # 18 => at'[r] = 0)
    BY <1>4, StepNumbers
  <2>2. Probe!TypeOK'
    <3>1. at' \in [ProbeRanks -> 0 .. Len(Probe!Steps)]
      BY <2>1, StepNumbers
    <3>2. /\ beat' \in {"off", "running", "failed", "dead"} /\ mapped' \subseteq ProbeRanks
          /\ main' \in {"start", "checks", "joining", "verdict", "report", "allowlist",
                        "print", "failing", "passed", "failed", "raised"}
      BY <1>4, ProbeTypes
    <3> QED
      BY <1>1, <3>1, <3>2 DEF ProbeInv, Probe!TypeOK
  <2>3. FileTypes'
    BY <1>1 DEF ProbeInv, FileTypes
  <2>4. Lockstep'
    BY <2>1 DEF ProbeInv, Lockstep, BarrierNumbers
  <2>5. Held'
    <3>1. \A r \in ProbeRanks : ~(at'[r] >= 4 /\ at'[r] <= 13)
      BY <2>1
    <3>2. \A r \in ProbeRanks : ~(at'[r] >= 5 /\ at'[r] <= 13) /\ ~(at'[r] >= 4 /\ at'[r] <= 12)
          /\ ~(at'[r] >= 7 /\ at'[r] <= 13)
      BY <2>1
    <3> QED
      BY <1>4, <3>2, ProbeTypes DEF Held
  <2>6. Earned'
    <3>1. \A r \in ProbeRanks : at'[r] > 3 => at[r] > 3 /\ at[r] > 12
      BY <2>1
    <3>2. \A r \in ProbeRanks : at'[r] > 12 => at'[r] > 3
      BY <2>1
    <3> QED
      BY <1>1, <3>1, <3>2 DEF ProbeInv, Earned
  <2>7. Filed'
    BY <1>1, <2>1 DEF ProbeInv, Filed
  <2>8. Renewed'
    BY <1>1, <1>4, <2>1, ProbeTypes DEF ProbeInv, Renewed
  <2> QED
    BY <1>2, <1>4, <2>2, <2>3, <2>4, <2>5, <2>6, <2>7, <2>8 DEF ProbeInv
<1> QED
  BY <1>3, <1>4 DEF Probe!JoinWorkers, Probe!Stopped

LEMMA MainSteps ==
  ASSUME ProbeInv,
         \/ Probe!RemoveStaleAllowlist \/ Probe!RejectDevices \/ Probe!CheckRuntime \/ Probe!Verdict
         \/ Probe!WriteReport \/ Probe!WriteAllowlist \/ Probe!PrintVerdict \/ Probe!WriteFailure
  PROVE  ProbeInv'
<1>1. UNCHANGED <<kept, at, gates, facts, got, files, attached, mapped, active, lease, beat>>
  BY DEF Probe!RemoveStaleAllowlist, Probe!RejectDevices, Probe!CheckRuntime, Probe!Verdict,
         Probe!WriteReport, Probe!WriteAllowlist, Probe!PrintVerdict, Probe!WriteFailure,
         Probe!worker, Probe!runtime
<1>2. Signed
  BY DEF ProbeInv
<1>3. /\ Signed' /\ report' \in {report, "passed", "failed"} /\ allowlist' \in {allowlist, "absent", "new"}
      /\ main' \in {"checks", "joining", "report", "allowlist", "print", "failing", "passed",
                    "failed", "raised"}
  <2>1. CASE Probe!RemoveStaleAllowlist
    BY <1>1, <1>2, <2>1 DEF Probe!RemoveStaleAllowlist, Signed
  <2>2. CASE Probe!RejectDevices
    BY <1>1, <1>2, <2>2 DEF Probe!RejectDevices, Probe!disk, Signed
  <2>3. CASE Probe!CheckRuntime
    BY <1>1, <1>2, <2>3 DEF Probe!CheckRuntime, Probe!RefusesEarly, Probe!disk, Signed
  <2>4. CASE Probe!Verdict
    <3>1. main = "verdict" /\ UNCHANGED <<report, allowlist>>
          /\ (main' = "failing" \/ (main' = "report" /\ Probe!ReportValid))
      BY <2>4 DEF Probe!Verdict, Probe!disk
    <3>2. main' = "report" => kept = Probe!Rules /\ "heartbeat_renewal" \in facts
      BY <3>1, ValidIsConforming
    <3> QED
      BY <1>1, <1>2, <3>1, <3>2 DEF Signed
  <2>5. CASE Probe!WriteReport
    BY <1>1, <1>2, <2>5 DEF Probe!WriteReport, Signed
  <2>6. CASE Probe!WriteAllowlist
    BY <1>1, <1>2, <2>6 DEF Probe!WriteAllowlist, Signed
  <2>7. CASE Probe!PrintVerdict
    BY <1>1, <1>2, <2>7 DEF Probe!PrintVerdict, Probe!disk, Signed
  <2>8. CASE Probe!WriteFailure
    BY <1>1, <1>2, <2>8 DEF Probe!WriteFailure, Signed
  <2> QED
    BY <2>1, <2>2, <2>3, <2>4, <2>5, <2>6, <2>7, <2>8
<1>4. report' \in {"old", "passed", "failed"} /\ allowlist' \in {"none", "absent", "old", "new"}
  BY <1>3 DEF ProbeInv, Probe!TypeOK
<1> QED
  BY <1>1, <1>3, <1>4, MainMoves

LEMMA ProbeNext == ProbeInv /\ [Probe!Next]_probeVars => ProbeInv'
<1>1. ASSUME ProbeInv, Probe!MainStep PROVE ProbeInv'
  BY <1>1, MainSteps, JoinStep DEF Probe!MainStep
<1>2. ASSUME ProbeInv, NEW r \in ProbeRanks, Probe!WorkerStep(r) PROVE ProbeInv'
  BY <1>2, QuietMoves, ImportStep, AttachStep, ActivateStep, NativeStep, FinishStep, UnmapStep,
     LeadDetachStep, DetachStep DEF Probe!WorkerStep
<1>3. ASSUME ProbeInv, UNCHANGED probeVars PROVE ProbeInv'
  <2>1. UNCHANGED <<kept, main, at, gates, facts, got, files, attached, mapped, active, lease, beat,
                    report, allowlist>>
    BY <1>3 DEF probeVars
  <2>2. Probe!TypeOK'
    BY <1>3, <2>1 DEF ProbeInv, Probe!TypeOK
  <2>3. FileTypes' /\ Lockstep' /\ Held'
    BY <1>3, <2>1 DEF ProbeInv, FileTypes, Lockstep, Held
  <2>4. Earned' /\ Filed' /\ Renewed' /\ Signed'
    BY <1>3, <2>1 DEF ProbeInv, Earned, Filed, Renewed, Signed
  <2> QED
    BY <2>2, <2>3, <2>4 DEF ProbeInv
<1> QED
  BY <1>1, <1>2, <1>3, FaultSteps, TimerSteps DEF Probe!Next

\* Whatever a runtime, a backend or a rank does: a passed report or a new allowlist is
\* of a runtime and a backend that kept every rule, with no renewal refused, a report of
\* this run is never beside an older allowlist, a run that returns a status has the files
\* of that status, the pool is read and written only while every rank is mapped, attached
\* and served, and a detached rank is unmapped (_rank_worker, main of flash_attn_probe.py).
THEOREM CertificateIsEarnedHolds == Spec => []CertificateIsEarned
<1>1. Init => ProbeInv
  BY ProbeInit DEF Init
<1>2. ProbeInv /\ [Next]_allVars => ProbeInv'
  BY ProbeNext DEF Next, allVars
<1>3. ProbeInv => CertificateIsEarned
  <2> SUFFICES ASSUME ProbeInv PROVE Probe!CertificateIsEarned
    BY DEF CertificateIsEarned
  <2>1. Probe!CertifiedMeansConforming /\ Probe!AllowlistIsThisRuns
    BY DEF ProbeInv, Signed, Probe!CertifiedMeansConforming, Probe!AllowlistIsThisRuns
  <2>2. Probe!NativeOnServedPool
    <3> SUFFICES ASSUME NEW r \in ProbeRanks, Probe!Running(r, "native"),
                        \A q \in ProbeRanks : at[q] # 0
                 PROVE  attached = ProbeRanks /\ mapped = ProbeRanks /\ active
      BY DEF Probe!NativeOnServedPool
    <3>1. at[r] = 8
      BY StepNumbers DEF Probe!Running
    <3>2. ASSUME NEW q \in ProbeRanks PROVE at[q] >= 7 /\ at[q] <= 9
      <4>1. at[r] > 7 => at[q] = 0 \/ at[q] >= 7
        BY DEF ProbeInv, Lockstep, BarrierNumbers
      <4>2. at[q] > 9 => at[r] = 0 \/ at[r] >= 9
        BY DEF ProbeInv, Lockstep, BarrierNumbers
      <4> QED
        BY <3>1, <4>1, <4>2, ProbeTypes
    <3>3. \A q \in ProbeRanks : at[q] >= 4 /\ at[q] <= 12 /\ at[q] >= 5 /\ at[q] <= 13 /\ at[q] >= 7
      BY <3>2, ProbeTypes
    <3>4. mapped = ProbeRanks
      BY <3>3 DEF ProbeInv, Held
    <3>5. attached = ProbeRanks
      BY <3>3, ProbeTypes DEF ProbeInv, Held
    <3>6. active = TRUE
      BY <3>3, ProbeTypes DEF ProbeInv, Held
    <3> QED
      BY <3>4, <3>5, <3>6
  <2>3. Probe!DetachedIsUnmapped
    <3> SUFFICES ASSUME NEW r \in ProbeRanks, at[r] > Probe!StepOf["attach"], r \notin attached
                 PROVE  r \notin mapped
      BY DEF Probe!DetachedIsUnmapped
    <3>1. at[r] > 4
      BY StepNumbers
    <3>2. ~(at[r] >= 5 /\ at[r] <= 13)
      BY DEF ProbeInv, Held
    <3>3. ~(at[r] <= 12)
      BY <3>1, <3>2, ProbeTypes
    <3> QED
      BY <3>3 DEF ProbeInv, Held
  <2>4. Probe!RefusedRenewalFails
    BY DEF ProbeInv, Renewed, Signed, Probe!RefusedRenewalFails
  <2> QED
    BY <2>1, <2>2, <2>3, <2>4 DEF ProbeInv, Probe!CertificateIsEarned
<1> QED
  BY <1>1, <1>2, <1>3, PTL DEF Spec

-----------------------------------------------------------------------------
(* The build and release of packs. *)

LEMMA ReleaseCardinality == ASSUME NEW S PROVE Release!Cardinality(S) = Cardinality(S)
BY DEF Release!Cardinality, Cardinality

\* The blocks before part n.
Start(n) == n * PartBlocks

LEMMA BlockConstants == PartBlocks \in Nat \ {0} /\ Blocks \in Nat \ {0}
BY PartsAssumption DEF PartsAssumption, Release!ReleaseAssumption

LEMMA StartNat == ASSUME NEW n \in Nat PROVE Start(n) \in Nat /\ n <= Start(n)
BY BlockConstants DEF Start

LEMMA StartNext == Start(0) = 0 /\ \A n \in Nat : Start(n + 1) = Start(n) + PartBlocks
BY BlockConstants DEF Start

LEMMA StartOrder ==
  ASSUME NEW m \in Nat, NEW n \in Nat, m < n PROVE Start(m) + PartBlocks <= Start(n)
<1>1. PICK d \in Nat : n = m + 1 + d
  <2>1. n - m - 1 \in Nat /\ n = m + 1 + (n - m - 1)
    OBVIOUS
  <2> QED
    BY <2>1
<1>2. (m + 1 + d) * PartBlocks = m * PartBlocks + PartBlocks + d * PartBlocks /\ d * PartBlocks \in Nat
  BY BlockConstants
<1>3. m * PartBlocks \in Nat
  BY BlockConstants
<1> QED
  BY <1>1, <1>2, <1>3, BlockConstants DEF Start

\* Every block is in a part.
LEMMA StartDivides ==
  ASSUME NEW x \in Nat \ {0} PROVE \E k \in Nat : Start(k) < x /\ x <= Start(k) + PartBlocks
<1> DEFINE k == (x - 1) \div PartBlocks
           r == (x - 1) % PartBlocks
<1>1. k \in Nat /\ r \in 0 .. PartBlocks - 1 /\ x - 1 = PartBlocks * k + r
  BY BlockConstants
<1>2. PartBlocks * k = Start(k)
  BY <1>1, BlockConstants DEF Start
<1>3. Start(k) \in Nat
  BY <1>1, StartNat
<1> HIDE DEF k, r
<1> QED
  BY <1>1, <1>2, <1>3, BlockConstants

\* The release of a build, file by file.
PartAt(n, b) ==
  Release!Asset("part", n, b, Start(n) + 1, Release!Smaller(Start(n) + PartBlocks, Blocks))
FirstParts(m, b) == {PartAt(n, b) : n \in 0 .. m - 1}
Numbers == {n \in 0 .. Blocks : Start(n) < Blocks}
Whole(b) == {PartAt(n, b) : n \in Numbers}
Copies(b) == {Release!Asset(f, 0, b, 0, 0) : f \in {"manifest", "checksum", "signature"}}
Catalog(b) == Release!Asset("catalog", 0, b, 0, 0)
CatalogSignature(b) == Release!Asset("catalog_signature", 0, b, 0, 0)
Listed(b) == Whole(b) \cup Copies(b)
Complete(b) == Listed(b) \cup {Catalog(b), CatalogSignature(b)}

LEMMA PartFacts ==
  ASSUME NEW n \in Numbers, NEW b
  PROVE  /\ n \in 0 .. Blocks /\ Start(n) \in Nat /\ Start(n) < Blocks
         /\ PartAt(n, b).kind = "part" /\ PartAt(n, b).n = n /\ PartAt(n, b).build = b
         /\ PartAt(n, b).first = Start(n) + 1
         /\ PartAt(n, b).last \in Start(n) + 1 .. Blocks
         /\ PartAt(n, b).last <= Start(n) + PartBlocks
         /\ PartAt(n, b).last = Start(n) + PartBlocks \/ PartAt(n, b).last = Blocks
<1>1. n \in 0 .. Blocks /\ Start(n) < Blocks
  BY DEF Numbers
<1>2. Start(n) \in Nat
  BY <1>1, StartNat
<1> QED
  BY <1>1, <1>2, BlockConstants DEF PartAt, Release!Asset, Release!Smaller

LEMMA PartsCounted ==
  ASSUME NEW N \in SUBSET Numbers, IsFiniteSet(N), NEW b
  PROVE  Cardinality({PartAt(n, b) : n \in N}) = Cardinality(N)
<1> DEFINE P == {PartAt(n, b) : n \in N}
           F == [n \in N |-> PartAt(n, b)]
<1>1. F \in [N -> P] /\ \A a \in P : \E n \in N : F[n] = a
  OBVIOUS
<1>2. \A n, k \in N : F[n] = F[k] => n = k
  BY PartFacts
<1> HIDE DEF P, F
<1>3. F \in Bijection(N, P)
  BY <1>1, <1>2 DEF Bijection, Injection, Surjection, IsInjective
<1>4. Cardinality(P) = Cardinality(N)
  BY <1>3, FS_Bijection DEF ExistsBijection
<1> QED
  BY <1>4 DEF P

\* The parts are numbered from zero without a gap.
LEMMA NumbersAreInterval == \E m \in Nat : Numbers = 0 .. m
<1>1. PICK k \in Nat : Start(k) < Blocks /\ Blocks <= Start(k) + PartBlocks
  BY StartDivides, BlockConstants
<1>2. ASSUME NEW n \in 0 .. k PROVE n \in Numbers
  <2>1. n \in Nat /\ Start(n) \in Nat /\ Start(k) \in Nat /\ n <= Start(n)
    BY StartNat
  <2>2. Start(n) <= Start(k)
    <3>1. CASE n = k
      BY <2>1, <3>1
    <3>2. CASE n < k
      <4>1. Start(n) + PartBlocks <= Start(k)
        BY <2>1, <3>2, StartOrder
      <4> QED
        BY <2>1, <4>1, BlockConstants
    <3> QED
      BY <2>1, <3>1, <3>2
  <2>3. Start(n) < Blocks
    BY <1>1, <2>1, <2>2, BlockConstants
  <2> QED
    BY <2>1, <2>3, BlockConstants DEF Numbers
<1>3. ASSUME NEW n \in Numbers PROVE n \in 0 .. k
  <2>1. n \in Nat /\ Start(n) < Blocks /\ Start(n) \in Nat
    BY StartNat DEF Numbers
  <2>2. ~(k < n)
    <3> SUFFICES ASSUME k < n PROVE FALSE
      OBVIOUS
    <3>1. Start(k) + PartBlocks <= Start(n) /\ Start(k) \in Nat
      BY <2>1, StartNat, StartOrder
    <3> QED
      BY <1>1, <2>1, <3>1, BlockConstants
  <2> QED
    BY <2>1, <2>2
<1> QED
  BY <1>2, <1>3

\* A set of files with the parts of a build, and no others, puts its archive together.
LEMMA WholeRebuilds ==
  ASSUME NEW b, NEW S, {a \in S : a.kind = "part"} = Whole(b)
  PROVE  Release!Rebuilds(S, b)
<1>1. PICK m \in Nat : Numbers = 0 .. m
  BY NumbersAreInterval
<1>2. \A a \in Whole(b) : \E n \in Numbers : a = PartAt(n, b)
  BY DEF Whole
<1>3. \A a \in Whole(b) : a.build = b
  BY <1>2, PartFacts
<1>4. {a.n : a \in Whole(b)} = 0 .. Release!Cardinality(Whole(b)) - 1
  <2>1. {a.n : a \in Whole(b)} = Numbers
    BY PartFacts DEF Whole
  <2>2. IsFiniteSet(Numbers) /\ Cardinality(Numbers) = m + 1
    BY <1>1, FS_Interval
  <2>4. Cardinality(Whole(b)) = m + 1
    BY <2>2, PartsCounted DEF Whole
  <2> QED
    BY <1>1, <2>1, <2>4, ReleaseCardinality
<1>5. \A a, c \in Whole(b) : a.n < c.n => a.last < c.first
  <2> SUFFICES ASSUME NEW i \in Numbers, NEW j \in Numbers, i < j
               PROVE  PartAt(i, b).last < PartAt(j, b).first
    BY <1>2, PartFacts
  <2>1. Start(i) + PartBlocks <= Start(j) /\ i \in Nat /\ j \in Nat
    BY StartOrder, PartFacts
  <2>2. /\ PartAt(i, b).last <= Start(i) + PartBlocks /\ PartAt(i, b).last \in Nat
        /\ PartAt(j, b).first = Start(j) + 1 /\ Start(j) \in Nat /\ Start(i) \in Nat
    BY PartFacts
  <2> QED
    BY <2>1, <2>2, BlockConstants
<1>6. ASSUME NEW x \in 1 .. Blocks
      PROVE  Release!Cardinality({a \in Whole(b) : x \in a.first .. a.last}) = 1
  <2>1. PICK k \in Nat : Start(k) < x /\ x <= Start(k) + PartBlocks
    BY StartDivides
  <2>2. k \in Numbers
    <3>1. Start(k) \in Nat /\ k <= Start(k)
      BY StartNat
    <3> QED
      BY <2>1, <3>1, BlockConstants DEF Numbers
  <2>3. x \in PartAt(k, b).first .. PartAt(k, b).last
    BY <2>1, <2>2, PartFacts, BlockConstants
  <2>4. PartAt(k, b) \in Whole(b)
    BY <2>2 DEF Whole
  <2>5. ASSUME NEW c \in Whole(b), x \in c.first .. c.last PROVE c = PartAt(k, b)
    <3>1. PICK j \in Numbers : c = PartAt(j, b)
      BY <1>2
    <3>2. c.n = j /\ c.first \in Nat /\ c.last \in Nat /\ j \in Nat
      BY <3>1, PartFacts
    <3>3. PartAt(k, b).n = k /\ PartAt(k, b).first \in Nat /\ PartAt(k, b).last \in Nat
      BY <2>2, PartFacts
    <3>4. CASE j < k
      BY <1>5, <2>3, <2>4, <2>5, <3>2, <3>3, <3>4
    <3>5. CASE k < j
      BY <1>5, <2>3, <2>4, <2>5, <3>2, <3>3, <3>5
    <3>6. CASE j = k
      BY <3>1, <3>6
    <3> QED
      BY <3>2, <3>4, <3>5, <3>6
  <2>6. {a \in Whole(b) : x \in a.first .. a.last} = {PartAt(k, b)}
    BY <2>3, <2>4, <2>5
  <2>7. Cardinality({PartAt(k, b)}) = 1
    BY FS_Singleton
  <2> QED
    BY <2>6, <2>7, ReleaseCardinality
<1> QED
  BY <1>3, <1>4, <1>5, <1>6 DEF Release!Rebuilds

\* The complete output of a build can be installed.
LEMMA CompleteIsWhole ==
  ASSUME NEW b \in Release!Builds
  PROVE  /\ Release!Rebuilds(Complete(b), b) /\ \A a \in Complete(b) : a.build = b
         /\ {a.kind : a \in Complete(b)} = Release!Kinds /\ Complete(b) \subseteq Release!Assets
<1>1. \A a \in Whole(b) : a.kind = "part" /\ a.build = b /\ a \in Release!Assets
  <2> SUFFICES ASSUME NEW n \in Numbers
               PROVE  PartAt(n, b).kind = "part" /\ PartAt(n, b).build = b /\ PartAt(n, b) \in Release!Assets
    BY DEF Whole
  <2>1. /\ PartAt(n, b).n \in 0 .. Blocks /\ PartAt(n, b).first \in 0 .. Blocks
        /\ PartAt(n, b).last \in 0 .. Blocks
    BY PartFacts, BlockConstants
  <2>2. PartAt(n, b).kind = "part" /\ PartAt(n, b).build = b
    BY PartFacts
  <2>3. PartAt(n, b) \in Release!Assets
    BY <2>1, <2>2 DEF Release!Assets, PartAt, Release!Asset, Release!Kinds
  <2> QED
    BY <2>2, <2>3
<1>2. \E a \in Whole(b) : a.kind = "part"
  <2>1. 0 \in Numbers
    BY BlockConstants, StartNext DEF Numbers
  <2> QED
    BY <2>1, <1>1 DEF Whole
<1>3. /\ \A a \in Copies(b) : a.kind \in {"manifest", "checksum", "signature"} /\ a.build = b
                              /\ a \in Release!Assets
      /\ \A f \in {"manifest", "checksum", "signature"} : \E a \in Copies(b) : a.kind = f
  <2>1. 0 \in 0 .. Blocks
    BY BlockConstants
  <2>2. ASSUME NEW f \in {"manifest", "checksum", "signature"}
        PROVE  /\ Release!Asset(f, 0, b, 0, 0).kind = f /\ Release!Asset(f, 0, b, 0, 0).build = b
               /\ Release!Asset(f, 0, b, 0, 0) \in Release!Assets
    BY <2>1 DEF Release!Asset, Release!Assets, Release!Kinds
  <2> QED
    BY <2>2 DEF Copies
<1>4. /\ Catalog(b).kind = "catalog" /\ Catalog(b).build = b /\ Catalog(b) \in Release!Assets
      /\ CatalogSignature(b).kind = "catalog_signature" /\ CatalogSignature(b).build = b
      /\ CatalogSignature(b) \in Release!Assets
  BY BlockConstants DEF Catalog, CatalogSignature, Release!Asset, Release!Assets, Release!Kinds
<1>5. {a \in Complete(b) : a.kind = "part"} = Whole(b)
  BY <1>1, <1>3, <1>4 DEF Complete, Listed
<1>6. {a.kind : a \in Complete(b)} = Release!Kinds
  BY <1>1, <1>2, <1>3, <1>4 DEF Complete, Listed, Release!Kinds
<1> QED
  BY <1>1, <1>3, <1>4, <1>5, <1>6, WholeRebuilds DEF Complete, Listed

\* The files of two builds have the same names.
LEMMA SameNames ==
  ASSUME NEW b, NEW c, NEW a \in Complete(b)
  PROVE  \E d \in Complete(c) : Release!Name(d) = Release!Name(a)
<1>1. CASE a \in Whole(b)
  <2>1. PICK n \in Numbers : a = PartAt(n, b)
    BY <1>1 DEF Whole
  <2>2. PartAt(n, c) \in Complete(c)
    BY DEF Complete, Listed, Whole
  <2>3. Release!Name(PartAt(n, c)) = Release!Name(a)
    BY <2>1, PartFacts DEF Release!Name
  <2> QED
    BY <2>2, <2>3
<1>2. CASE a \in Copies(b)
  <2>1. PICK f \in {"manifest", "checksum", "signature"} : a = Release!Asset(f, 0, b, 0, 0)
    BY <1>2 DEF Copies
  <2>2. Release!Asset(f, 0, c, 0, 0) \in Complete(c)
    BY DEF Complete, Listed, Copies
  <2> QED
    BY <2>1, <2>2 DEF Release!Name, Release!Asset
<1>3. CASE a \in {Catalog(b), CatalogSignature(b)}
  <2>1. Catalog(c) \in Complete(c) /\ CatalogSignature(c) \in Complete(c)
    BY DEF Complete
  <2> QED
    BY <1>3, <2>1 DEF Release!Name, Release!Asset, Catalog, CatalogSignature
<1> QED
  BY <1>1, <1>2, <1>3 DEF Complete, Listed

\* The parts written so far say how far the archive has been read.
LEMMA WrittenSoFar ==
  ASSUME NEW m \in Nat, m = 0 \/ (m >= 1 /\ Start(m - 1) < Blocks), NEW b, NEW p,
         output[p] = FirstParts(m, b)
  PROVE  /\ Release!Parts(p) = output[p] /\ Release!Cardinality(Release!Parts(p)) = m
         /\ 0 .. m - 1 \subseteq Numbers
         /\ m = 0 => Release!Written(p) = 0
         /\ m >= 1 => Release!Written(p) = Release!Smaller(Start(m), Blocks)
<1>1. 0 .. m - 1 \subseteq Numbers
  <2> SUFFICES ASSUME NEW n \in 0 .. m - 1 PROVE n \in Numbers
    OBVIOUS
  <2>1. m - 1 \in Nat /\ n \in Nat /\ m >= 1 /\ Start(m - 1) \in Nat /\ Start(n) \in Nat
        /\ Start(m - 1) < Blocks /\ n <= Start(n)
    <3>1. m - 1 \in Nat /\ n \in Nat /\ m >= 1
      OBVIOUS
    <3> QED
      BY <3>1, StartNat
  <2>2. Start(n) <= Start(m - 1)
    <3>1. CASE n = m - 1
      BY <2>1, <3>1
    <3>2. CASE n < m - 1
      <4>1. Start(n) + PartBlocks <= Start(m - 1)
        BY <2>1, <3>2, StartOrder
      <4> QED
        BY <2>1, <4>1, BlockConstants
    <3> QED
      BY <2>1, <3>1, <3>2
  <2>3. Start(n) < Blocks
    BY <2>1, <2>2, BlockConstants
  <2> QED
    BY <2>1, <2>3, BlockConstants DEF Numbers
<1>2. \A a \in output[p] : \E n \in 0 .. m - 1 : a = PartAt(n, b)
  BY DEF FirstParts
<1>3. Release!Parts(p) = output[p]
  BY <1>1, <1>2, PartFacts DEF Release!Parts
<1>4. Release!Cardinality(output[p]) = m
  <2>1. IsFiniteSet(0 .. m - 1) /\ Cardinality(0 .. m - 1) = m
    BY FS_Interval
  <2>3. Cardinality(FirstParts(m, b)) = m
    BY <1>1, <2>1, PartsCounted DEF FirstParts
  <2> QED
    BY <2>3, ReleaseCardinality
<1>5. m = 0 => Release!Written(p) = 0
  BY <1>2, <1>3 DEF Release!Written
<1>6. ASSUME m >= 1 PROVE Release!Written(p) = Release!Smaller(Start(m), Blocks)
  <2> DEFINE w == Release!Smaller(Start(m), Blocks)
             Ends(n) == (\E a \in output[p] : a.last = n) /\ \A a \in output[p] : a.last <= n
  <2>1. m - 1 \in 0 .. m - 1 /\ m - 1 \in Numbers /\ m - 1 \in Nat
    BY <1>1, <1>6
  <2>2. Start(m) = Start(m - 1) + PartBlocks /\ Start(m - 1) \in Nat /\ Start(m - 1) < Blocks
    <3>1. m = (m - 1) + 1
      OBVIOUS
    <3>2. Start((m - 1) + 1) = Start(m - 1) + PartBlocks
      BY <2>1, StartNext
    <3> QED
      BY <2>1, <3>1, <3>2, PartFacts
  <2>3. w \in 1 .. Blocks /\ PartAt(m - 1, b).last = w
    <3>1. PartAt(m - 1, b).last = Release!Smaller(Start(m - 1) + PartBlocks, Blocks)
      BY DEF PartAt, Release!Asset
    <3> QED
      BY <2>2, <3>1, BlockConstants DEF Release!Smaller
  <2>4. PartAt(m - 1, b) \in output[p]
    BY <2>1 DEF FirstParts
  <2>5. \A a \in output[p] : a.last <= w /\ a.last \in Nat
    <3> SUFFICES ASSUME NEW n \in 0 .. m - 1 PROVE PartAt(n, b).last <= w /\ PartAt(n, b).last \in Nat
      BY <1>2
    <3>1. /\ PartAt(n, b).last <= Blocks /\ PartAt(n, b).last <= Start(n) + PartBlocks
          /\ PartAt(n, b).last \in Nat /\ n \in Nat /\ Start(n) \in Nat
      <4>1. n \in Numbers
        BY <1>1
      <4> QED
        BY <4>1, PartFacts, BlockConstants
    <3>2. Start(n) + PartBlocks <= Start(m) /\ Start(m) \in Nat
      BY <3>1, StartOrder, StartNat
    <3> QED
      BY <3>1, <3>2, BlockConstants DEF Release!Smaller
  <2>6. Ends(w)
    BY <2>3, <2>4, <2>5
  <2>7. \A n \in 1 .. Blocks : Ends(n) => n = w
    BY <2>3, <2>4, <2>5
  <2>8. Release!Written(p) = CHOOSE n \in 1 .. Blocks : Ends(n)
    BY <1>3, <2>4 DEF Release!Written
  <2> HIDE DEF w, Ends
  <2>9. Release!Written(p) = w
    BY <2>3, <2>6, <2>7, <2>8
  <2> QED
    BY <2>9 DEF w
<1> QED
  BY <1>1, <1>3, <1>4, <1>5, <1>6

\* A checksum in a handoff directory was written after the manifest of its build, and
\* the archive of a later build replaces the archive first: the files whose checksum is
\* the archive's are of one build.
HandoffOK(p) ==
  /\ handoff[p]["checksum"] \in 0 .. build[p]
  /\ handoff[p]["checksum"] = handoff[p]["archive"] /\ handoff[p]["archive"] # 0 =>
       handoff[p]["manifest"] = handoff[p]["archive"]
  /\ bpc[p] \in {"write", "validate", "manifest", "checksum"} =>
       handoff[p]["checksum"] # build[p] /\ build[p] >= 1
  /\ bpc[p] = "validate" => handoff[p]["archive"] \in {build[p], -1}
  /\ bpc[p] = "manifest" => handoff[p]["archive"] = build[p]
  /\ bpc[p] = "checksum" => handoff[p]["archive"] = build[p] /\ handoff[p]["manifest"] = build[p]

\* A profile is built or prepared, not both, and prepared from the files of one build.
TurnsOK(p) ==
  /\ ppc[p] # "idle" => bpc[p] \in {"idle", "done"} /\ made[p] = TRUE
  /\ ppc[p] \in {"split", "copy", "catalog", "sign", "consume"} =>
       /\ handoff[p]["archive"] \in Release!Builds
       /\ handoff[p]["manifest"] = handoff[p]["archive"]
       /\ handoff[p]["checksum"] = handoff[p]["archive"]
       /\ handoff[p]["signature"] = handoff[p]["archive"]

\* Where prepare-profile is says which files are in its output directory.
OutputOK(p) ==
  LET b == handoff[p]["archive"]
  IN  /\ made[p] = FALSE => output[p] = {}
      /\ ppc[p] = "split" =>
           \E m \in Nat : (m = 0 \/ (m >= 1 /\ Start(m - 1) < Blocks)) /\ output[p] = FirstParts(m, b)
      /\ ppc[p] = "copy" => output[p] = Whole(b)
      /\ ppc[p] = "catalog" => output[p] = Listed(b)
      /\ ppc[p] = "sign" => output[p] = Listed(b) \cup {Catalog(b)}
      /\ ppc[p] = "consume" => output[p] = Complete(b)
      /\ ppc[p] = "ready" => \E c \in Release!Builds : output[p] = Complete(c)

\* A catalog lists the whole of its build, wherever it is found.
CatalogsOK(p) ==
  /\ \A b \in Release!Builds : inventory[p][b] = {} \/ inventory[p][b] = Listed(b)
  /\ \A a \in output[p] \cup draft[p] :
       a.kind = "catalog" => inventory[p][a.build] = Listed(a.build)

ProfileOK(p) == HandoffOK(p) /\ TurnsOK(p) /\ OutputOK(p) /\ CatalogsOK(p)

\* Once the index is checked, the draft is complete and stays so.
IndexOK ==
  index \in {"checked", "written", "signed", "published"} =>
    \A p \in Profiles : bound[p] \in Release!Builds /\ draft[p] = Complete(bound[p])

AssetTypes ==
  /\ output \in [Profiles -> SUBSET Release!Assets] /\ draft \in [Profiles -> SUBSET Release!Assets]
  /\ inventory \in [Profiles -> [Release!Builds -> SUBSET Release!Assets]]

ReleaseInv == Release!TypeOK /\ AssetTypes /\ IndexOK /\ \A p \in Profiles : ProfileOK(p)

LEMMA ReleaseTypes ==
  ASSUME ReleaseInv
  PROVE  /\ matrix \subseteq Profiles /\ publish \in BOOLEAN
         /\ bpc \in [Profiles -> {"idle", "write", "validate", "manifest", "checksum", "sign", "done"}]
         /\ build \in [Profiles -> 0 .. MaxBuilds]
         /\ handoff \in [Profiles -> [Release!Files -> Release!Contents]]
         /\ ppc \in [Profiles -> {"idle", "split", "copy", "catalog", "sign", "consume", "ready"}]
         /\ made \in [Profiles -> BOOLEAN] /\ listed \in [Profiles -> BOOLEAN]
         /\ output \in [Profiles -> SUBSET Release!Assets]
         /\ draft \in [Profiles -> SUBSET Release!Assets]
         /\ inventory \in [Profiles -> [Release!Builds -> SUBSET Release!Assets]]
         /\ index \in {"none", "checked", "written", "signed", "published", "refused"}
         /\ bound \in [Profiles -> Release!Builds \cup {0}] /\ deaths \in 0 .. MaxDeaths
BY DEF ReleaseInv, Release!TypeOK, AssetTypes, Release!None

LEMMA ReleaseConstants ==
  /\ MaxBuilds \in Nat \ {0} /\ MaxDeaths \in Nat /\ Release!Builds = 1 .. MaxBuilds
  /\ Release!None = 0 /\ Release!Bad = -1 /\ Release!Files = {"archive", "manifest", "checksum", "signature"}
  /\ Release!Contents = 1 .. MaxBuilds \cup {0, -1}
BY PartsAssumption DEF PartsAssumption, Release!ReleaseAssumption, Release!Builds, Release!None,
                       Release!Bad, Release!Files, Release!Contents

LEMMA ReleaseInit == Release!Init => ReleaseInv
<1> SUFFICES ASSUME Release!Init PROVE ReleaseInv
  OBVIOUS
<1>1. /\ matrix = {} /\ publish = FALSE
      /\ bpc = [p \in Profiles |-> "idle"] /\ build = [p \in Profiles |-> 0]
      /\ handoff = [p \in Profiles |-> [f \in Release!Files |-> 0]]
      /\ ppc = [p \in Profiles |-> "idle"] /\ made = [p \in Profiles |-> FALSE]
      /\ output = [p \in Profiles |-> {}]
      /\ inventory = [p \in Profiles |-> [b \in Release!Builds |-> {}]]
      /\ draft = [p \in Profiles |-> {}] /\ listed = [p \in Profiles |-> FALSE]
      /\ index = "none" /\ bound = [p \in Profiles |-> 0] /\ deaths = 0
  BY DEF Release!Init, Release!None
<1>2. AssetTypes
  BY <1>1 DEF AssetTypes
<1>3. Release!TypeOK
  <2>1. /\ build \in [Profiles -> 0 .. MaxBuilds] /\ deaths \in 0 .. MaxDeaths
        /\ bound \in [Profiles -> Release!Builds \cup {Release!None}]
    BY <1>1, ReleaseConstants
  <2>2. handoff \in [Profiles -> [Release!Files -> Release!Contents]]
    BY <1>1, ReleaseConstants
  <2>3. /\ bpc \in [Profiles -> {"idle", "write", "validate", "manifest", "checksum", "sign", "done"}]
        /\ ppc \in [Profiles -> {"idle", "split", "copy", "catalog", "sign", "consume", "ready"}]
        /\ made \in [Profiles -> BOOLEAN] /\ listed \in [Profiles -> BOOLEAN]
    BY <1>1
  <2>4. /\ \A p \in Profiles : output[p] \subseteq Release!Assets /\ draft[p] \subseteq Release!Assets
        /\ \A p \in Profiles, b \in Release!Builds : inventory[p][b] \subseteq Release!Assets
    BY <1>1
  <2>5. publish \in BOOLEAN /\ matrix \subseteq Profiles
    BY <1>1
  <2> QED
    BY <1>1, <2>1, <2>2, <2>3, <2>4, <2>5 DEF Release!TypeOK
<1>4. IndexOK
  BY <1>1 DEF IndexOK
<1>5. ASSUME NEW p \in Profiles PROVE ProfileOK(p)
  <2>1. HandoffOK(p)
    BY <1>1, ReleaseConstants DEF HandoffOK
  <2>2. TurnsOK(p)
    BY <1>1 DEF TurnsOK
  <2>3. OutputOK(p)
    BY <1>1 DEF OutputOK
  <2>4. CatalogsOK(p)
    BY <1>1 DEF CatalogsOK
  <2> QED
    BY <2>1, <2>2, <2>3, <2>4 DEF ProfileOK
<1> QED
  BY <1>2, <1>3, <1>4, <1>5 DEF ReleaseInv

\* A step leaves alone what it does not touch.
SameProfile(p) ==
  /\ bpc'[p] = bpc[p] /\ build'[p] = build[p] /\ handoff'[p] = handoff[p] /\ ppc'[p] = ppc[p]
  /\ made'[p] = made[p] /\ output'[p] = output[p] /\ inventory'[p] = inventory[p]
  /\ draft'[p] = draft[p]

LEMMA OtherProfile ==
  ASSUME ReleaseInv, NEW p \in Profiles, SameProfile(p) PROVE ProfileOK(p)'
<1>1. HandoffOK(p) /\ TurnsOK(p) /\ OutputOK(p) /\ CatalogsOK(p)
  BY DEF ReleaseInv, ProfileOK
<1>2. HandoffOK(p)'
  BY <1>1 DEF HandoffOK, SameProfile
<1>3. TurnsOK(p)'
  BY <1>1 DEF TurnsOK, SameProfile
<1>4. OutputOK(p)'
  BY <1>1 DEF OutputOK, SameProfile
<1>5. CatalogsOK(p)'
  BY <1>1 DEF CatalogsOK, SameProfile
<1> QED
  BY <1>2, <1>3, <1>4, <1>5 DEF ProfileOK

\* A build step of a profile: it changes nothing but the handoff directory.
LEMMA BuildMoves ==
  ASSUME ReleaseInv, NEW p \in Profiles,
         UNCHANGED <<matrix, publish, ppc, made, output, inventory, draft, listed, index, bound, deaths>>,
         ppc[p] = "idle",
         bpc' \in [Profiles -> {"idle", "write", "validate", "manifest", "checksum", "sign", "done"}],
         build' \in [Profiles -> 0 .. MaxBuilds],
         handoff' \in [Profiles -> [Release!Files -> Release!Contents]],
         \A q \in Profiles : q # p => bpc'[q] = bpc[q] /\ build'[q] = build[q] /\ handoff'[q] = handoff[q],
         HandoffOK(p)'
  PROVE  ReleaseInv'
<1>1. Release!TypeOK' /\ AssetTypes'
  BY DEF ReleaseInv, Release!TypeOK, AssetTypes
<1>2. IndexOK'
  BY DEF ReleaseInv, IndexOK
<1>3. ASSUME NEW q \in Profiles PROVE ProfileOK(q)'
  <2>1. CASE q # p
    BY <2>1, OtherProfile DEF SameProfile
  <2>2. CASE q = p
    <3>1. OutputOK(p) /\ CatalogsOK(p)
      BY DEF ReleaseInv, ProfileOK
    <3>2. TurnsOK(p)'
      BY DEF TurnsOK
    <3>3. OutputOK(p)'
      BY <3>1 DEF OutputOK
    <3>4. CatalogsOK(p)'
      BY <3>1 DEF CatalogsOK
    <3> QED
      BY <2>2, <3>2, <3>3, <3>4 DEF ProfileOK
  <2> QED
    BY <2>1, <2>2
<1> QED
  BY <1>1, <1>2, <1>3 DEF ReleaseInv

LEMMA BuildSteps ==
  ASSUME ReleaseInv, NEW p \in Profiles,
         \/ Release!StartBuild(p) \/ Release!WriteArchive(p) \/ Release!ValidateArchive(p)
         \/ Release!WriteManifest(p) \/ Release!WriteChecksum(p) \/ Release!SignArchive(p)
  PROVE  ReleaseInv'
<1>1. UNCHANGED <<matrix, publish, ppc, made, output, inventory, draft, listed, index, bound, deaths>>
  BY DEF Release!StartBuild, Release!WriteArchive, Release!ValidateArchive, Release!WriteManifest,
         Release!WriteChecksum, Release!SignArchive, Release!prepare_vars, Release!release_vars
<1>2. HandoffOK(p) /\ TurnsOK(p)
  BY DEF ReleaseInv, ProfileOK
<1>3. ppc[p] = "idle"
  BY <1>2 DEF TurnsOK, Release!StartBuild, Release!WriteArchive, Release!ValidateArchive,
              Release!WriteManifest, Release!WriteChecksum, Release!SignArchive
<1>4. /\ build[p] \in 0 .. MaxBuilds /\ MaxBuilds \in Nat
      /\ \A f \in Release!Files : handoff[p][f] \in Release!Contents
  BY ReleaseTypes, ReleaseConstants
<1>5. CASE Release!StartBuild(p)
  <2>1. /\ build[p] < MaxBuilds /\ build' = [build EXCEPT ![p] = @ + 1]
        /\ bpc' = [bpc EXCEPT ![p] = "write"] /\ handoff' = handoff
    BY <1>5 DEF Release!StartBuild, Release!BuildTo
  <2>2. build'[p] = build[p] + 1 /\ bpc'[p] = "write" /\ build' \in [Profiles -> 0 .. MaxBuilds]
    BY <1>4, <2>1, ReleaseTypes
  <2>3. HandoffOK(p)'
    BY <1>2, <1>4, <2>1, <2>2 DEF HandoffOK
  <2> QED
    BY <1>1, <1>3, <2>1, <2>2, <2>3, BuildMoves, ReleaseTypes
<1>6. CASE Release!WriteArchive(p)
  <2>1. PICK c \in {build[p], -1} : handoff' = [handoff EXCEPT ![p]["archive"] = c]
    BY <1>6, ReleaseConstants DEF Release!WriteArchive, Release!Write
  <2>2. bpc[p] = "write" /\ bpc' = [bpc EXCEPT ![p] = "validate"] /\ build' = build
    BY <1>6 DEF Release!WriteArchive, Release!BuildTo
  <2>3. build[p] >= 1 /\ handoff[p]["checksum"] # build[p] /\ handoff[p]["checksum"] \in 0 .. build[p]
    BY <1>2, <2>2 DEF HandoffOK
  <2>4. c \in Release!Contents
    BY <1>4, <2>3, ReleaseConstants
  <2>5. /\ handoff' \in [Profiles -> [Release!Files -> Release!Contents]]
        /\ \A q \in Profiles : q # p => handoff'[q] = handoff[q]
    BY <2>1, <2>4, ReleaseTypes, ReleaseConstants
  <2>6. /\ handoff'[p]["archive"] = c /\ handoff'[p]["checksum"] = handoff[p]["checksum"]
        /\ bpc'[p] = "validate"
    BY <2>1, <2>2, ReleaseTypes, ReleaseConstants
  <2>7. HandoffOK(p)'
    BY <1>4, <2>2, <2>3, <2>6 DEF HandoffOK
  <2> QED
    BY <1>1, <1>3, <2>2, <2>5, <2>7, BuildMoves, ReleaseTypes
<1>7. CASE Release!ValidateArchive(p)
  <2>1. /\ bpc[p] = "validate" /\ UNCHANGED <<build, handoff>>
        /\ \/ bpc' = [bpc EXCEPT ![p] = "idle"]
           \/ bpc' = [bpc EXCEPT ![p] = "manifest"] /\ handoff[p]["archive"] # -1
    BY <1>7, ReleaseConstants DEF Release!ValidateArchive, Release!BuildTo
  <2>2. bpc'[p] = "idle" \/ (bpc'[p] = "manifest" /\ handoff[p]["archive"] # -1)
    BY <2>1, ReleaseTypes
  <2>3. HandoffOK(p)'
    BY <1>2, <2>1, <2>2 DEF HandoffOK
  <2>4. /\ bpc' \in [Profiles -> {"idle", "write", "validate", "manifest", "checksum", "sign", "done"}]
        /\ \A q \in Profiles : q # p => bpc'[q] = bpc[q]
    BY <2>1, ReleaseTypes
  <2>5. UNCHANGED <<build, handoff>>
    BY <2>1
  <2> QED
    BY <1>1, <1>3, <2>3, <2>4, <2>5, BuildMoves, ReleaseTypes
<1>8. CASE Release!WriteManifest(p)
  <2>1. /\ bpc[p] = "manifest" /\ bpc' = [bpc EXCEPT ![p] = "checksum"] /\ build' = build
        /\ handoff' = [handoff EXCEPT ![p]["manifest"] = build[p]]
    BY <1>8 DEF Release!WriteManifest, Release!Write, Release!BuildTo
  <2>2. build[p] \in Release!Contents
    BY <1>2, <1>4, <2>1, ReleaseConstants DEF HandoffOK
  <2>3. /\ handoff' \in [Profiles -> [Release!Files -> Release!Contents]]
        /\ \A q \in Profiles : q # p => handoff'[q] = handoff[q]
    BY <2>1, <2>2, ReleaseTypes, ReleaseConstants
  <2>4. /\ handoff'[p]["archive"] = handoff[p]["archive"] /\ handoff'[p]["manifest"] = build[p]
        /\ handoff'[p]["checksum"] = handoff[p]["checksum"] /\ bpc'[p] = "checksum"
    BY <2>1, ReleaseTypes, ReleaseConstants
  <2>5. HandoffOK(p)'
    BY <1>2, <2>1, <2>4 DEF HandoffOK
  <2> QED
    BY <1>1, <1>3, <2>1, <2>3, <2>5, BuildMoves, ReleaseTypes
<1>9. CASE Release!WriteChecksum(p)
  <2>1. /\ bpc[p] = "checksum" /\ bpc' = [bpc EXCEPT ![p] = "sign"] /\ build' = build
        /\ handoff' = [handoff EXCEPT ![p]["checksum"] = handoff[p]["archive"]]
    BY <1>9 DEF Release!WriteChecksum, Release!Write, Release!BuildTo
  <2>2. handoff[p]["archive"] \in Release!Contents
    BY <1>4, ReleaseConstants
  <2>3. /\ handoff' \in [Profiles -> [Release!Files -> Release!Contents]]
        /\ \A q \in Profiles : q # p => handoff'[q] = handoff[q]
    BY <2>1, <2>2, ReleaseTypes, ReleaseConstants
  <2>4. /\ handoff'[p]["archive"] = handoff[p]["archive"] /\ handoff'[p]["manifest"] = handoff[p]["manifest"]
        /\ handoff'[p]["checksum"] = handoff[p]["archive"] /\ bpc'[p] = "sign"
    BY <2>1, ReleaseTypes, ReleaseConstants
  <2>5. HandoffOK(p)'
    BY <1>2, <1>4, <2>1, <2>4 DEF HandoffOK
  <2> QED
    BY <1>1, <1>3, <2>1, <2>3, <2>5, BuildMoves, ReleaseTypes
<1>10. CASE Release!SignArchive(p)
  <2>1. /\ bpc[p] = "sign" /\ build' = build
        /\ bpc' = [bpc EXCEPT ![p] = "done"] \/ bpc' = [bpc EXCEPT ![p] = "idle"]
        /\ \/ handoff' = handoff
           \/ \E c \in {handoff[p]["archive"], 0} : handoff' = [handoff EXCEPT ![p]["signature"] = c]
    BY <1>10, ReleaseConstants DEF Release!SignArchive, Release!Write, Release!BuildTo
  <2>2. /\ handoff' \in [Profiles -> [Release!Files -> Release!Contents]]
        /\ \A q \in Profiles : q # p => handoff'[q] = handoff[q]
        /\ \A f \in {"archive", "manifest", "checksum"} : handoff'[p][f] = handoff[p][f]
    <3>1. CASE handoff' = handoff
      BY <3>1, ReleaseTypes
    <3>2. CASE \E c \in {handoff[p]["archive"], 0} : handoff' = [handoff EXCEPT ![p]["signature"] = c]
      <4>1. PICK c \in {handoff[p]["archive"], 0} : handoff' = [handoff EXCEPT ![p]["signature"] = c]
        BY <3>2
      <4>2. c \in Release!Contents
        BY <1>4, ReleaseConstants
      <4> QED
        BY <4>1, <4>2, ReleaseTypes, ReleaseConstants
    <3> QED
      BY <2>1, <3>1, <3>2
  <2>3. bpc'[p] \in {"idle", "done"}
    BY <2>1, ReleaseTypes
  <2>4. HandoffOK(p)'
    BY <1>2, <2>1, <2>2, <2>3 DEF HandoffOK
  <2>5. /\ bpc' \in [Profiles -> {"idle", "write", "validate", "manifest", "checksum", "sign", "done"}]
        /\ \A q \in Profiles : q # p => bpc'[q] = bpc[q]
    BY <2>1, ReleaseTypes
  <2>6. build' = build
    BY <2>1
  <2> QED
    BY <1>1, <1>3, <2>2, <2>4, <2>5, <2>6, BuildMoves, ReleaseTypes
<1> QED
  BY <1>5, <1>6, <1>7, <1>8, <1>9, <1>10

\* A prepare-profile step of a profile: it changes nothing but the output directory and
\* the catalog it writes there.
LEMMA PrepareMoves ==
  ASSUME ReleaseInv, NEW p \in Profiles,
         UNCHANGED <<matrix, publish, bpc, build, draft, listed, index, bound, deaths>>,
         ppc' \in [Profiles -> {"idle", "split", "copy", "catalog", "sign", "consume", "ready"}],
         made' \in [Profiles -> BOOLEAN], AssetTypes',
         handoff' \in [Profiles -> [Release!Files -> Release!Contents]],
         \A q \in Profiles : q # p => SameProfile(q),
         HandoffOK(p)', TurnsOK(p)', OutputOK(p)', CatalogsOK(p)'
  PROVE  ReleaseInv'
<1>1. Release!TypeOK'
  BY DEF ReleaseInv, Release!TypeOK, AssetTypes
<1>2. IndexOK'
  BY DEF ReleaseInv, IndexOK
<1>3. \A q \in Profiles : ProfileOK(q)'
  BY OtherProfile DEF ProfileOK
<1> QED
  BY <1>1, <1>2, <1>3 DEF ReleaseInv

LEMMA StartPrepareStep ==
  ASSUME ReleaseInv, NEW p \in Profiles, Release!StartPrepare(p) PROVE ReleaseInv'
<1>1. /\ UNCHANGED <<matrix, publish, bpc, build, handoff, output, inventory, draft, listed, index, bound,
                     deaths>>
      /\ bpc[p] \in {"idle", "done"} /\ ppc[p] = "idle" /\ ~made[p]
      /\ made' = [made EXCEPT ![p] = TRUE]
      /\ \/ ppc' = [ppc EXCEPT ![p] = "split"] /\ Release!HandoffAccepted(p)
         \/ ppc' = [ppc EXCEPT ![p] = "idle"]
  BY DEF Release!StartPrepare, Release!PrepareTo, Release!build_vars, Release!release_vars
<1>2. HandoffOK(p) /\ CatalogsOK(p) /\ output[p] = {}
  BY <1>1, ReleaseTypes DEF ReleaseInv, ProfileOK, OutputOK
<1>3. /\ ppc'[p] \in {"split", "idle"} /\ made'[p] = TRUE
      /\ (ppc'[p] = "split" => Release!HandoffAccepted(p))
      /\ ppc' \in [Profiles -> {"idle", "split", "copy", "catalog", "sign", "consume", "ready"}]
      /\ made' \in [Profiles -> BOOLEAN]
      /\ \A q \in Profiles : q # p => ppc'[q] = ppc[q] /\ made'[q] = made[q]
  BY <1>1, ReleaseTypes
<1>4. AssetTypes' /\ \A q \in Profiles : q # p => SameProfile(q)
  BY <1>1, <1>3 DEF ReleaseInv, AssetTypes, SameProfile
<1>5. HandoffOK(p)' /\ CatalogsOK(p)'
  BY <1>1, <1>2 DEF HandoffOK, CatalogsOK
<1>6. TurnsOK(p)'
  <2>1. ASSUME Release!HandoffAccepted(p)
        PROVE  /\ handoff[p]["archive"] \in Release!Builds
               /\ handoff[p]["manifest"] = handoff[p]["archive"]
               /\ handoff[p]["checksum"] = handoff[p]["archive"]
               /\ handoff[p]["signature"] = handoff[p]["archive"]
    <3>1. /\ handoff[p]["checksum"] = handoff[p]["archive"] /\ handoff[p]["archive"] # 0
          /\ handoff[p]["signature"] = handoff[p]["archive"]
      BY <2>1, ReleaseConstants DEF Release!HandoffAccepted
    <3>2. handoff[p]["manifest"] = handoff[p]["archive"] /\ handoff[p]["archive"] \in 0 .. build[p]
      BY <1>2, <3>1 DEF HandoffOK
    <3>3. build[p] \in 0 .. MaxBuilds
      BY ReleaseTypes
    <3> QED
      BY <3>1, <3>2, <3>3, ReleaseConstants
  <2> QED
    BY <1>1, <1>3, <2>1 DEF TurnsOK
<1>7. OutputOK(p)'
  <2>1. output'[p] = FirstParts(0, handoff'[p]["archive"])
    BY <1>1, <1>2 DEF FirstParts
  <2> QED
    BY <1>3, <2>1 DEF OutputOK
<1> QED
  BY <1>1, <1>3, <1>4, <1>5, <1>6, <1>7, PrepareMoves, ReleaseTypes

LEMMA RemoveOutputStep ==
  ASSUME ReleaseInv, NEW p \in Profiles, Release!RemoveOutput(p) PROVE ReleaseInv'
<1>1. /\ UNCHANGED <<matrix, publish, bpc, build, handoff, ppc, inventory, draft, listed, index, bound,
                     deaths>>
      /\ ppc[p] = "idle" /\ made' = [made EXCEPT ![p] = FALSE] /\ output' = [output EXCEPT ![p] = {}]
  BY DEF Release!RemoveOutput, Release!build_vars, Release!release_vars
<1>2. HandoffOK(p) /\ CatalogsOK(p)
  BY DEF ReleaseInv, ProfileOK
<1>3. /\ made' \in [Profiles -> BOOLEAN] /\ output'[p] = {}
      /\ \A q \in Profiles : q # p => output'[q] = output[q] /\ made'[q] = made[q]
      /\ output' \in [Profiles -> SUBSET Release!Assets]
  BY <1>1, ReleaseTypes
<1>4. AssetTypes' /\ \A q \in Profiles : q # p => SameProfile(q)
  BY <1>1, <1>3 DEF ReleaseInv, AssetTypes, SameProfile
<1>5. HandoffOK(p)' /\ CatalogsOK(p)'
  BY <1>1, <1>2, <1>3 DEF HandoffOK, CatalogsOK
<1>6. TurnsOK(p)' /\ OutputOK(p)'
  BY <1>1, <1>3 DEF TurnsOK, OutputOK
<1> QED
  BY <1>1, <1>3, <1>4, <1>5, <1>6, PrepareMoves, ReleaseTypes

\* The files of a step of prepare-profile are those its place in the program says.
LEMMA FilesMove ==
  ASSUME ReleaseInv, NEW p \in Profiles, NEW next \in {"split", "copy", "catalog", "sign", "consume"},
         ppc[p] \in {"split", "copy", "catalog", "sign"},
         UNCHANGED <<matrix, publish, bpc, build, handoff, made, draft, listed, index, bound, deaths>>,
         ppc' = [ppc EXCEPT ![p] = next], NEW assets \in SUBSET Release!Assets,
         output' = [output EXCEPT ![p] = assets],
         inventory' \in [Profiles -> [Release!Builds -> SUBSET Release!Assets]],
         \A q \in Profiles : q # p => inventory'[q] = inventory[q],
         OutputOK(p)', CatalogsOK(p)'
  PROVE  ReleaseInv'
<1>1. HandoffOK(p) /\ TurnsOK(p)
  BY DEF ReleaseInv, ProfileOK
<1>2. /\ ppc' \in [Profiles -> {"idle", "split", "copy", "catalog", "sign", "consume", "ready"}]
      /\ ppc'[p] = next /\ output' \in [Profiles -> SUBSET Release!Assets]
      /\ \A q \in Profiles : q # p => output'[q] = output[q] /\ ppc'[q] = ppc[q]
  BY ReleaseTypes
<1>3. AssetTypes' /\ \A q \in Profiles : q # p => SameProfile(q)
  BY <1>2 DEF ReleaseInv, AssetTypes, SameProfile
<1>4. HandoffOK(p)' /\ TurnsOK(p)'
  BY <1>1, <1>2 DEF HandoffOK, TurnsOK
<1> QED
  BY <1>2, <1>3, <1>4, PrepareMoves, ReleaseTypes

LEMMA SplitSteps ==
  ASSUME ReleaseInv, NEW p \in Profiles, Release!SplitPart(p) \/ Release!SplitEnds(p) PROVE ReleaseInv'
<1> DEFINE b == handoff[p]["archive"]
<1>1. /\ UNCHANGED <<matrix, publish, bpc, build, handoff, made, inventory, draft, listed, index, bound,
                     deaths>>
      /\ ppc[p] = "split"
  BY DEF Release!SplitPart, Release!SplitEnds, Release!build_vars, Release!release_vars
<1>2. b \in Release!Builds /\ CatalogsOK(p) /\ made[p] = TRUE /\ OutputOK(p)
  BY <1>1 DEF ReleaseInv, ProfileOK, TurnsOK
<1>3. PICK m \in Nat : (m = 0 \/ (m >= 1 /\ Start(m - 1) < Blocks)) /\ output[p] = FirstParts(m, b)
  BY <1>1, <1>2 DEF OutputOK
<1>4. /\ Release!Parts(p) = output[p] /\ Release!Cardinality(Release!Parts(p)) = m
      /\ 0 .. m - 1 \subseteq Numbers
      /\ m = 0 => Release!Written(p) = 0
      /\ m >= 1 => Release!Written(p) = Release!Smaller(Start(m), Blocks)
  BY <1>3, WrittenSoFar
<1>5. output \in [Profiles -> SUBSET Release!Assets]
      /\ inventory \in [Profiles -> [Release!Builds -> SUBSET Release!Assets]]
      /\ ppc \in [Profiles -> {"idle", "split", "copy", "catalog", "sign", "consume", "ready"}]
  BY ReleaseTypes
<1>6. Start(m) \in Nat /\ Start(0) = 0
  BY StartNat, StartNext
<1>7. CASE Release!SplitPart(p)
  <2>1. Release!Written(p) < Blocks
    BY <1>7 DEF Release!SplitPart
  <2>2. Release!Written(p) = Start(m) /\ Start(m) < Blocks
    BY <1>4, <1>6, <2>1, BlockConstants DEF Release!Smaller
  <2>3. m \in Numbers
    BY <1>6, <2>2, StartNat, BlockConstants DEF Numbers
  <2>4. output' = [output EXCEPT ![p] = @ \cup {PartAt(m, b)}] /\ ppc' = ppc
    BY <1>4, <1>7, <2>2 DEF Release!SplitPart, Release!Put, PartAt
  <2>5. PartAt(m, b) \in Release!Assets /\ PartAt(m, b).kind = "part"
    <3>1. PartAt(m, b) \in Complete(b)
      BY <2>3 DEF Complete, Listed, Whole
    <3> QED
      BY <1>2, <2>3, <3>1, CompleteIsWhole, PartFacts
  <2>6. output[p] \cup {PartAt(m, b)} = FirstParts(m + 1, b)
    <3>1. 0 .. (m + 1) - 1 = (0 .. m - 1) \cup {m}
      OBVIOUS
    <3> QED
      BY <1>3, <3>1 DEF FirstParts
  <2>7. output'[p] = FirstParts(m + 1, b) /\ output' = [output EXCEPT ![p] = output[p] \cup {PartAt(m, b)}]
        /\ output[p] \cup {PartAt(m, b)} \in SUBSET Release!Assets /\ ppc' = [ppc EXCEPT ![p] = "split"]
        /\ ppc'[p] = "split"
    BY <1>1, <1>5, <2>4, <2>5, <2>6
  <2>8. m + 1 \in Nat /\ m + 1 >= 1 /\ Start((m + 1) - 1) < Blocks
    BY <2>2
  <2>9. OutputOK(p)'
    BY <1>1, <1>2, <2>7, <2>8 DEF OutputOK
  <2>10. CatalogsOK(p)'
    BY <1>1, <1>2, <1>5, <2>4, <2>5 DEF CatalogsOK
  <2> QED
    BY <1>1, <1>5, <2>7, <2>9, <2>10, FilesMove
<1>8. CASE Release!SplitEnds(p)
  <2>1. Release!Written(p) = Blocks /\ output' = output /\ ppc' = [ppc EXCEPT ![p] = "copy"]
    BY <1>8 DEF Release!SplitEnds, Release!PrepareTo
  <2>2. m >= 1 /\ Blocks <= Start(m)
    BY <1>4, <1>6, <2>1, BlockConstants DEF Release!Smaller
  <2>3. Numbers \subseteq 0 .. m - 1
    <3> SUFFICES ASSUME NEW n \in Numbers PROVE n \in 0 .. m - 1
      OBVIOUS
    <3>1. n \in Nat /\ Start(n) \in Nat /\ Start(n) < Blocks
      BY PartFacts
    <3>2. ~(m < n)
      <4> SUFFICES ASSUME m < n PROVE FALSE
        OBVIOUS
      <4>1. Start(m) + PartBlocks <= Start(n)
        BY <3>1, StartOrder
      <4> QED
        BY <1>6, <2>2, <3>1, <4>1, BlockConstants
    <3>3. m # n
      BY <1>6, <2>2, <3>1, BlockConstants
    <3> QED
      BY <3>1, <3>2, <3>3
  <2>4. output[p] = Whole(b)
    <3>1. 0 .. m - 1 = Numbers
      BY <1>4, <2>3
    <3> QED
      BY <1>3, <3>1 DEF FirstParts, Whole
  <2>5. output' = [output EXCEPT ![p] = output[p]] /\ output[p] \in SUBSET Release!Assets /\ ppc'[p] = "copy"
    BY <1>5, <2>1
  <2>6. OutputOK(p)'
    BY <1>1, <1>2, <2>1, <2>4, <2>5 DEF OutputOK
  <2>7. CatalogsOK(p)'
    BY <1>1, <1>2, <2>1 DEF CatalogsOK
  <2> QED
    BY <1>1, <1>5, <2>1, <2>5, <2>6, <2>7, FilesMove
<1> QED
  BY <1>7, <1>8

LEMMA CatalogSteps ==
  ASSUME ReleaseInv, NEW p \in Profiles,
         Release!CopyFiles(p) \/ Release!WriteCatalog(p) \/ Release!SignCatalog(p)
  PROVE  ReleaseInv'
<1> DEFINE b == handoff[p]["archive"]
<1>1. /\ UNCHANGED <<matrix, publish, bpc, build, handoff, made, draft, listed, index, bound, deaths>>
      /\ ppc[p] \in {"copy", "catalog", "sign"}
  BY DEF Release!CopyFiles, Release!WriteCatalog, Release!SignCatalog, Release!build_vars,
         Release!release_vars
<1>2. /\ b \in Release!Builds /\ CatalogsOK(p) /\ made[p] = TRUE /\ OutputOK(p)
      /\ \A f \in {"manifest", "checksum", "signature"} : handoff[p][f] = b
  BY <1>1 DEF ReleaseInv, ProfileOK, TurnsOK
<1>3. output \in [Profiles -> SUBSET Release!Assets]
      /\ inventory \in [Profiles -> [Release!Builds -> SUBSET Release!Assets]]
      /\ ppc \in [Profiles -> {"idle", "split", "copy", "catalog", "sign", "consume", "ready"}]
  BY ReleaseTypes
<1>4. Listed(b) \subseteq Release!Assets /\ Catalog(b) \in Release!Assets
      /\ Complete(b) \subseteq Release!Assets
  <2>1. Complete(b) \subseteq Release!Assets
    BY <1>2, CompleteIsWhole
  <2> QED
    BY <2>1 DEF Complete
<1>5. /\ Catalog(b).kind = "catalog" /\ Catalog(b).build = b
      /\ CatalogSignature(b).kind = "catalog_signature"
      /\ \A a \in Copies(b) : a.kind # "catalog"
  BY DEF Catalog, CatalogSignature, Copies, Release!Asset
<1>6. CASE Release!CopyFiles(p)
  <2>1. /\ ppc[p] = "copy" /\ ppc' = [ppc EXCEPT ![p] = "catalog"] /\ inventory' = inventory
        /\ output' = [output EXCEPT ![p] = @ \cup {Release!Asset(f, 0, handoff[p][f], 0, 0) :
                                                     f \in Release!Files \ {"archive"}}]
    BY <1>6 DEF Release!CopyFiles, Release!PrepareTo, Release!Put
  <2>2. {Release!Asset(f, 0, handoff[p][f], 0, 0) : f \in Release!Files \ {"archive"}} = Copies(b)
    <3>1. Release!Files \ {"archive"} = {"manifest", "checksum", "signature"}
      BY ReleaseConstants
    <3> QED
      BY <1>2, <3>1 DEF Copies
  <2>3. output[p] = Whole(b)
    BY <1>2, <2>1 DEF OutputOK
  <2>4. output' = [output EXCEPT ![p] = Listed(b)]
    BY <2>1, <2>2, <2>3 DEF Listed
  <2>5. output'[p] = Listed(b) /\ ppc'[p] = "catalog"
    BY <1>3, <2>1, <2>4
  <2>6. OutputOK(p)'
    BY <1>1, <1>2, <2>5 DEF OutputOK
  <2>7. CatalogsOK(p)'
    <3>1. \A a \in output'[p] \cup draft'[p] : a.kind = "catalog" => a \in output[p] \cup draft[p]
      BY <1>1, <1>5, <2>3, <2>5 DEF Listed
    <3> QED
      BY <1>2, <2>1, <3>1 DEF CatalogsOK
  <2> QED
    BY <1>1, <1>3, <1>4, <2>1, <2>4, <2>6, <2>7, FilesMove
<1>7. CASE Release!WriteCatalog(p)
  <2>1. /\ ppc[p] = "catalog" /\ ppc' = [ppc EXCEPT ![p] = "sign"]
        /\ inventory' = [inventory EXCEPT ![p][b] = output[p]]
        /\ output' = [output EXCEPT ![p] = @ \cup {Catalog(b)}]
    BY <1>7 DEF Release!WriteCatalog, Release!PrepareTo, Release!Put, Catalog
  <2>2. output[p] = Listed(b)
    BY <1>2, <2>1 DEF OutputOK
  <2>3. output' = [output EXCEPT ![p] = Listed(b) \cup {Catalog(b)}]
    BY <2>1, <2>2
  <2>4. output'[p] = Listed(b) \cup {Catalog(b)} /\ ppc'[p] = "sign"
    BY <1>3, <2>1, <2>3
  <2>5. /\ inventory' \in [Profiles -> [Release!Builds -> SUBSET Release!Assets]]
        /\ \A q \in Profiles : q # p => inventory'[q] = inventory[q]
        /\ inventory'[p][b] = Listed(b) /\ \A c \in Release!Builds : c # b => inventory'[p][c] = inventory[p][c]
    BY <1>2, <1>3, <1>4, <2>1, <2>2
  <2>6. OutputOK(p)'
    BY <1>1, <1>2, <2>4 DEF OutputOK
  <2>7. CatalogsOK(p)'
    <3>1. \A c \in Release!Builds : inventory'[p][c] = {} \/ inventory'[p][c] = Listed(c)
      BY <1>2, <2>5 DEF CatalogsOK
    <3>2. ASSUME NEW a \in output'[p] \cup draft'[p], a.kind = "catalog"
          PROVE  inventory'[p][a.build] = Listed(a.build)
      <4>1. CASE a = Catalog(b)
        BY <1>5, <2>5, <4>1
      <4>2. CASE a # Catalog(b)
        <5>1. a \in output[p] \cup draft[p] /\ a \in Release!Assets
          BY <1>1, <1>3, <2>2, <2>4, <4>2, ReleaseTypes
        <5>2. inventory[p][a.build] = Listed(a.build) /\ a.build \in Release!Builds
          BY <1>2, <3>2, <5>1 DEF CatalogsOK, Release!Assets
        <5> QED
          BY <2>5, <5>2
      <4> QED
        BY <4>1, <4>2
    <3> QED
      BY <3>1, <3>2 DEF CatalogsOK
  <2>8. Listed(b) \cup {Catalog(b)} \in SUBSET Release!Assets
    BY <1>4
  <2> QED
    BY <1>1, <2>1, <2>3, <2>5, <2>6, <2>7, <2>8, FilesMove
<1>8. CASE Release!SignCatalog(p)
  <2>1. /\ ppc[p] = "sign" /\ ppc' = [ppc EXCEPT ![p] = "consume"] /\ inventory' = inventory
        /\ output' = [output EXCEPT ![p] = @ \cup {CatalogSignature(b)}]
    BY <1>8 DEF Release!SignCatalog, Release!PrepareTo, Release!Put, CatalogSignature
  <2>2. output[p] \cup {CatalogSignature(b)} = Complete(b)
    BY <1>2, <2>1 DEF OutputOK, Complete
  <2>3. output' = [output EXCEPT ![p] = Complete(b)]
    BY <2>1, <2>2
  <2>4. output'[p] = Complete(b) /\ ppc'[p] = "consume"
    BY <1>3, <2>1, <2>3
  <2>5. OutputOK(p)'
    BY <1>1, <1>2, <2>4 DEF OutputOK
  <2>6. CatalogsOK(p)'
    <3>1. \A a \in output'[p] \cup draft'[p] : a.kind = "catalog" => a \in output[p] \cup draft[p]
      BY <1>1, <1>5, <2>2, <2>4
    <3> QED
      BY <1>2, <2>1, <3>1 DEF CatalogsOK
  <2> QED
    BY <1>1, <1>3, <1>4, <2>1, <2>3, <2>5, <2>6, FilesMove
<1> QED
  BY <1>6, <1>7, <1>8

LEMMA ConsumeStep ==
  ASSUME ReleaseInv, NEW p \in Profiles, Release!ConsumeArchive(p) PROVE ReleaseInv'
<1> DEFINE b == handoff[p]["archive"]
<1>1. /\ UNCHANGED <<matrix, publish, bpc, build, made, output, inventory, draft, listed, index, bound,
                     deaths>>
      /\ ppc[p] = "consume" /\ ppc' = [ppc EXCEPT ![p] = "ready"]
      /\ handoff' = handoff \/ handoff' = [handoff EXCEPT ![p]["archive"] = 0]
  BY ReleaseConstants DEF Release!ConsumeArchive, Release!PrepareTo, Release!Write, Release!release_vars
<1>2. /\ b \in Release!Builds /\ CatalogsOK(p) /\ TurnsOK(p) /\ HandoffOK(p)
      /\ made[p] = TRUE /\ output[p] = Complete(b)
  BY <1>1 DEF ReleaseInv, ProfileOK, TurnsOK, OutputOK
<1>3. /\ handoff' \in [Profiles -> [Release!Files -> Release!Contents]]
      /\ \A q \in Profiles : q # p => handoff'[q] = handoff[q]
      /\ handoff'[p]["archive"] \in {handoff[p]["archive"], 0}
      /\ \A f \in {"manifest", "checksum"} : handoff'[p][f] = handoff[p][f]
  <2>1. CASE handoff' = handoff
    BY <2>1, ReleaseTypes
  <2>2. CASE handoff' = [handoff EXCEPT ![p]["archive"] = 0]
    BY <2>2, ReleaseTypes, ReleaseConstants
  <2> QED
    BY <1>1, <2>1, <2>2
<1>4. /\ ppc' \in [Profiles -> {"idle", "split", "copy", "catalog", "sign", "consume", "ready"}]
      /\ ppc'[p] = "ready" /\ \A q \in Profiles : q # p => ppc'[q] = ppc[q]
  BY <1>1, ReleaseTypes
<1>5. AssetTypes' /\ \A q \in Profiles : q # p => SameProfile(q)
  BY <1>1, <1>3, <1>4 DEF ReleaseInv, AssetTypes, SameProfile
<1>6. HandoffOK(p)'
  <2>1. bpc[p] \in {"idle", "done"}
    BY <1>1, <1>2 DEF TurnsOK
  <2> QED
    BY <1>1, <1>2, <1>3, <2>1 DEF HandoffOK
<1>7. TurnsOK(p)' /\ OutputOK(p)'
  BY <1>1, <1>2, <1>4 DEF TurnsOK, OutputOK
<1>8. CatalogsOK(p)'
  BY <1>1, <1>2 DEF CatalogsOK
<1> QED
  BY <1>1, <1>3, <1>4, <1>5, <1>6, <1>7, <1>8, PrepareMoves, ReleaseTypes

LEMMA DieStep == ASSUME ReleaseInv, NEW p \in Profiles, Release!Die(p) PROVE ReleaseInv'
<1>1. /\ UNCHANGED <<matrix, publish, build, handoff, made, output, inventory, draft, listed, index, bound>>
      /\ deaths < MaxDeaths /\ deaths' = deaths + 1
      /\ bpc' = [bpc EXCEPT ![p] = "idle"] /\ ppc' = [ppc EXCEPT ![p] = "idle"]
  BY DEF Release!Die, Release!release_vars
<1>2. /\ ppc' \in [Profiles -> {"idle", "split", "copy", "catalog", "sign", "consume", "ready"}]
      /\ bpc' \in [Profiles -> {"idle", "write", "validate", "manifest", "checksum", "sign", "done"}]
      /\ ppc'[p] = "idle" /\ bpc'[p] = "idle"
      /\ \A q \in Profiles : q # p => ppc'[q] = ppc[q] /\ bpc'[q] = bpc[q]
  BY <1>1, ReleaseTypes
<1>3. deaths' \in 0 .. MaxDeaths
  BY <1>1, ReleaseTypes, ReleaseConstants
<1>4. Release!TypeOK' /\ AssetTypes' /\ IndexOK'
  <2>1. AssetTypes' /\ IndexOK'
    BY <1>1 DEF ReleaseInv, AssetTypes, IndexOK
  <2> QED
    BY <1>1, <1>2, <1>3, <2>1 DEF ReleaseInv, Release!TypeOK
<1>5. ASSUME NEW q \in Profiles PROVE ProfileOK(q)'
  <2>1. CASE q # p
    BY <1>1, <1>2, <2>1, OtherProfile DEF SameProfile
  <2>2. CASE q = p
    <3>1. HandoffOK(p) /\ OutputOK(p) /\ CatalogsOK(p)
      BY DEF ReleaseInv, ProfileOK
    <3>2. HandoffOK(p)'
      BY <1>1, <1>2, <3>1 DEF HandoffOK
    <3>3. TurnsOK(p)'
      BY <1>2 DEF TurnsOK
    <3>4. OutputOK(p)'
      BY <1>1, <1>2, <3>1 DEF OutputOK
    <3>5. CatalogsOK(p)'
      BY <1>1, <3>1 DEF CatalogsOK
    <3> QED
      BY <2>2, <3>2, <3>3, <3>4, <3>5 DEF ProfileOK
  <2> QED
    BY <2>1, <2>2
<1> QED
  BY <1>4, <1>5 DEF ReleaseInv

\* Once the index is checked nothing can be uploaded: every name is taken.
LEMMA UploadStep == ASSUME ReleaseInv, NEW p \in Profiles, Release!Upload(p) PROVE ReleaseInv'
<1>1. /\ UNCHANGED <<matrix, publish, bpc, build, handoff, ppc, made, output, inventory, listed, index,
                     bound, deaths>>
      /\ ppc[p] = "ready"
  BY DEF Release!Upload, Release!build_vars, Release!prepare_vars
<1>2. PICK a \in output[p] : /\ Release!Name(a) \notin {Release!Name(d) : d \in draft[p]}
                             /\ draft' = [draft EXCEPT ![p] = @ \cup {a}]
  BY DEF Release!Upload
<1>3. PICK c \in Release!Builds : output[p] = Complete(c)
  BY <1>1 DEF ReleaseInv, ProfileOK, OutputOK
<1>4. index \notin {"checked", "written", "signed", "published"}
  <2> SUFFICES ASSUME index \in {"checked", "written", "signed", "published"} PROVE FALSE
    OBVIOUS
  <2>1. draft[p] = Complete(bound[p])
    BY DEF ReleaseInv, IndexOK
  <2>2. \E d \in Complete(bound[p]) : Release!Name(d) = Release!Name(a)
    BY <1>3, SameNames
  <2> QED
    BY <1>2, <2>1, <2>2
<1>5. /\ draft' \in [Profiles -> SUBSET Release!Assets] /\ draft'[p] = draft[p] \cup {a}
      /\ \A q \in Profiles : q # p => draft'[q] = draft[q]
  BY <1>2, ReleaseTypes
<1>6. Release!TypeOK' /\ AssetTypes' /\ IndexOK'
  <2>1. AssetTypes' /\ IndexOK'
    BY <1>1, <1>4, <1>5 DEF ReleaseInv, AssetTypes, IndexOK
  <2> QED
    BY <1>1, <1>5, <2>1 DEF ReleaseInv, Release!TypeOK
<1>7. ASSUME NEW q \in Profiles PROVE ProfileOK(q)'
  <2>1. CASE q # p
    BY <1>1, <1>5, <2>1, OtherProfile DEF SameProfile
  <2>2. CASE q = p
    <3>1. HandoffOK(p) /\ TurnsOK(p) /\ OutputOK(p) /\ CatalogsOK(p)
      BY DEF ReleaseInv, ProfileOK
    <3>2. HandoffOK(p)' /\ TurnsOK(p)'
      BY <1>1, <3>1 DEF HandoffOK, TurnsOK
    <3>3. OutputOK(p)'
      BY <1>1, <3>1 DEF OutputOK
    <3>4. CatalogsOK(p)'
      <4>1. output'[p] \cup draft'[p] = output[p] \cup draft[p]
        BY <1>1, <1>5
      <4> QED
        BY <1>1, <3>1, <4>1 DEF CatalogsOK
    <3> QED
      BY <2>2, <3>2, <3>3, <3>4 DEF ProfileOK
  <2> QED
    BY <2>1, <2>2
<1> QED
  BY <1>6, <1>7 DEF ReleaseInv

\* The steps that touch no profile.
LEMMA FrameSteps ==
  ASSUME ReleaseInv,
         UNCHANGED <<bpc, build, handoff, ppc, made, output, inventory, draft, deaths>>,
         matrix' \subseteq Profiles, publish' \in BOOLEAN, listed' \in [Profiles -> BOOLEAN],
         index' \in {"none", "checked", "written", "signed", "published", "refused"},
         bound' \in [Profiles -> Release!Builds \cup {Release!None}], IndexOK'
  PROVE  ReleaseInv'
<1>1. Release!TypeOK' /\ AssetTypes'
  BY DEF ReleaseInv, Release!TypeOK, AssetTypes
<1>2. \A p \in Profiles : ProfileOK(p)'
  BY OtherProfile DEF SameProfile
<1> QED
  BY <1>1, <1>2 DEF ReleaseInv

LEMMA RefSteps ==
  ASSUME ReleaseInv, Release!ValidateRef \/ (\E p \in Profiles : Release!UploadEnds(p)) PROVE ReleaseInv'
<1>1. UNCHANGED <<bpc, build, handoff, ppc, made, output, inventory, draft, index, bound, deaths>>
  BY DEF Release!ValidateRef, Release!UploadEnds, Release!build_vars, Release!prepare_vars,
         Release!release_vars
<1>2. listed' \in [Profiles -> BOOLEAN]
  BY ReleaseTypes DEF Release!ValidateRef, Release!UploadEnds, Release!release_vars
<1>3. matrix' \subseteq Profiles /\ publish' \in BOOLEAN
  <2>1. CASE Release!ValidateRef
    <3>1. PICK ref \in Release!Refs :
            /\ Release!RefAccepted(ref) /\ publish' = Release!RefPublishes(ref)
            /\ matrix' = IF Release!RefPublishes(ref) \/ ref.profile = "all" THEN Profiles ELSE {ref.profile}
      BY <2>1 DEF Release!ValidateRef
    <3>2. ref.profile \in Profiles \cup {"all"} /\ ref.requested \in BOOLEAN
      BY DEF Release!Refs
    <3>3. matrix' \subseteq Profiles
      BY <3>1, <3>2
    <3>4. publish' \in BOOLEAN
      BY <3>1, <3>2 DEF Release!RefPublishes
    <3> QED
      BY <3>3, <3>4
  <2>2. CASE \E p \in Profiles : Release!UploadEnds(p)
    BY <2>2, ReleaseTypes DEF Release!UploadEnds
  <2> QED
    BY <2>1, <2>2
<1>4. IndexOK'
  BY <1>1 DEF ReleaseInv, IndexOK
<1> QED
  BY <1>1, <1>2, <1>3, <1>4, FrameSteps, ReleaseTypes, ReleaseConstants

LEMMA IndexSteps ==
  ASSUME ReleaseInv,
         Release!CheckIndex \/ Release!WriteIndex \/ Release!SignIndex \/ Release!Publish
  PROVE  ReleaseInv'
<1>1. UNCHANGED <<matrix, publish, bpc, build, handoff, ppc, made, output, inventory, draft, listed, deaths>>
  BY DEF Release!CheckIndex, Release!WriteIndex, Release!SignIndex, Release!Publish, Release!build_vars,
         Release!prepare_vars
<1>2. CASE Release!CheckIndex
  <2>1. CASE \A p \in Profiles : Release!Catalogs(p) # {} /\ Release!AssetsMatch(p)
    <3>1. index' = "checked" /\ bound' = [p \in Profiles |-> Release!CatalogOf(p).build]
      BY <1>2, <2>1 DEF Release!CheckIndex
    <3>2. ASSUME NEW p \in Profiles
          PROVE  /\ Release!CatalogOf(p).build \in Release!Builds
                 /\ draft[p] = Complete(Release!CatalogOf(p).build)
      <4> DEFINE a == Release!CatalogOf(p)
      <4>1. a \in draft[p] /\ a.kind = "catalog"
        BY <2>1 DEF Release!Catalogs, Release!CatalogOf
      <4>2. a.build \in Release!Builds
        BY <4>1, ReleaseTypes DEF Release!Assets
      <4>3. inventory[p][a.build] = Listed(a.build)
        BY <4>1 DEF ReleaseInv, ProfileOK, CatalogsOK
      <4>4. draft[p] = {Catalog(a.build), CatalogSignature(a.build)} \cup inventory[p][a.build]
        BY <2>1 DEF Release!AssetsMatch, Release!Expected, Catalog, CatalogSignature
      <4> HIDE DEF a
      <4>5. draft[p] = Complete(a.build)
        BY <4>3, <4>4 DEF Complete
      <4> QED
        BY <4>2, <4>5 DEF a
    <3>3. IndexOK'
      BY <1>1, <3>1, <3>2 DEF IndexOK
    <3>4. bound' \in [Profiles -> Release!Builds \cup {Release!None}]
      BY <3>1, <3>2
    <3> QED
      BY <1>1, <3>1, <3>3, <3>4, FrameSteps, ReleaseTypes
  <2>2. CASE ~ \A p \in Profiles : Release!Catalogs(p) # {} /\ Release!AssetsMatch(p)
    <3>1. index' = "refused" /\ bound' = bound
      BY <1>2, <2>2 DEF Release!CheckIndex
    <3>2. IndexOK'
      BY <3>1 DEF IndexOK
    <3> QED
      BY <1>1, <3>1, <3>2, FrameSteps, ReleaseTypes, ReleaseConstants
  <2> QED
    BY <2>1, <2>2
<1>3. CASE Release!WriteIndex \/ Release!SignIndex \/ Release!Publish
  <2>1. /\ bound' = bound /\ index \in {"checked", "written", "signed"}
        /\ index' \in {"written", "signed", "published", "refused"}
    BY <1>3 DEF Release!WriteIndex, Release!SignIndex, Release!Publish
  <2>2. IndexOK'
    BY <1>1, <2>1 DEF ReleaseInv, IndexOK
  <2> QED
    BY <1>1, <2>1, <2>2, FrameSteps, ReleaseTypes, ReleaseConstants
<1> QED
  BY <1>2, <1>3

LEMMA ReleaseNext == ReleaseInv /\ [Release!Next]_releaseVars => ReleaseInv'
<1>1. ASSUME ReleaseInv, Release!Next PROVE ReleaseInv'
  BY <1>1, BuildSteps, StartPrepareStep, RemoveOutputStep, SplitSteps, CatalogSteps, ConsumeStep,
     DieStep, UploadStep, RefSteps, IndexSteps DEF Release!Next
<1>2. ASSUME ReleaseInv, UNCHANGED releaseVars PROVE ReleaseInv'
  <2>1. UNCHANGED <<matrix, publish, bpc, build, handoff, ppc, made, output, inventory, draft, listed,
                    index, bound, deaths>>
    BY <1>2 DEF releaseVars
  <2>2. IndexOK'
    BY <1>2, <2>1 DEF ReleaseInv, IndexOK
  <2> QED
    BY <1>2, <2>1, <2>2, FrameSteps, ReleaseTypes, ReleaseConstants
<1> QED
  BY <1>1, <1>2

\* For any number of profiles, any archive and part size, and wherever processes die or
\* a directory holds the files of several builds: a published release can be put
\* together, byte for byte, into the archive its signature signs, and nothing is signed
\* into a catalog or consumed that is not one whole build (create_pack, prepare_profile,
\* validate_uploaded_assets, assemble_index).
THEOREM ReleaseIsOneBuildHolds == Spec => []ReleaseIsOneBuild
<1>1. Init => ReleaseInv
  BY ReleaseInit DEF Init
<1>2. ReleaseInv /\ [Next]_allVars => ReleaseInv'
  BY ReleaseNext DEF Next, allVars
<1>3. ReleaseInv => ReleaseIsOneBuild
  <2> SUFFICES ASSUME ReleaseInv PROVE Release!ReleaseIsOneBuild
    BY DEF ReleaseIsOneBuild
  <2>1. Release!PublishedIsWhole
    <3> SUFFICES ASSUME index = "published", NEW p \in Profiles
                 PROVE  /\ Release!Rebuilds(draft[p], bound[p])
                        /\ \A a \in draft[p] : a.build = bound[p]
                        /\ {a.kind : a \in draft[p]} = Release!Kinds
      BY DEF Release!PublishedIsWhole
    <3>1. bound[p] \in Release!Builds /\ draft[p] = Complete(bound[p])
      BY DEF ReleaseInv, IndexOK
    <3> QED
      BY <3>1, CompleteIsWhole
  <2>2. Release!CatalogIsOneBuild
    <3> SUFFICES ASSUME NEW p \in Profiles, ppc[p] \in {"consume", "ready"},
                        NEW a \in output[p], NEW c \in output[p]
                 PROVE  a.build = c.build /\ a.build # Release!Bad
      BY DEF Release!CatalogIsOneBuild
    <3>1. PICK b \in Release!Builds : output[p] = Complete(b)
      BY DEF ReleaseInv, ProfileOK, TurnsOK, OutputOK
    <3> QED
      BY <3>1, CompleteIsWhole, ReleaseConstants
  <2>3. Release!ConsumedIsKept
    <3> SUFFICES ASSUME NEW p \in Profiles, ppc[p] = "consume"
                 PROVE  /\ Release!Rebuilds(output[p], handoff[p]["archive"])
                        /\ {a.kind : a \in output[p]} = Release!Kinds
      BY DEF Release!ConsumedIsKept
    <3>1. handoff[p]["archive"] \in Release!Builds /\ output[p] = Complete(handoff[p]["archive"])
      BY DEF ReleaseInv, ProfileOK, TurnsOK, OutputOK
    <3> QED
      BY <3>1, CompleteIsWhole
  <2> QED
    BY <2>1, <2>2, <2>3 DEF ReleaseInv, Release!ReleaseIsOneBuild
<1> QED
  BY <1>1, <1>2, <1>3, PTL DEF Spec

-----------------------------------------------------------------------------
(* The planner.                                                            *)

\* Where run() is says where descriptor 1 points and what became of the executor.
Redirected == {"load", "build", "resolve", "shutdown", "restore"}
RunsOn ==
  /\ pc \in {"parse", "version", "redirect", "validate", "plan", "print", "ended"} \cup Redirected
  /\ pc # "ended" => out = <<>> /\ exit = "running"
  /\ pc \in Redirected => fd1 = "stderr" /\ saved = TRUE
  /\ pc \notin Redirected \cup {"ended"} => fd1 = "stdout" /\ saved = FALSE
  /\ pc \in {"parse", "version", "redirect", "load", "build"} => executor = "none"
  /\ pc \notin {"resolve", "shutdown"} => executor # "live"
  /\ pc = "restore" /\ raised = "none" => executor = "down"
  /\ pc \in {"validate", "plan", "print"} => executor = "down"
  /\ pc \notin {"shutdown", "restore", "ended"} => raised = "none"
  /\ saved = TRUE \/ saved = FALSE

\* How a run ends: one document after everything was released, or none.
Ends ==
  pc = "ended" =>
    /\ \/ out = <<>> /\ exit \in {"failure", "traceback"}
       \/ out = <<"schema">> /\ exit = "ok"
       \/ out = <<"plan">> /\ exit = "ok" /\ executor = "down"
          /\ fd1 = "stdout" /\ saved = FALSE
    /\ saved = TRUE => raised = "other"

\* A policy is checked before the runtime is touched, a plan before it is printed.
Checked ==
  /\ pc \notin {"parse", "ended"} => Planner!SizingPolicy(policy)
  /\ pc = "print" => Planner!Plannable(configs, policy)
  /\ out = <<"plan">> => Planner!SizingPolicy(policy) /\ Planner!Plannable(configs, policy)

PlannerInv == RunsOn /\ Ends /\ Checked

LEMMA PlannerInit == Planner!Init => PlannerInv
BY DEF Planner!Init, PlannerInv, RunsOn, Ends, Checked, Redirected

\* Steps before the runtime is touched.
LEMMA PlannerStarts ==
  ASSUME PlannerInv,
         \/ Planner!PrintSchema \/ Planner!RejectArguments \/ Planner!AcceptArguments
         \/ Planner!ReadVersion \/ Planner!RedirectLogs
  PROVE  PlannerInv'
<1> USE DEF PlannerInv, RunsOn, Ends, Checked, Redirected, Planner!Fail
<1>1. CASE Planner!PrintSchema
  <2>1. out = <<>> /\ out' = <<"schema">>
    BY <1>1 DEF Planner!PrintSchema
  <2> QED BY <1>1, <2>1 DEF Planner!PrintSchema
<1>2. CASE Planner!RejectArguments
  BY <1>2 DEF Planner!RejectArguments
<1>3. CASE Planner!AcceptArguments
  BY <1>3 DEF Planner!AcceptArguments
<1>4. CASE Planner!ReadVersion
  BY <1>4 DEF Planner!ReadVersion
<1>5. CASE Planner!RedirectLogs
  BY <1>5 DEF Planner!RedirectLogs
<1> QED BY <1>1, <1>2, <1>3, <1>4, <1>5

\* Steps while descriptor 1 points at stderr: nothing that is logged reaches stdout.
LEMMA PlannerRuns ==
  ASSUME PlannerInv,
         \/ Planner!LoadRuntime \/ Planner!BuildExecutor \/ Planner!ResolveGeometry
         \/ Planner!ShutdownExecutor
  PROVE  PlannerInv'
<1>1. pc \in Redirected \ {"restore"} /\ Planner!Log
  BY DEF Planner!LoadRuntime, Planner!BuildExecutor, Planner!ResolveGeometry,
         Planner!ShutdownExecutor, Redirected
<1>2. out' = out /\ out = <<>> /\ fd1 = "stderr" /\ saved = TRUE
  BY <1>1 DEF PlannerInv, RunsOn, Planner!Log, Redirected
<1> USE DEF PlannerInv, RunsOn, Ends, Checked, Redirected, Planner!Unwind
<1>3. CASE Planner!LoadRuntime
  BY <1>2, <1>3 DEF Planner!LoadRuntime
<1>4. CASE Planner!BuildExecutor
  BY <1>2, <1>4 DEF Planner!BuildExecutor
<1>5. CASE Planner!ResolveGeometry
  <2>1. /\ pc = "resolve" /\ pc' = "shutdown"
        /\ UNCHANGED <<policy, tp, executor, fd1, saved, exit>>
    BY <1>5 DEF Planner!ResolveGeometry
  <2> QED BY <1>2, <2>1
<1>6. CASE Planner!ShutdownExecutor
  BY <1>2, <1>6 DEF Planner!ShutdownExecutor
<1> QED BY <1>3, <1>4, <1>5, <1>6

\* Steps after the runtime is gone.
LEMMA PlannerEnds ==
  ASSUME PlannerInv,
         \/ Planner!RestoreStdout \/ Planner!ValidateGeometry \/ Planner!BuildPlan
         \/ Planner!PrintPlan
  PROVE  PlannerInv'
<1> USE DEF PlannerInv, RunsOn, Ends, Checked, Redirected, Planner!Fail
<1>1. CASE Planner!RestoreStdout
  BY <1>1 DEF Planner!RestoreStdout
<1>2. CASE Planner!ValidateGeometry
  BY <1>2 DEF Planner!ValidateGeometry
<1>3. CASE Planner!BuildPlan
  BY <1>3 DEF Planner!BuildPlan
<1>4. CASE Planner!PrintPlan
  <2>1. /\ pc = "print" /\ pc' = "ended" /\ out = <<>>
        /\ UNCHANGED <<policy, tp, configs, executor, fd1, saved>>
    BY <1>4 DEF Planner!PrintPlan
  <2>2. \/ raised' = "planning" /\ exit' = "traceback" /\ out' = <<>>
        \/ raised' = raised /\ exit' = "ok" /\ out' = <<"plan">>
    BY <1>4, <2>1 DEF Planner!PrintPlan
  <2> QED BY <2>1, <2>2
<1> QED BY <1>1, <1>2, <1>3, <1>4

LEMMA PlannerNext == PlannerInv /\ [Planner!Next]_plannerVars => PlannerInv'
<1> SUFFICES ASSUME PlannerInv, [Planner!Next]_plannerVars PROVE PlannerInv'
  OBVIOUS
<1>1. CASE UNCHANGED plannerVars
  BY <1>1 DEF plannerVars, PlannerInv, RunsOn, Ends, Checked
<1> QED BY <1>1, PlannerStarts, PlannerRuns, PlannerEnds DEF Planner!Next

\* Whatever the runtime logs and wherever a step of the command fails: stdout carries one
\* document when it succeeds and nothing when it does not; a plan comes after the executor
\* is shut down and stdout is back, for a policy and ranks that passed every check of
\* size_rank (run, _runtime_logs_to_stderr, _geometry_from_executor, build_plan).
THEOREM PlansAreChecked ==
  Spec => [](/\ Planner!StdoutIsOneDocument /\ Planner!ReleasedBeforePlan
             /\ Planner!Planned =>
                  Planner!SizingPolicy(policy) /\ Planner!Plannable(configs, policy))
<1>1. Init => PlannerInv
  BY PlannerInit DEF Init
<1>2. PlannerInv /\ [Next]_allVars => PlannerInv'
  <2>1. [Next]_allVars => [Planner!Next]_plannerVars
    BY DEF Next, allVars, plannerVars
  <2> QED BY <2>1, PlannerNext
<1>3. PlannerInv => Planner!StdoutIsOneDocument
  BY DEF PlannerInv, RunsOn, Ends, Planner!StdoutIsOneDocument
<1>4. ASSUME "plan" \in Planner!Range(out), PlannerInv PROVE out = <<"plan">>
  <2>1. out \in {<<>>, <<"schema">>, <<"plan">>}
    BY <1>4 DEF PlannerInv, RunsOn, Ends
  <2> QED BY <1>4, <2>1 DEF Planner!Range
<1>5. PlannerInv => Planner!ReleasedBeforePlan
  <2> SUFFICES ASSUME PlannerInv PROVE Planner!ReleasedBeforePlan
    OBVIOUS
  <2>1. ASSUME "plan" \in Planner!Range(out)
        PROVE  executor = "down" /\ fd1 = "stdout" /\ saved = FALSE
    <3>1. out = <<"plan">>
      BY <1>4, <2>1
    <3>2. pc = "ended"
      BY <3>1 DEF PlannerInv, RunsOn
    <3> QED BY <3>1, <3>2 DEF PlannerInv, Ends
  <2>2. pc = "ended" => executor # "live"
    BY DEF PlannerInv, RunsOn
  <2>3. saved /\ pc = "ended" => raised = "other"
    <3>1. saved = TRUE \/ saved = FALSE
      BY DEF PlannerInv, RunsOn
    <3>2. pc = "ended" => (saved = TRUE => raised = "other")
      BY DEF PlannerInv, Ends
    <3> QED BY <3>1, <3>2, Zenon
  <2>4. saved = FALSE => ~saved
    BY Zenon
  <2> QED BY <2>1, <2>2, <2>3, <2>4, Zenon DEF Planner!ReleasedBeforePlan
<1>6. PlannerInv /\ Planner!Planned =>
        Planner!SizingPolicy(policy) /\ Planner!Plannable(configs, policy)
  BY <1>4 DEF PlannerInv, Checked, Planner!Planned
<1> QED BY <1>1, <1>2, <1>3, <1>5, <1>6, PTL DEF Spec

-----------------------------------------------------------------------------
(* The planner's arithmetic, for any word width, geometry and policy.      *)

LEMMA Division ==
  ASSUME NEW v \in Nat, NEW d \in Nat \ {0}
  PROVE  /\ v \div d \in Nat /\ v % d \in Nat /\ v % d < d
         /\ v = (v \div d) * d + (v % d)
OBVIOUS

LEMMA Products ==
  ASSUME NEW a \in Nat, NEW b \in Nat, NEW c \in Nat, a <= b
  PROVE  a * c <= b * c /\ a * c \in Nat /\ b * c \in Nat
OBVIOUS

\* A factor more makes a product more by the other factor at least.
LEMMA NextProduct ==
  ASSUME NEW a \in Nat, NEW b \in Nat, NEW c \in Nat, a < b
  PROVE  a * c + c <= b * c
<1>1. (a + 1) * c <= b * c
  BY Products
<1>2. (a + 1) * c = a * c + c
  OBVIOUS
<1> QED BY <1>1, <1>2

LEMMA Quotient ==
  ASSUME NEW v \in Nat, NEW d \in Nat \ {0}, NEW q \in Nat
  PROVE  q <= v \div d <=> q * d <= v
<1>1. /\ v \div d \in Nat /\ v % d \in Nat /\ v % d < d
      /\ v = (v \div d) * d + (v % d)
  BY Division
<1>2. q <= v \div d => q * d <= (v \div d) * d
  BY <1>1, Products
<1>3. q > v \div d => (v \div d) * d + d <= q * d
  BY <1>1, NextProduct
<1>4. q * d \in Nat /\ (v \div d) * d \in Nat
  BY <1>1, Products
<1> QED BY <1>1, <1>2, <1>3, <1>4

LEMMA Multiple ==
  ASSUME NEW q \in Nat, NEW d \in Nat \ {0}
  PROVE  (q * d) % d = 0 /\ (q * d) \div d = q
<1> DEFINE v == q * d
           k == v \div d
           r == v % d
<1>1. v \in Nat
  OBVIOUS
<1>2. k \in Nat /\ r \in Nat /\ r < d /\ v = k * d + r
  BY <1>1, Division
<1>3. v = q * d
  OBVIOUS
<1> HIDE DEF v, k, r
<1>4. k < q => k * d + d <= q * d
  BY <1>2, NextProduct
<1>5. q < k => q * d + d <= k * d
  BY <1>2, NextProduct
<1>6. k * d \in Nat /\ q * d \in Nat
  BY <1>2, Products
<1>7. k = q
  BY <1>2, <1>3, <1>4, <1>5, <1>6
<1>8. r = 0
  BY <1>2, <1>3, <1>7, <1>6
<1> QED BY <1>7, <1>8 DEF v, k, r

LEMMA TwoValues ==
  ASSUME NEW a \in Int, NEW b \in Int
  PROVE  /\ a >= b => Planner!Max({a, b}) = a
         /\ a < b => Planner!Max({a, b}) = b
         /\ a <= b => Planner!Min({a, b}) = a
         /\ a > b => Planner!Min({a, b}) = b
<1>1. CASE a = b
  BY <1>1 DEF Planner!Max, Planner!Min
<1>2. CASE a > b
  BY <1>2 DEF Planner!Max, Planner!Min
<1>3. CASE a < b
  BY <1>3 DEF Planner!Max, Planner!Min
<1> QED BY <1>1, <1>2, <1>3

-----------------------------------------------------------------------------

\* ceil_div is the least number of pieces of d that hold v.
LEMMA CeilDiv ==
  ASSUME NEW v \in Planner!Word, NEW d \in Nat \ {0}, NEW n \in Nat
  PROVE  Planner!ceil_div(v, d) \in Nat /\ (Planner!ceil_div(v, d) <= n <=> v <= n * d)
<1> DEFINE q == v \div d
           r == v % d
           c == Planner!ceil_div(v, d)
<1>1. v \in Nat /\ d \in Nat \ {0}
  BY WordAssumption DEF Planner!Word
<1>2. q \in Nat /\ r \in Nat /\ r < d /\ v = q * d + r
  BY <1>1, Division
<1>3. c = IF r # 0 THEN q + 1 ELSE q
  BY <1>2 DEF Planner!ceil_div
<1> HIDE DEF q, r, c
<1>4. c \in Nat
  BY <1>2, <1>3
<1>5. q <= n => q * d <= n * d
  BY <1>1, <1>2, Products
<1>6. q < n => q * d + d <= n * d
  BY <1>1, <1>2, NextProduct
<1>7. n < q => n * d + d <= q * d
  BY <1>1, <1>2, NextProduct
<1>8. q * d \in Nat /\ n * d \in Nat
  BY <1>1, <1>2, Products
<1>9. c <= n <=> v <= n * d
  <2>1. CASE n < q
    BY <1>1, <1>2, <1>3, <1>4, <1>7, <1>8, <2>1
  <2>2. CASE n = q
    BY <1>1, <1>2, <1>3, <1>4, <1>8, <2>2
  <2>3. CASE n > q
    BY <1>1, <1>2, <1>3, <1>4, <1>6, <1>8, <2>3
  <2> QED BY <1>2, <2>1, <2>2, <2>3
<1> QED BY <1>4, <1>9 DEF c

LEMMA CeilDivGrows ==
  ASSUME NEW v \in Planner!Word, NEW w \in Planner!Word, NEW d \in Nat \ {0}, v <= w
  PROVE  Planner!ceil_div(v, d) <= Planner!ceil_div(w, d)
<1>1. Planner!ceil_div(w, d) \in Nat
  BY CeilDiv
<1>2. w <= Planner!ceil_div(w, d) * d
  BY <1>1, CeilDiv
<1>3. v \in Int /\ w \in Int /\ d \in Nat
  BY WordAssumption DEF Planner!Word
<1>4. Planner!ceil_div(w, d) * d \in Nat
  BY <1>1, <1>3, Products
<1>5. v <= Planner!ceil_div(w, d) * d
  BY <1>2, <1>3, <1>4
<1> QED BY <1>1, <1>5, CeilDiv

\* The checked operations give the sum or the product, or Err.
LEMMA CheckedResults ==
  ASSUME NEW a, NEW b
  PROVE  /\ Planner!checked_add(a, b) # Planner!Err =>
              a \in Planner!Word /\ b \in Planner!Word /\ Planner!checked_add(a, b) = a + b
                /\ a + b \in Planner!Word
         /\ Planner!checked_mul(a, b) # Planner!Err =>
              a \in Planner!Word /\ b \in Planner!Word /\ Planner!checked_mul(a, b) = a * b
                /\ a * b \in Planner!Word
<1>1. ASSUME a \in Planner!Word, b \in Planner!Word PROVE a + b \in Nat /\ a * b \in Nat
  <2>1. a \in Nat /\ b \in Nat
    BY <1>1, WordAssumption DEF Planner!Word
  <2> QED BY <2>1, Products
<1>2. Planner!checked_add(a, b) # Planner!Err => a \in Planner!Word /\ b \in Planner!Word
        /\ Planner!checked_add(a, b) = a + b /\ a + b <= MaxWord
  BY DEF Planner!checked_add
<1>3. Planner!checked_mul(a, b) # Planner!Err => a \in Planner!Word /\ b \in Planner!Word
        /\ Planner!checked_mul(a, b) = a * b /\ a * b <= MaxWord
  BY DEF Planner!checked_mul
<1> QED BY <1>1, <1>2, <1>3, WordAssumption DEF Planner!Word

\* round_up gives the least multiple that is no less.
LEMMA RoundUp ==
  ASSUME NEW v, NEW a \in Planner!Positive, Planner!round_up(v, a) # Planner!Err
  PROVE  /\ v \in Planner!Word /\ Planner!round_up(v, a) \in Planner!Word
         /\ v <= Planner!round_up(v, a) /\ Planner!round_up(v, a) % a = 0
         /\ Planner!round_up(v, a) = Planner!ceil_div(v, a) * a
<1>1. /\ Planner!ceil_div(v, a) \in Planner!Word
      /\ Planner!round_up(v, a) = Planner!ceil_div(v, a) * a
      /\ Planner!ceil_div(v, a) * a \in Planner!Word
  BY CheckedResults DEF Planner!round_up
<1>2. v \in Planner!Word
  BY <1>1, WordAssumption DEF Planner!ceil_div, Planner!Word, Planner!Err
<1>a. a \in Nat \ {0}
  BY WordAssumption DEF Planner!Positive
<1>3. Planner!ceil_div(v, a) \in Nat
  BY <1>2, <1>a, CeilDiv
<1>4. v <= Planner!ceil_div(v, a) * a
  <2>1. Planner!ceil_div(v, a) <= Planner!ceil_div(v, a)
    BY <1>3
  <2> QED BY <1>2, <1>3, <1>a, <2>1, CeilDiv
<1>5. (Planner!ceil_div(v, a) * a) % a = 0
  BY <1>3, Multiple, WordAssumption DEF Planner!Positive
<1> QED BY <1>1, <1>2, <1>4, <1>5

LEMMA RoundUpGrows ==
  ASSUME NEW v, NEW w, NEW a \in Planner!Positive, Planner!round_up(v, a) # Planner!Err,
         Planner!round_up(w, a) # Planner!Err, v <= w
  PROVE  Planner!round_up(v, a) <= Planner!round_up(w, a)
<1>1. /\ v \in Planner!Word /\ Planner!round_up(v, a) = Planner!ceil_div(v, a) * a
      /\ w \in Planner!Word /\ Planner!round_up(w, a) = Planner!ceil_div(w, a) * a
  BY RoundUp
<1>2. a \in Nat \ {0}
  BY WordAssumption DEF Planner!Positive
<1>3. Planner!ceil_div(v, a) <= Planner!ceil_div(w, a) /\ Planner!ceil_div(v, a) \in Nat
        /\ Planner!ceil_div(w, a) \in Nat
  BY <1>1, <1>2, CeilDivGrows, CeilDiv
<1> QED BY <1>1, <1>2, <1>3, Products

\* round_down gives the largest multiple that is no more.
LEMMA RoundDown ==
  ASSUME NEW v \in Nat, NEW a \in Planner!Positive
  PROVE  /\ Planner!round_down(v, a) \in Nat /\ Planner!round_down(v, a) <= v
         /\ Planner!round_down(v, a) % a = 0
         /\ \A b \in Nat : b % a = 0 /\ b <= v => b <= Planner!round_down(v, a)
<1>1. a \in Nat \ {0}
  BY WordAssumption DEF Planner!Positive
<1> DEFINE q == v \div a
<1>2. q \in Nat /\ v % a \in Nat /\ v % a < a /\ v = q * a + (v % a)
  BY <1>1, Division
<1>3. q * a \in Nat
  BY <1>1, <1>2, Products
<1> HIDE DEF q
<1>4. Planner!round_down(v, a) = q * a
  BY <1>2, <1>3 DEF Planner!round_down
<1>5. (q * a) % a = 0
  BY <1>1, <1>2, Multiple
<1>6. ASSUME NEW b \in Nat, b % a = 0, b <= v PROVE b <= q * a
  <2>1. b \div a \in Nat /\ b = (b \div a) * a + (b % a)
    BY <1>1, Division
  <2>2. b = (b \div a) * a
    BY <1>6, <2>1, <1>1, Products
  <2>3. b \div a <= v \div a
    BY <1>1, <1>6, <2>1, <2>2, Quotient
  <2> QED BY <1>1, <1>2, <2>1, <2>2, <2>3, Products DEF q
<1> QED BY <1>2, <1>3, <1>4, <1>5, <1>6

-----------------------------------------------------------------------------

\* What extract_rank_geometry gives: positive sizes, and the null block.
RankOK(rank) ==
  rank.stride \in Planner!Positive /\ rank.sequence \in Planner!Positive /\ rank.overhead = 1

\* A capacity that does not overflow is aligned and holds the null block, the sequences
\* and the prefix.
LEMMA CapacityHolds ==
  ASSUME NEW rank, RankOK(rank), NEW p, Planner!SizingPolicy(p), NEW n \in Nat,
         Planner!CapacityFor(rank, p, n) # Planner!Err
  PROVE  /\ Planner!CapacityFor(rank, p, n) \in Planner!Word
         /\ Planner!CapacityFor(rank, p, n) % p.alignment = 0
         /\ rank.sequence * n \in Nat
         /\ 1 + rank.sequence * n <= Planner!CapacityFor(rank, p, n)
         /\ Planner!Workload(rank, p, n) = rank.sequence * n + p.prefix
         /\ Planner!Workload(rank, p, n) \in Planner!Word
         /\ Planner!checked_mul(Planner!Workload(rank, p, n), p.headroom)
              = Planner!Workload(rank, p, n) * p.headroom
         /\ Planner!checked_mul(Planner!Workload(rank, p, n), p.headroom) \in Planner!Word
         /\ Planner!Headroom(rank, p, n) \in Planner!Word
         /\ Planner!checked_add(rank.overhead, Planner!Workload(rank, p, n)) \in Planner!Word
         /\ Planner!checked_add(rank.overhead, Planner!Workload(rank, p, n))
              = 1 + Planner!Workload(rank, p, n)
         /\ Planner!CapacityFor(rank, p, n) =
              Planner!round_up((1 + Planner!Workload(rank, p, n)) + Planner!Headroom(rank, p, n), p.alignment)
<1> DEFINE w == Planner!Workload(rank, p, n)
           h == Planner!Headroom(rank, p, n)
           s == Planner!checked_add(Planner!checked_add(rank.overhead, w), h)
<1>1. p.alignment \in Planner!Positive /\ p.prefix \in Planner!Word /\ p.headroom \in Nat
  BY DEF Planner!SizingPolicy
<1>2. /\ s \in Planner!Word /\ Planner!CapacityFor(rank, p, n) \in Planner!Word
      /\ s <= Planner!CapacityFor(rank, p, n) /\ Planner!CapacityFor(rank, p, n) % p.alignment = 0
      /\ Planner!CapacityFor(rank, p, n) = Planner!round_up(s, p.alignment)
  <2>1. Planner!CapacityFor(rank, p, n) = Planner!round_up(s, p.alignment)
    BY DEF Planner!CapacityFor
  <2> HIDE DEF s
  <2> QED BY <1>1, <2>1, RoundUp
<1>3. \A x \in Planner!Word : x # Planner!Err /\ x \in Nat
  BY WordAssumption DEF Planner!Word, Planner!Err
<1>4. /\ Planner!checked_add(rank.overhead, w) \in Planner!Word /\ h \in Planner!Word
      /\ s = Planner!checked_add(rank.overhead, w) + h
  <2>1. s # Planner!Err
    BY <1>2, <1>3
  <2> HIDE DEF w, h
  <2> QED BY <2>1, CheckedResults
<1>5. w \in Planner!Word /\ Planner!checked_add(rank.overhead, w) = 1 + w
  <2>1. Planner!checked_add(rank.overhead, w) # Planner!Err
    BY <1>3, <1>4
  <2> HIDE DEF w
  <2> QED BY <2>1, CheckedResults DEF RankOK
<1>6. /\ Planner!checked_mul(rank.sequence, n) = rank.sequence * n
      /\ rank.sequence * n \in Planner!Word
      /\ w = rank.sequence * n + p.prefix
  <2>1. Planner!checked_add(Planner!checked_mul(rank.sequence, n), p.prefix) # Planner!Err
    BY <1>3, <1>5 DEF Planner!Workload
  <2>2. /\ Planner!checked_mul(rank.sequence, n) \in Planner!Word
        /\ w = Planner!checked_mul(rank.sequence, n) + p.prefix
    BY <2>1, CheckedResults DEF Planner!Workload
  <2>3. Planner!checked_mul(rank.sequence, n) # Planner!Err
    BY <1>3, <2>2
  <2> QED BY <2>2, <2>3, CheckedResults
<1>7. /\ Planner!checked_mul(w, p.headroom) = w * p.headroom
      /\ Planner!checked_mul(w, p.headroom) \in Planner!Word
  <2> DEFINE x == Planner!checked_mul(w, p.headroom)
  <2>1. h = Planner!ceil_div(x, 100)
    BY DEF Planner!Headroom
  <2>2. x \in Planner!Word
    <3> HIDE DEF x, h
    <3>1. Planner!ceil_div(x, 100) # Planner!Err
      BY <1>3, <1>4, <2>1
    <3> QED BY <3>1 DEF Planner!ceil_div
  <2>3. x # Planner!Err
    BY <1>3, <2>2
  <2> HIDE DEF w
  <2> QED BY <2>2, <2>3, CheckedResults
<1>8. rank.sequence * n \in Nat /\ p.prefix \in Nat /\ h \in Nat /\ w \in Nat
  BY <1>1, <1>3, <1>4, <1>5, <1>6
<1>9. s = (1 + w) + h
  BY <1>4, <1>5
<1> HIDE DEF w, h, s
<1>10. 1 + rank.sequence * n <= s
  BY <1>6, <1>8, <1>9
<1>11. Planner!CapacityFor(rank, p, n) \in Nat /\ s \in Nat
  BY <1>2, <1>3
<1>12. 1 + rank.sequence * n <= Planner!CapacityFor(rank, p, n)
  BY <1>2, <1>8, <1>10, <1>11
<1> QED BY <1>2, <1>4, <1>5, <1>6, <1>7, <1>8, <1>9, <1>12 DEF w, h

\* More sequences take no less.
LEMMA CapacityGrows ==
  ASSUME NEW rank, RankOK(rank), NEW p, Planner!SizingPolicy(p), NEW n \in Nat, NEW m \in Nat,
         n <= m,
         Planner!CapacityFor(rank, p, n) # Planner!Err, Planner!CapacityFor(rank, p, m) # Planner!Err
  PROVE  Planner!CapacityFor(rank, p, n) <= Planner!CapacityFor(rank, p, m)
<1>1. /\ p.alignment \in Planner!Positive /\ p.prefix \in Nat /\ p.headroom \in Nat
      /\ rank.sequence \in Nat
  BY WordAssumption DEF Planner!SizingPolicy, RankOK, Planner!Word, Planner!Positive
<1> DEFINE v == Planner!Workload(rank, p, n)
           w == Planner!Workload(rank, p, m)
           g == Planner!Headroom(rank, p, n)
           h == Planner!Headroom(rank, p, m)
<1>2. /\ v = rank.sequence * n + p.prefix /\ v \in Planner!Word /\ g \in Planner!Word
      /\ Planner!checked_mul(v, p.headroom) = v * p.headroom
      /\ Planner!checked_mul(v, p.headroom) \in Planner!Word
      /\ Planner!CapacityFor(rank, p, n) = Planner!round_up((1 + v) + g, p.alignment)
  BY CapacityHolds
<1>3. /\ w = rank.sequence * m + p.prefix /\ w \in Planner!Word /\ h \in Planner!Word
      /\ Planner!checked_mul(w, p.headroom) = w * p.headroom
      /\ Planner!checked_mul(w, p.headroom) \in Planner!Word
      /\ Planner!CapacityFor(rank, p, m) = Planner!round_up((1 + w) + h, p.alignment)
  BY CapacityHolds
<1>4. g = Planner!ceil_div(Planner!checked_mul(v, p.headroom), 100)
        /\ h = Planner!ceil_div(Planner!checked_mul(w, p.headroom), 100)
  BY DEF Planner!Headroom
<1> HIDE DEF v, w, g, h
<1>5. n * rank.sequence <= m * rank.sequence /\ n * rank.sequence \in Nat
        /\ m * rank.sequence \in Nat
  BY <1>1, Products
<1>6. n * rank.sequence = rank.sequence * n /\ m * rank.sequence = rank.sequence * m
  BY <1>1
<1>7. v <= w
  BY <1>1, <1>2, <1>3, <1>5, <1>6
<1>8. v \in Nat /\ w \in Nat /\ g \in Nat /\ h \in Nat
  BY <1>2, <1>3, WordAssumption DEF Planner!Word
<1>9. v * p.headroom <= w * p.headroom
  BY <1>1, <1>7, <1>8, Products
<1>10. g <= h
  <2> DEFINE x == Planner!checked_mul(v, p.headroom)
             y == Planner!checked_mul(w, p.headroom)
  <2>1. x <= y /\ x \in Planner!Word /\ y \in Planner!Word /\ g = Planner!ceil_div(x, 100)
          /\ h = Planner!ceil_div(y, 100)
    BY <1>2, <1>3, <1>4, <1>9
  <2>2. 100 \in Nat \ {0}
    OBVIOUS
  <2> HIDE DEF x, y
  <2>3. Planner!ceil_div(x, 100) <= Planner!ceil_div(y, 100)
    BY <2>1, <2>2, CeilDivGrows
  <2> QED BY <2>1, <2>3
<1>11. (1 + v) + g <= (1 + w) + h
  BY <1>7, <1>8, <1>10
<1> QED BY <1>1, <1>2, <1>3, <1>11, RoundUpGrows

\* The block counts size_rank starts from: minimum, floor and cap.
LEMMA Limits ==
  ASSUME NEW rank, RankOK(rank), NEW p, Planner!SizingPolicy(p), Planner!Sizable(rank, p)
  PROVE  /\ Planner!MinimumBlocks(rank, p) \in Nat
         /\ Planner!MinimumBlocks(rank, p) <= Planner!CapacityFor(rank, p, p.target)
         /\ 1 + rank.sequence <= Planner!MinimumBlocks(rank, p)
         /\ Planner!FloorBlocks(rank, p) \in Nat /\ Planner!FloorBlocks(rank, p) <= MaxWord
         /\ Planner!FloorBlocks(rank, p) % p.alignment = 0
         /\ p.minBytes # Planner!Absent => p.minBytes <= Planner!FloorBlocks(rank, p) * rank.stride
         /\ Planner!CapBlocks(rank, p) \in Nat
         /\ Planner!MinimumBlocks(rank, p) <= Planner!CapBlocks(rank, p)
         /\ Planner!FloorBlocks(rank, p) <= Planner!CapBlocks(rank, p)
         /\ p.maxBytes = Planner!Absent => Planner!CapBlocks(rank, p) = MaxWord
         /\ p.maxBytes # Planner!Absent =>
              /\ Planner!CapBlocks(rank, p) % p.alignment = 0
              /\ Planner!CapBlocks(rank, p) * rank.stride <= p.maxBytes
              /\ \A b \in Nat : b % p.alignment = 0 /\ b > Planner!CapBlocks(rank, p)
                                  => b * rank.stride > p.maxBytes
<1> DEFINE m == Planner!MinimumBlocks(rank, p)
           f == Planner!FloorBlocks(rank, p)
           c == Planner!CapBlocks(rank, p)
           t == Planner!CapacityFor(rank, p, p.target)
           a == p.alignment
           k == rank.stride
<1>1. /\ a \in Planner!Positive /\ a \in Nat \ {0} /\ k \in Nat \ {0}
      /\ rank.sequence \in Nat \ {0}
      /\ p.target \in Nat \ {0} /\ MaxWord \in Nat
  BY WordAssumption DEF Planner!SizingPolicy, RankOK, Planner!Positive
<1>2. \A x \in Planner!Word : x # Planner!Err /\ x \in Nat /\ x <= MaxWord
  BY WordAssumption DEF Planner!Word, Planner!Err
<1>3. Planner!MinimumBytes(rank, p) # Planner!Err /\ f # Planner!Err /\ t # Planner!Err
  BY DEF Planner!Sizable
<1>4. m \in Planner!Word
  BY <1>3, CheckedResults DEF Planner!MinimumBytes
<1>5. /\ Planner!checked_add(rank.overhead, rank.sequence) \in Planner!Word
      /\ Planner!checked_add(rank.overhead, rank.sequence) <= m
      /\ m = Planner!round_up(Planner!checked_add(rank.overhead, rank.sequence), a)
  BY <1>1, <1>2, <1>4, RoundUp DEF Planner!MinimumBlocks
<1>6. Planner!checked_add(rank.overhead, rank.sequence) = 1 + rank.sequence
  BY <1>2, <1>5, CheckedResults DEF RankOK
<1>7. /\ t \in Planner!Word /\ 1 + rank.sequence * p.target <= t
      /\ t = Planner!round_up((1 + Planner!Workload(rank, p, p.target))
                                + Planner!Headroom(rank, p, p.target), a)
      /\ Planner!Workload(rank, p, p.target) = rank.sequence * p.target + p.prefix
      /\ Planner!Headroom(rank, p, p.target) \in Nat /\ rank.sequence * p.target \in Nat
  BY <1>1, <1>2, <1>3, CapacityHolds
<1>8. m <= t
  <2> DEFINE u == (1 + Planner!Workload(rank, p, p.target)) + Planner!Headroom(rank, p, p.target)
  <2>1. 1 * rank.sequence <= p.target * rank.sequence
    BY <1>1, Products
  <2>2. rank.sequence <= rank.sequence * p.target
    BY <1>1, <2>1
  <2>3. p.prefix \in Nat
    BY <1>2 DEF Planner!SizingPolicy
  <2>4. 1 + rank.sequence <= u
    BY <1>1, <1>7, <2>2, <2>3
  <2> HIDE DEF u, m, t, a
  <2>5. m = Planner!round_up(1 + rank.sequence, a) /\ t = Planner!round_up(u, a)
    BY <1>5, <1>6, <1>7 DEF u
  <2>6. m # Planner!Err /\ t # Planner!Err
    BY <1>2, <1>3, <1>4
  <2> QED BY <1>1, <2>4, <2>5, <2>6, RoundUpGrows
<1>9. f \in Planner!Word /\ f % a = 0 /\ (p.minBytes # Planner!Absent => p.minBytes <= f * k)
  <2>1. CASE p.minBytes = Planner!Absent
    BY <1>1, <2>1 DEF Planner!FloorBlocks, Planner!Word
  <2>2. CASE p.minBytes # Planner!Absent
    <3> DEFINE x == Planner!ceil_div(p.minBytes, k)
    <3>1. p.minBytes \in Planner!Word
      BY <2>2, WordAssumption DEF Planner!SizingPolicy, Planner!Positive, Planner!Word
    <3>2. f = Planner!round_up(x, a)
      BY <2>2 DEF Planner!FloorBlocks
    <3>3. x \in Nat /\ (f \in Nat => (x <= f <=> p.minBytes <= f * k))
      BY <1>1, <3>1, CeilDiv
    <3> HIDE DEF x, f, a
    <3>4. f \in Planner!Word /\ f % a = 0 /\ x <= f
      BY <1>1, <1>3, <3>2, RoundUp
    <3> QED BY <1>2, <3>3, <3>4
  <2> QED BY <2>1, <2>2
<1>10. CASE p.maxBytes = Planner!Absent
  <2>1. c = MaxWord
    BY <1>10 DEF Planner!CapBlocks
  <2> QED BY <1>1, <1>2, <1>4, <1>5, <1>6, <1>8, <1>9, <1>10, <2>1
<1>11. CASE p.maxBytes # Planner!Absent
  <2> DEFINE q == p.maxBytes \div k
  <2>1. p.maxBytes \in Nat
    BY <1>11, WordAssumption DEF Planner!SizingPolicy, Planner!Positive
  <2>2. q \in Nat
    BY <1>1, <2>1, Division
  <2>3. c = Planner!round_down(q, a)
    BY <1>11 DEF Planner!CapBlocks
  <2>4. /\ c \in Nat /\ c <= q /\ c % a = 0
        /\ \A b \in Nat : b % a = 0 /\ b <= q => b <= c
    <3> HIDE DEF q, c, a
    <3> QED BY <1>1, <2>2, <2>3, RoundDown
  <2>5. \A b \in Nat : b <= q <=> b * k <= p.maxBytes
    BY <1>1, <2>1, Quotient
  <2> HIDE DEF q
  <2>6. c * k <= p.maxBytes
    BY <2>4, <2>5
  <2>7. ASSUME NEW b \in Nat, b % a = 0, b > c PROVE b * k > p.maxBytes
    <3>1. ~(b <= q)
      BY <2>4, <2>7
    <3>2. b * k \in Nat
      BY <1>1, Products
    <3> QED BY <2>1, <2>5, <3>1, <3>2
  <2>8. c >= Planner!Max({m, f})
    BY <1>11 DEF Planner!Sizable
  <2>9. m \in Nat /\ f \in Nat
    BY <1>2, <1>4, <1>9
  <2> HIDE DEF m, f, c
  <2>10. c >= m /\ c >= f
    BY <2>4, <2>8, <2>9, TwoValues
  <2> QED BY <1>2, <1>5, <1>6, <1>8, <1>9, <1>11, <2>4, <2>6, <2>7, <2>9, <2>10 DEF m, f, c
<1> QED BY <1>10, <1>11

\* The initial grant and the virtual maximum.
LEMMA Grants ==
  ASSUME NEW rank, RankOK(rank), NEW p, Planner!SizingPolicy(p), Planner!Sizable(rank, p)
  PROVE  /\ Planner!DesiredBlocks(rank, p) \in Nat
         /\ Planner!DesiredBlocks(rank, p) % p.alignment = 0
         /\ Planner!MinimumBlocks(rank, p) <= Planner!DesiredBlocks(rank, p)
         /\ Planner!FloorBlocks(rank, p) <= Planner!DesiredBlocks(rank, p)
         /\ Planner!DesiredBlocks(rank, p) >= Planner!CapacityFor(rank, p, p.target)
              \/ (p.maxBytes # Planner!Absent /\ Planner!DesiredBlocks(rank, p) = Planner!CapBlocks(rank, p))
         /\ Planner!MaximumBlocks(rank, p) \in Nat /\ Planner!MaximumBlocks(rank, p) % p.alignment = 0
         /\ Planner!DesiredBlocks(rank, p) <= Planner!MaximumBlocks(rank, p)
         /\ Planner!MaximumBlocks(rank, p) <= Planner!CapBlocks(rank, p)
<1> DEFINE m == Planner!MinimumBlocks(rank, p)
           f == Planner!FloorBlocks(rank, p)
           c == Planner!CapBlocks(rank, p)
           a == p.alignment
           d == Planner!DesiredBlocks(rank, p)
           e == Planner!MaximumBlocks(rank, p)
<1>1. /\ m \in Nat /\ m <= Planner!CapacityFor(rank, p, p.target)
      /\ f \in Nat /\ f <= MaxWord /\ f % a = 0 /\ c \in Nat /\ m <= c /\ f <= c
      /\ p.maxBytes = Planner!Absent => c = MaxWord
      /\ p.maxBytes # Planner!Absent => c % a = 0
  BY Limits
<1>2. ASSUME NEW n \in Nat, Planner!CapacityFor(rank, p, n) # Planner!Err
      PROVE  /\ Planner!CapacityFor(rank, p, n) \in Nat /\ Planner!CapacityFor(rank, p, n) % a = 0
             /\ Planner!CapacityFor(rank, p, n) <= MaxWord
  <2>1. Planner!CapacityFor(rank, p, n) \in Planner!Word /\ Planner!CapacityFor(rank, p, n) % a = 0
    BY <1>2, CapacityHolds
  <2> QED BY <2>1, WordAssumption DEF Planner!Word
<1>3. p.target \in Nat /\ Planner!CapacityFor(rank, p, p.target) # Planner!Err /\ MaxWord \in Nat
  BY WordAssumption DEF Planner!SizingPolicy, Planner!Positive, Planner!Sizable
<1> DEFINE t == Planner!CapacityFor(rank, p, p.target)
           x == Planner!Max({t, f})
<1>4. t \in Nat /\ t % a = 0 /\ t <= MaxWord
  BY <1>2, <1>3
<1>5. d = Planner!Min({x, c})
  BY DEF Planner!DesiredBlocks
<1>6. x \in {t, f} /\ t <= x /\ f <= x
  <2> HIDE DEF t, f
  <2> QED BY <1>1, <1>4, TwoValues
<1>7. x \in Nat /\ x % a = 0 /\ x <= MaxWord
  BY <1>1, <1>4, <1>6
<1>8. (x <= c => d = x) /\ (x > c => d = c)
  <2> HIDE DEF x, c, d
  <2>1. x \in Int /\ c \in Int
    BY <1>1, <1>7
  <2>2. (x <= c => Planner!Min({x, c}) = x) /\ (x > c => Planner!Min({x, c}) = c)
    BY <2>1, TwoValues
  <2> QED BY <1>5, <2>2
<1> HIDE DEF t, f, c, m, x, d, a
<1>9. /\ d \in Nat /\ d % a = 0 /\ m <= d /\ f <= d /\ d <= c
      /\ d >= t \/ (p.maxBytes # Planner!Absent /\ d = c)
  BY <1>1, <1>3, <1>4, <1>6, <1>7, <1>8 DEF t
<1>10. e \in Nat /\ e % a = 0 /\ d <= e /\ e <= c
  <2>1. CASE p.maximum = Planner!Absent
    BY <1>9, <2>1 DEF Planner!MaximumBlocks, d
  <2>2. CASE p.maximum # Planner!Absent
    <3> DEFINE y == Planner!CapacityFor(rank, p, p.maximum)
    <3>1. p.maximum \in Nat /\ y # Planner!Err /\ e >= d
      BY <2>2, WordAssumption DEF Planner!SizingPolicy, Planner!Positive, Planner!Sizable, d
    <3>2. y \in Nat /\ y % a = 0 /\ y <= MaxWord
      BY <1>2, <3>1 DEF a
    <3>3. e = Planner!Min({y, c})
      BY <2>2 DEF Planner!MaximumBlocks, c
    <3> HIDE DEF y, e
    <3>4. (y <= c => e = y) /\ (y > c => e = c)
      <4>1. y \in Int /\ c \in Int
        BY <1>1, <3>2
      <4>2. (y <= c => Planner!Min({y, c}) = y) /\ (y > c => Planner!Min({y, c}) = c)
        BY <4>1, TwoValues
      <4> QED BY <3>3, <4>2
    <3> QED BY <1>1, <1>3, <1>9, <3>1, <3>2, <3>4
  <2> QED BY <2>1, <2>2
<1> QED BY <1>9, <1>10 DEF t, f, c, m, d, a

\* Whatever the word width, geometry and policy: the grants of size_rank are whole
\* aligned blocks, at least one full sequence, the initial one within the virtual
\* maximum that live resize may reach, both within the operator's floor and cap.
THEOREM GrantsKeepPolicy ==
  ASSUME NEW rank, RankOK(rank), NEW p, Planner!SizingPolicy(p), Planner!Sizable(rank, p)
  PROVE  LET s == Planner!size_rank(rank, p)
         IN  /\ s.minimum <= s.desired /\ s.desired <= s.maximum
             /\ s.desired % p.alignment = 0 /\ s.maximum % p.alignment = 0
             /\ p.minBytes # Planner!Absent => p.minBytes <= s.desiredBytes
             /\ p.maxBytes # Planner!Absent => s.maximumBytes <= p.maxBytes
<1> DEFINE f == Planner!FloorBlocks(rank, p)
           c == Planner!CapBlocks(rank, p)
           d == Planner!DesiredBlocks(rank, p)
           e == Planner!MaximumBlocks(rank, p)
           k == rank.stride
           s == Planner!size_rank(rank, p)
<1>1. /\ f \in Nat /\ c \in Nat
      /\ p.minBytes # Planner!Absent => p.minBytes <= f * k
      /\ p.maxBytes # Planner!Absent => c * k <= p.maxBytes
  BY Limits
<1>2. /\ d \in Nat /\ d % p.alignment = 0 /\ Planner!MinimumBlocks(rank, p) <= d /\ f <= d
      /\ e \in Nat /\ e % p.alignment = 0 /\ d <= e /\ e <= c
  BY Grants
<1>3. k \in Nat
  BY WordAssumption DEF RankOK, Planner!Positive
<1>4. /\ p.minBytes # Planner!Absent => p.minBytes \in Nat
      /\ p.maxBytes # Planner!Absent => p.maxBytes \in Nat
  BY WordAssumption DEF Planner!SizingPolicy, Planner!Positive
<1>5. f * k <= d * k /\ e * k <= c * k /\ f * k \in Nat /\ d * k \in Nat /\ e * k \in Nat
        /\ c * k \in Nat
  BY <1>1, <1>2, <1>3, Products
<1>6. /\ s.minimum = Planner!MinimumBlocks(rank, p) /\ s.desired = d /\ s.maximum = e
      /\ s.desiredBytes = d * k /\ s.maximumBytes = e * k
  BY DEF Planner!size_rank
<1>7. /\ p.minBytes # Planner!Absent => p.minBytes <= d * k
      /\ p.maxBytes # Planner!Absent => e * k <= p.maxBytes
  <2> HIDE DEF f, c, d, e, k
  <2> QED BY <1>1, <1>4, <1>5
<1> QED BY <1>2, <1>6, <1>7

\* The sequences a number of blocks holds beside the null block.
LEMMA EffectiveIsLargest ==
  ASSUME NEW rank, RankOK(rank), NEW p, Planner!SizingPolicy(p), NEW d \in Nat, d >= 1
  PROVE  /\ Planner!Effective(rank, p, d) \in 0 .. p.target
         /\ \A n \in 0 .. p.target : n <= Planner!Effective(rank, p, d) <=>
              1 + n * rank.sequence <= d
<1> DEFINE q == (d - 1) \div rank.sequence
           e == Planner!Effective(rank, p, d)
<1>1. rank.sequence \in Nat \ {0} /\ p.target \in Nat \ {0} /\ rank.overhead = 1
  BY WordAssumption DEF RankOK, Planner!SizingPolicy, Planner!Positive
<1>2. d - 1 \in Nat
  OBVIOUS
<1>3. q \in Nat
  BY <1>1, <1>2, Division
<1>4. e = Planner!Min({p.target, q})
  BY <1>1 DEF Planner!Effective
<1>5. \A n \in Nat : n <= q <=> n * rank.sequence <= d - 1
  BY <1>1, <1>2, Quotient
<1> HIDE DEF q, e
<1>6. (p.target <= q => e = p.target) /\ (p.target > q => e = q)
  <2> DEFINE z == p.target
  <2>1. z \in Int /\ q \in Int /\ e = Planner!Min({z, q})
    BY <1>1, <1>3, <1>4
  <2> HIDE DEF z
  <2>2. (z <= q => e = z) /\ (z > q => e = q)
    BY <2>1, TwoValues
  <2> QED BY <2>2 DEF z
<1>7. e \in 0 .. p.target
  BY <1>1, <1>3, <1>6
<1>8. ASSUME NEW n \in 0 .. p.target
      PROVE  n <= e <=> 1 + n * rank.sequence <= d
  <2>1. n \in Nat /\ n <= p.target
    BY <1>1
  <2>2. n * rank.sequence \in Nat
    BY <1>1, <2>1, Products
  <2>3. n <= e <=> n <= q
    BY <1>1, <1>3, <1>6, <2>1
  <2>4. n <= q <=> n * rank.sequence <= d - 1
    BY <1>5, <2>1
  <2>5. n * rank.sequence <= d - 1 <=> 1 + n * rank.sequence <= d
    BY <2>2
  <2> QED BY <2>3, <2>4, <2>5
<1> QED BY <1>7, <1>8 DEF e

\* The concurrency a plan promises (size_rank) is the largest its initial grant really
\* holds, and it is below the target only when there is a byte cap and no aligned grant
\* within it holds the target's bare sequences: prefix and headroom go first.
THEOREM GrantHoldsConcurrency ==
  ASSUME NEW rank, RankOK(rank), NEW p, Planner!SizingPolicy(p), Planner!Sizable(rank, p)
  PROVE  LET s == Planner!size_rank(rank, p)
         IN  /\ s.effective \in 1 .. p.target
             /\ \A n \in 0 .. p.target :
                  n <= s.effective <=> 1 + n * rank.sequence <= s.desired
             /\ s.effective < p.target =>
                  /\ p.maxBytes # Planner!Absent
                  /\ \A b \in Nat :
                       /\ b % p.alignment = 0
                       /\ b >= 1 + p.target * rank.sequence
                       => b * rank.stride > p.maxBytes
<1> DEFINE d == Planner!DesiredBlocks(rank, p)
           c == Planner!CapBlocks(rank, p)
           t == Planner!CapacityFor(rank, p, p.target)
           e == Planner!Effective(rank, p, d)
           s == Planner!size_rank(rank, p)
<1>1. rank.sequence \in Nat \ {0} /\ p.target \in Nat \ {0} /\ t # Planner!Err /\ e >= 1
  BY WordAssumption DEF RankOK, Planner!SizingPolicy, Planner!Positive, Planner!Sizable
<1>2. /\ d \in Nat /\ Planner!MinimumBlocks(rank, p) <= d
      /\ d >= t \/ (p.maxBytes # Planner!Absent /\ d = c)
  BY Grants
<1>3. 1 + rank.sequence <= Planner!MinimumBlocks(rank, p) /\ Planner!MinimumBlocks(rank, p) \in Nat
  BY Limits
<1>4. d >= 1
  BY <1>1, <1>2, <1>3
<1>5. /\ e \in 0 .. p.target
      /\ \A n \in 0 .. p.target : n <= e <=> 1 + n * rank.sequence <= d
  <2> HIDE DEF d
  <2> QED BY <1>2, <1>4, EffectiveIsLargest
<1>6. t \in Planner!Word /\ 1 + rank.sequence * p.target <= t /\ rank.sequence * p.target \in Nat
  BY <1>1, CapacityHolds
<1>7. t \in Nat /\ rank.sequence * p.target = p.target * rank.sequence
  BY <1>1, <1>6, WordAssumption DEF Planner!Word
<1>8. p.maxBytes # Planner!Absent =>
        \A b \in Nat : b % p.alignment = 0 /\ b > c => b * rank.stride > p.maxBytes
  BY Limits
<1>9. s.effective = e /\ s.desired = d
  BY DEF Planner!size_rank
<1> HIDE DEF d, c, t, e, s
<1>10. ASSUME e < p.target
       PROVE  /\ p.maxBytes # Planner!Absent /\ d = c
              /\ ~(1 + p.target * rank.sequence <= d)
  <2>1. ~(p.target <= e)
    BY <1>1, <1>5, <1>10
  <2>2. ~(1 + p.target * rank.sequence <= d)
    BY <1>1, <1>5, <2>1
  <2> QED
    BY <1>2, <1>6, <1>7, <2>2
<1>11. ASSUME e < p.target, NEW b \in Nat, b % p.alignment = 0,
              b >= 1 + p.target * rank.sequence
       PROVE  b * rank.stride > p.maxBytes
  <2>1. b > c
    BY <1>2, <1>6, <1>7, <1>10, <1>11
  <2> QED BY <1>8, <1>10, <1>11, <2>1
<1>12. e \in 1 .. p.target
  BY <1>1, <1>5
<1> QED BY <1>5, <1>9, <1>10, <1>11, <1>12 DEF s

\* Asking for more concurrency (size_rank under the same geometry, floor and cap) never
\* grants fewer blocks or promises fewer sequences.
THEOREM MoreConcurrencyIsNotLess ==
  ASSUME NEW rank, RankOK(rank), NEW p \in Planner!PolicyRecords, Planner!SizingPolicy(p),
         Planner!Sizable(rank, p),
         NEW n \in Nat, n >= p.target,
         Planner!SizingPolicy([p EXCEPT !.target = n]), Planner!Sizable(rank, [p EXCEPT !.target = n])
  PROVE  LET s == Planner!size_rank(rank, p)
             more == Planner!size_rank(rank, [p EXCEPT !.target = n])
         IN  more.desired >= s.desired /\ more.effective >= s.effective
<1> DEFINE o == [p EXCEPT !.target = n]
           f == Planner!FloorBlocks(rank, p)
           c == Planner!CapBlocks(rank, p)
           d == Planner!DesiredBlocks(rank, p)
           g == Planner!DesiredBlocks(rank, o)
           t == Planner!CapacityFor(rank, p, p.target)
           u == Planner!CapacityFor(rank, p, n)
<1>1. /\ o.target = n /\ o.maximum = p.maximum /\ o.headroom = p.headroom
      /\ o.prefix = p.prefix /\ o.alignment = p.alignment
      /\ o.minBytes = p.minBytes /\ o.maxBytes = p.maxBytes /\ o.strict = p.strict
  BY DEF Planner!PolicyRecords
<1> HIDE DEF o
<1>2. Planner!FloorBlocks(rank, o) = f /\ Planner!CapBlocks(rank, o) = c
  BY <1>1 DEF Planner!FloorBlocks, Planner!CapBlocks
<1>3. \A k : Planner!CapacityFor(rank, o, k) = Planner!CapacityFor(rank, p, k)
  <2>1. ASSUME NEW k PROVE Planner!Workload(rank, o, k) = Planner!Workload(rank, p, k)
    BY <1>1 DEF Planner!Workload
  <2>2. ASSUME NEW k PROVE Planner!Headroom(rank, o, k) = Planner!Headroom(rank, p, k)
    BY <1>1, <2>1 DEF Planner!Headroom
  <2> QED BY <1>1, <2>1, <2>2 DEF Planner!CapacityFor
<1>4. Planner!SizingPolicy(o) /\ Planner!Sizable(rank, o)
  BY DEF o
<1>5. p.target \in Nat \ {0} /\ t # Planner!Err /\ u # Planner!Err
  <2>1. Planner!CapacityFor(rank, o, o.target) # Planner!Err
    BY <1>4 DEF Planner!Sizable
  <2> QED BY <1>1, <1>3, <2>1, WordAssumption DEF Planner!Sizable, Planner!SizingPolicy,
     Planner!Positive
<1>6. t \in Nat /\ u \in Nat
  <2>1. t \in Planner!Word /\ u \in Planner!Word
    BY <1>5, CapacityHolds
  <2> QED BY <2>1, WordAssumption DEF Planner!Word
<1>7. t <= u
  BY <1>5, CapacityGrows
<1>8. f \in Nat /\ c \in Nat
  BY Limits
<1>9. /\ d \in Nat /\ g \in Nat
      /\ d >= 1 /\ g >= 1
  <2>1. /\ d \in Nat /\ Planner!MinimumBlocks(rank, p) <= d
        /\ g \in Nat /\ Planner!MinimumBlocks(rank, o) <= g
    BY <1>4, Grants
  <2>2. /\ 1 + rank.sequence <= Planner!MinimumBlocks(rank, p)
        /\ Planner!MinimumBlocks(rank, p) \in Nat
        /\ 1 + rank.sequence <= Planner!MinimumBlocks(rank, o)
        /\ Planner!MinimumBlocks(rank, o) \in Nat
    BY <1>4, Limits
  <2>3. rank.sequence \in Nat
    BY WordAssumption DEF RankOK, Planner!Positive
  <2> QED BY <2>1, <2>2, <2>3
<1>10. d = Planner!Min({Planner!Max({t, f}), c}) /\ g = Planner!Min({Planner!Max({u, f}), c})
  BY <1>1, <1>2, <1>3 DEF Planner!DesiredBlocks
<1> HIDE DEF f, c, d, g, t, u
<1>11. ASSUME NEW x \in Nat, NEW y \in Nat, x <= y
       PROVE  Planner!Min({x, c}) <= Planner!Min({y, c})
  <2>1. x \in Int /\ y \in Int /\ c \in Int
    BY <1>8
  <2>2. (x <= c => Planner!Min({x, c}) = x) /\ (x > c => Planner!Min({x, c}) = c)
    BY <2>1, TwoValues
  <2>3. (y <= c => Planner!Min({y, c}) = y) /\ (y > c => Planner!Min({y, c}) = c)
    BY <2>1, TwoValues
  <2> QED BY <1>11, <2>1, <2>2, <2>3
<1>12. Planner!Max({t, f}) \in Nat /\ Planner!Max({u, f}) \in Nat
         /\ Planner!Max({t, f}) <= Planner!Max({u, f})
  BY <1>6, <1>7, <1>8, TwoValues
<1>13. d <= g
  BY <1>10, <1>11, <1>12
<1> DEFINE e == Planner!Effective(rank, p, d)
           h == Planner!Effective(rank, o, g)
<1>14. /\ e \in 0 .. p.target
       /\ \A k \in 0 .. p.target : k <= e <=> 1 + k * rank.sequence <= d
  BY <1>9, EffectiveIsLargest
<1>15. /\ h \in 0 .. n
       /\ \A k \in 0 .. n : k <= h <=> 1 + k * rank.sequence <= g
  <2>1. /\ h \in 0 .. o.target
        /\ \A k \in 0 .. o.target : k <= h <=> 1 + k * rank.sequence <= g
    BY <1>4, <1>9, EffectiveIsLargest
  <2> QED BY <1>1, <2>1
<1> HIDE DEF e, h
<1>16. e \in Nat /\ e \in 0 .. n /\ e <= e
  BY <1>5, <1>14
<1>17. 1 + e * rank.sequence <= d
  BY <1>14, <1>16
<1>18. e * rank.sequence \in Nat
  BY <1>16, Products, WordAssumption DEF RankOK, Planner!Positive
<1>19. 1 + e * rank.sequence <= g
  BY <1>9, <1>13, <1>17, <1>18
<1>20. e <= h
  BY <1>15, <1>16, <1>19
<1>21. /\ Planner!size_rank(rank, p).desired = d /\ Planner!size_rank(rank, o).desired = g
       /\ Planner!size_rank(rank, p).effective = e /\ Planner!size_rank(rank, o).effective = h
  BY DEF Planner!size_rank, d, g, e, h
<1>22. h \in Nat
  BY <1>15
<1> QED BY <1>9, <1>13, <1>16, <1>20, <1>21, <1>22 DEF o

-----------------------------------------------------------------------------
(* The sums of a plan, for any finite set of groups and ranks.             *)

\* The recursion that sums a function over the subsets of a set.
Chosen(s) == CHOOSE x \in s : TRUE
Summed(g, F, s) == IF s = {} THEN 0 ELSE F[Chosen(s)] + g[s \ {Chosen(s)}]
SumOf(g, F, U) == g = [s \in U |-> Summed(g, F, s)]

LEMMA LeastOf ==
  ASSUME NEW T \in SUBSET Nat, T # {}
  PROVE  \E n \in T : \A k \in T : n <= k
<1> DEFINE R == OpToRel(<, Nat)
<1>1. IsWellFoundedOn(R, Nat)
  BY NatLessThanWellFounded
<1>2. \A k, n \in Nat : k < n => <<k, n>> \in R
  BY DEF OpToRel
<1> HIDE DEF R
<1>3. PICK n \in T : \A k \in T : <<k, n>> \notin R
  BY <1>1, WFMin
<1>4. ASSUME NEW k \in T PROVE n <= k
  <2>1. k \in Nat /\ n \in Nat
    OBVIOUS
  <2>2. ~(k < n)
    BY <1>2, <1>3, <2>1
  <2> QED
    BY <2>1, <2>2
<1> QED
  BY <1>4

\* There is such a function: the smallest sets for which there would be none have
\* subsets for which there is one.
LEMMA SumExists ==
  ASSUME NEW S, IsFiniteSet(S), NEW F
  PROVE  \E g : SumOf(g, F, SUBSET S)
<1> DEFINE Upto(n) == {s \in SUBSET S : Cardinality(s) <= n}
           T == {n \in Nat : ~ \E g : SumOf(g, F, Upto(n))}
<1>1. \A s \in SUBSET S : Cardinality(s) \in 0 .. Cardinality(S) /\ IsFiniteSet(s)
  BY FS_Subset, FS_CardinalityType
<1>2. \A s \in SUBSET S : s # {} =>
        Chosen(s) \in s /\ Cardinality(s \ {Chosen(s)}) = Cardinality(s) - 1
  BY <1>1, FS_RemoveElement DEF Chosen
<1>3. T = {}
  <2> SUFFICES ASSUME T # {} PROVE FALSE
    OBVIOUS
  <2>1. PICK n \in T : \A k \in T : n <= k
    BY LeastOf
  <2>2. n = 0 => FALSE
    <3> SUFFICES ASSUME n = 0 PROVE \E g : SumOf(g, F, Upto(n))
      BY <2>1
    <3>1. Upto(n) \subseteq {{}}
      BY <1>1, FS_EmptySet
    <3> DEFINE g == [s \in Upto(n) |-> 0]
    <3>2. SumOf(g, F, Upto(n))
      BY <3>1 DEF SumOf, Summed
    <3> QED
      BY <3>2
  <2>3. n # 0 => FALSE
    <3> SUFFICES ASSUME n # 0 PROVE \E g : SumOf(g, F, Upto(n))
      BY <2>1
    <3>1. n - 1 \in Nat /\ n - 1 \notin T
      <4>1. n \in Nat /\ n - 1 \in Nat /\ ~(n <= n - 1)
        OBVIOUS
      <4> QED
        BY <2>1, <4>1
    <3>2. PICK h : SumOf(h, F, Upto(n - 1))
      BY <3>1
    <3> DEFINE g == [s \in Upto(n) |-> Summed(h, F, s)]
    <3>3. \A s \in Upto(n - 1) : s \in Upto(n) /\ g[s] = h[s]
      <4> SUFFICES ASSUME NEW s \in Upto(n - 1) PROVE s \in Upto(n) /\ g[s] = h[s]
        OBVIOUS
      <4>1. s \in Upto(n)
        BY <1>1, <3>1
      <4>2. h[s] = Summed(h, F, s)
        BY <3>2 DEF SumOf
      <4> QED
        BY <4>1, <4>2
    <3>4. \A s \in Upto(n) : Summed(g, F, s) = Summed(h, F, s)
      <4>1. ASSUME NEW s \in Upto(n), s # {}
            PROVE  g[s \ {Chosen(s)}] = h[s \ {Chosen(s)}]
        <5>1. s \ {Chosen(s)} \in Upto(n - 1)
          BY <1>1, <1>2, <2>1, <4>1
        <5> QED
          BY <3>3, <5>1
      <4> HIDE DEF g, Upto
      <4> QED
        BY <4>1 DEF Summed
    <3> HIDE DEF Upto
    <3>5. g = [s \in Upto(n) |-> Summed(g, F, s)]
      <4> DEFINE k == [s \in Upto(n) |-> Summed(g, F, s)]
      <4>1. \A s \in Upto(n) : k[s] = g[s]
        BY <3>4
      <4> HIDE DEF g
      <4>2. DOMAIN k = DOMAIN g /\ g = [s \in Upto(n) |-> g[s]]
        BY DEF g
      <4> QED
        BY <4>1, <4>2
    <3> QED
      BY <3>5 DEF SumOf
  <2> QED
    BY <2>2, <2>3
<1>4. Cardinality(S) \in Nat /\ Upto(Cardinality(S)) = SUBSET S
  BY <1>1, FS_CardinalityType
<1>5. \E g : SumOf(g, F, Upto(Cardinality(S)))
  BY <1>3, <1>4
<1> QED
  BY <1>4, <1>5

\* A sum of numbers from L to K is at least L and at most K for each.
LEMMA SumBound ==
  ASSUME NEW S, IsFiniteSet(S), NEW L \in Nat, NEW K \in Nat, NEW F,
         \A x \in S : F[x] \in L .. K, NEW g, SumOf(g, F, SUBSET S)
  PROVE  \A s \in SUBSET S :
           g[s] \in Nat /\ L * Cardinality(s) <= g[s] /\ g[s] <= K * Cardinality(s)
<1> DEFINE Good(s) ==
             g[s] \in Nat /\ L * Cardinality(s) <= g[s] /\ g[s] <= K * Cardinality(s)
           T == {n \in Nat : \E s \in SUBSET S : Cardinality(s) = n /\ ~Good(s)}
<1>1. \A s \in SUBSET S : Cardinality(s) \in Nat /\ IsFiniteSet(s)
  BY FS_Subset, FS_CardinalityType
<1>2. ASSUME T # {} PROVE FALSE
  <2>1. PICK n \in T : \A k \in T : n <= k
    BY <1>2, LeastOf
  <2>2. PICK s \in SUBSET S : Cardinality(s) = n /\ ~Good(s)
    BY <2>1
  <2>3. g[s] = Summed(g, F, s)
    BY DEF SumOf
  <2>4. s # {}
    <3> SUFFICES ASSUME s = {} PROVE Good(s)
      BY <2>2
    <3>1. g[s] = 0 /\ Cardinality(s) = 0
      BY <2>3, FS_EmptySet DEF Summed
    <3> QED
      BY <3>1
  <2> DEFINE x == Chosen(s)
             t == s \ {x}
  <2>5. x \in s /\ t \in SUBSET S /\ Cardinality(t) = n - 1 /\ g[s] = F[x] + g[t]
    BY <1>1, <2>2, <2>3, <2>4, FS_RemoveElement DEF Chosen, Summed
  <2> HIDE DEF x, t
  <2>6. n - 1 \in Nat /\ n \in Nat
    BY <1>1, <2>5
  <2>7. g[t] \in Nat /\ L * (n - 1) <= g[t] /\ g[t] <= K * (n - 1)
    <3>1. n - 1 \notin T
      BY <2>1, <2>6
    <3> QED
      BY <2>5, <2>6, <3>1
  <2>8. F[x] \in L .. K
    BY <2>5
  <2>9. /\ K * n = K * (n - 1) + K /\ K * n \in Nat /\ K * (n - 1) \in Int
        /\ L * n = L * (n - 1) + L /\ L * n \in Nat /\ L * (n - 1) \in Int
    BY <2>6
  <2>10. g[s] \in Nat /\ L * n <= g[s] /\ g[s] <= K * n
    BY <2>5, <2>7, <2>8, <2>9
  <2> QED
    BY <2>2, <2>10
<1> QED
  BY <1>1, <1>2

\* What the planner's sums compute.
LEMMA TotalBound ==
  ASSUME NEW f, IsFiniteSet(DOMAIN f), NEW L \in Nat, NEW K \in Nat,
         \A x \in DOMAIN f : f[x] \in L .. K
  PROVE  /\ Planner!Total(f) \in Nat
         /\ L * Cardinality(DOMAIN f) <= Planner!Total(f)
         /\ Planner!Total(f) <= K * Cardinality(DOMAIN f)
<1> DEFINE g == CHOOSE g : SumOf(g, f, SUBSET DOMAIN f)
<1>1. SumOf(g, f, SUBSET DOMAIN f)
  BY SumExists
<1>2. Planner!Total(f) = g[DOMAIN f]
  BY DEF Planner!Total, Planner!MapThenSumSet, Planner!MapThenFoldSet, SumOf, Summed, Chosen
<1> HIDE DEF g
<1> QED
  BY <1>1, <1>2, SumBound

\* A checked sum that is no error is the sum, and positive when there is something to
\* add and it is.
LEMMA CheckedTotal ==
  ASSUME NEW f, Planner!CheckedSum(f) # Planner!Err
  PROVE  /\ Planner!CheckedSum(f) = Planner!Total(f) /\ Planner!Total(f) \in Planner!Word
         /\ \A x \in DOMAIN f : f[x] # Planner!Err
<1>1. /\ \A x \in DOMAIN f : f[x] # Planner!Err
      /\ Planner!CheckedSum(f) = Planner!checked_add(Planner!Total(f), 0)
  BY DEF Planner!CheckedSum
<1>2. /\ Planner!Total(f) \in Planner!Word
      /\ Planner!checked_add(Planner!Total(f), 0) = Planner!Total(f) + 0
  BY <1>1, CheckedResults
<1>3. Planner!Total(f) + 0 = Planner!Total(f)
  BY <1>2, WordAssumption DEF Planner!Word
<1> QED
  BY <1>1, <1>2, <1>3

LEMMA CheckedPositive ==
  ASSUME NEW f, IsFiniteSet(DOMAIN f), DOMAIN f # {}, Planner!CheckedSum(f) # Planner!Err,
         \A x \in DOMAIN f : f[x] \in Planner!Positive
  PROVE  Planner!CheckedSum(f) \in Planner!Positive
<1>1. Planner!CheckedSum(f) = Planner!Total(f) /\ Planner!Total(f) \in 0 .. MaxWord
  BY CheckedTotal DEF Planner!Word
<1>2. \A x \in DOMAIN f : f[x] \in 1 .. MaxWord
  BY DEF Planner!Positive
<1>3. 1 \in Nat /\ MaxWord \in Nat
  BY WordAssumption
<1>4. 1 * Cardinality(DOMAIN f) <= Planner!Total(f)
  BY <1>2, <1>3, TotalBound
<1>5. Cardinality(DOMAIN f) \in Nat /\ Cardinality(DOMAIN f) # 0
  BY FS_CardinalityType, FS_EmptySet
<1>6. Planner!Total(f) >= 1
  BY <1>1, <1>3, <1>4, <1>5
<1> QED
  BY <1>1, <1>3, <1>6 DEF Planner!Positive

\* The sum of one number for each.
LEMMA TotalOfEqual ==
  ASSUME NEW S, IsFiniteSet(S), NEW k \in Nat
  PROVE  Planner!Total([x \in S |-> k]) = k * Cardinality(S)
<1>1. PICK f : f = [x \in S |-> k]
  OBVIOUS
<1>2. DOMAIN f = S /\ \A x \in DOMAIN f : f[x] \in k .. k
  BY <1>1
<1>3. /\ Planner!Total(f) \in Nat
      /\ k * Cardinality(S) <= Planner!Total(f) /\ Planner!Total(f) <= k * Cardinality(S)
  BY <1>2, TotalBound
<1>4. k * Cardinality(S) \in Nat
  BY FS_CardinalityType
<1> QED
  BY <1>1, <1>3, <1>4

\* A set of words with an element has a largest and a least one.
LEMMA LargestWord ==
  ASSUME NEW T \in SUBSET Planner!Word, T # {}
  PROVE  Planner!Max(T) \in T /\ \A x \in T : x <= Planner!Max(T)
<1>1. MaxWord \in Nat /\ \A x \in T : x \in Nat /\ x <= MaxWord
  BY WordAssumption DEF Planner!Word
<1> DEFINE R == {MaxWord - x : x \in T}
<1>2. R \in SUBSET Nat /\ R # {}
  BY <1>1
<1>3. PICK n \in R : \A k \in R : n <= k
  BY <1>2, LeastOf
<1>4. PICK m \in T : n = MaxWord - m
  BY <1>3
<1>5. ASSUME NEW x \in T PROVE m >= x
  <2>1. n <= MaxWord - x
    BY <1>3
  <2> QED
    BY <1>1, <1>4, <2>1
<1>6. \E y \in T : \A x \in T : y >= x
  BY <1>5
<1>7. Planner!Max(T) \in T /\ \A x \in T : Planner!Max(T) >= x
  BY <1>6 DEF Planner!Max
<1> QED
  BY <1>1, <1>7

-----------------------------------------------------------------------------
(* What one rank resolved: bytes of a block, blocks of a sequence.         *)

LEMMA PlannerSets ==
  ASSUME NEW S
  PROVE  /\ Planner!IsFiniteSet(S) <=> IsFiniteSet(S)
         /\ Planner!Cardinality(S) = Cardinality(S)
BY DEF Planner!IsFiniteSet, IsFiniteSet, Planner!Cardinality, Cardinality

LEMMA Words ==
  /\ \A w \in Planner!Word : w \in Nat /\ w <= MaxWord /\ w # Planner!Err
  /\ \A w \in Planner!Positive : w \in Planner!Word /\ w \in Nat \ {0} /\ w # Planner!Err
  /\ \A w \in Nat : 0 < w /\ w <= MaxWord => w \in Planner!Positive
BY WordAssumption DEF Planner!Word, Planner!Positive, Planner!Err

\* A member's page is what its tokens, heads and state take.
LEMMA MemberBytes ==
  ASSUME NEW g, Planner!TopologyAccepted(g), NEW m \in Planner!Members(g),
         m.page # Planner!Err
  PROVE  m.block * m.heads * m.state = m.page /\ m.page \in Planner!Word
<1>1. m.page = Planner!checked_mul(Planner!checked_mul(m.block, m.heads), m.state)
  BY DEF Planner!TopologyAccepted, Planner!DenseLayout
<1>2. /\ Planner!checked_mul(m.block, m.heads) \in Planner!Word
      /\ m.page = Planner!checked_mul(m.block, m.heads) * m.state
      /\ m.page \in Planner!Word
  BY <1>1, CheckedResults
<1>3. Planner!checked_mul(m.block, m.heads) # Planner!Err
  BY <1>2, Words
<1>4. Planner!checked_mul(m.block, m.heads) = m.block * m.heads
  BY <1>3, CheckedResults
<1> QED
  BY <1>2, <1>4

\* The bytes of a group's block are those its layers physically take.
LEMMA GroupBytes ==
  ASSUME NEW g, Planner!ResolvedGroup(g), Planner!TopologyAccepted(g),
         Planner!bytes_per_group_block(g) \in Planner!Positive
  PROVE  Planner!PhysicalBlock(g) = Planner!bytes_per_group_block(g)
<1>1. /\ IsFiniteSet(g.layers) /\ g.wrapped \in BOOLEAN
      /\ g.wrapped = FALSE => {m.page : m \in Planner!Members(g)} = {g.page}
  BY PlannerSets DEF Planner!ResolvedGroup
<1>2. g.page \in Planner!Positive
  BY DEF Planner!TopologyAccepted
<1>3. CASE g.wrapped = TRUE
  <2>1. /\ DOMAIN g.members = g.layers /\ Planner!InnerPages(g) = g.page
        /\ Planner!bytes_per_group_block(g) = g.page
    BY <1>3 DEF Planner!TopologyAccepted, Planner!bytes_per_group_block
  <2> DEFINE pages == [l \in DOMAIN g.members |-> g.members[l].page]
             bytes == [l \in g.layers |->
                         g.members[l].block * g.members[l].heads * g.members[l].state]
  <2>2. Planner!CheckedSum(pages) = g.page
    BY <2>1 DEF Planner!InnerPages
  <2>3. Planner!CheckedSum(pages) # Planner!Err
    BY <1>2, <2>2, Words
  <2>4. /\ Planner!Total(pages) = g.page
        /\ \A l \in DOMAIN pages : pages[l] # Planner!Err
    <3> HIDE DEF pages
    <3> QED
      BY <2>2, <2>3, CheckedTotal
  <2>5. ASSUME NEW l \in g.layers
        PROVE  g.members[l].block * g.members[l].heads * g.members[l].state
                 = g.members[l].page
    <3>1. l \in DOMAIN pages /\ pages[l] = g.members[l].page
      BY <2>1
    <3>2. g.members[l] \in Planner!Members(g)
      BY <2>1 DEF Planner!Members
    <3> QED
      BY <2>4, <3>1, <3>2, MemberBytes
  <2>6. bytes = pages
    BY <2>1, <2>5
  <2>7. Planner!PhysicalBlock(g) = Planner!Total(bytes)
    BY <1>3 DEF Planner!PhysicalBlock
  <2> HIDE DEF bytes, pages
  <2> QED
    BY <2>1, <2>4, <2>6, <2>7
<1>4. CASE g.wrapped = FALSE
  <2>1. PICK d : d = CHOOSE e \in DOMAIN g.members : TRUE
    OBVIOUS
  <2>2. DOMAIN g.members # {}
    BY <1>1, <1>4 DEF Planner!Members
  <2>3. d \in DOMAIN g.members
    BY <2>1, <2>2
  <2>4. PICK m : m = g.members[d]
    OBVIOUS
  <2>5. m \in Planner!Members(g) /\ m.page = g.page
    BY <1>1, <1>4, <2>3, <2>4 DEF Planner!Members
  <2>6. m.block * m.heads * m.state = g.page /\ g.page \in Nat
    BY <1>2, <2>5, MemberBytes, Words
  <2>7. Planner!PhysicalBlock(g) = Planner!Total([l \in g.layers |-> g.page])
    <3>1. Planner!PhysicalBlock(g) =
            Planner!Total([l \in g.layers |-> m.block * m.heads * m.state])
      BY <1>4, <2>1, <2>4 DEF Planner!PhysicalBlock
    <3> QED
      BY <2>6, <3>1
  <2>8. Planner!Total([l \in g.layers |-> g.page]) = g.page * Cardinality(g.layers)
    BY <1>1, <2>6, TotalOfEqual
  <2>9. Planner!bytes_per_group_block(g) = Planner!checked_mul(g.page, Cardinality(g.layers))
    BY <1>4, PlannerSets DEF Planner!bytes_per_group_block
  <2>10. Planner!bytes_per_group_block(g) = g.page * Cardinality(g.layers)
    BY <2>9, Words, CheckedResults
  <2> QED
    BY <2>7, <2>8, <2>10
<1> QED
  BY <1>1, <1>3, <1>4

\* Blocks a sequence takes of a group: the least number whose pages hold its bytes.
LEMMA GroupNeeds ==
  ASSUME NEW g, g.page \in Planner!Positive, Planner!GroupSequenceBlocks(g) \in Planner!Positive
  PROVE  Planner!Min({b \in Planner!Word : b * g.page >= g.seqBytes})
           = Planner!GroupSequenceBlocks(g)
<1> DEFINE c == Planner!GroupSequenceBlocks(g)
           S == {b \in Planner!Word : b * g.page >= g.seqBytes}
<1>1. g.seqBytes \in Planner!Positive /\ c = Planner!ceil_div(g.seqBytes, g.page)
  BY Words DEF Planner!GroupSequenceBlocks
<1>2. g.seqBytes \in Planner!Word /\ g.seqBytes \in Nat /\ g.page \in Nat \ {0}
  BY <1>1, Words
<1>3. \A n \in Nat : c <= n <=> g.seqBytes <= n * g.page
  BY <1>1, <1>2, CeilDiv
<1>4. c \in Planner!Word /\ c \in Nat
  BY Words
<1> HIDE DEF c
<1>5. \A n \in Nat : n * g.page \in Nat
  BY <1>2
<1>6. c \in S
  BY <1>2, <1>3, <1>4, <1>5
<1>7. \A b \in S : c <= b /\ b \in Nat
  BY <1>2, <1>3, <1>5, Words
<1> HIDE DEF S
<1>8. Planner!Min(S) \in S /\ \A b \in S : Planner!Min(S) <= b
  BY <1>6, <1>7 DEF Planner!Min
<1>9. Planner!Min(S) = c
  <2>1. PICK x : x = Planner!Min(S)
    OBVIOUS
  <2>2. x \in Nat /\ c <= x /\ x <= c
    BY <1>6, <1>7, <1>8, <2>1
  <2> QED
    BY <1>4, <2>1, <2>2
<1> QED
  BY <1>9 DEF S, c

\* What an accepted configuration gives size_rank, and what a sequence of it needs.
LEMMA RankIsOK ==
  ASSUME NEW config, Planner!ResolvedConfig(config), Planner!RankAccepted(config),
         NEW rank, rank = Planner!RankGeometry(config), rank.sequence # Planner!Err
  PROVE  RankOK(rank) /\ \A n : Planner!Needed(config.groups, n) = 1 + n * rank.sequence
<1>1. PICK groups : groups = config.groups
  OBVIOUS
<1>2. IsFiniteSet(groups) /\ groups # {}
  BY <1>1, PlannerSets DEF Planner!ResolvedConfig, Planner!RankAccepted, Planner!GroupsAccepted
<1>3. \A g \in groups :
        /\ Planner!bytes_per_group_block(g) \in Planner!Positive
        /\ Planner!GroupSequenceBlocks(g) \in Planner!Positive
        /\ g.page \in Planner!Positive
  BY <1>1 DEF Planner!RankAccepted, Planner!GroupsAccepted, Planner!TopologyAccepted
<1>4. /\ rank.stride = Planner!Max({Planner!bytes_per_group_block(g) : g \in groups})
      /\ rank.sequence = Planner!CheckedSum([g \in groups |-> Planner!GroupSequenceBlocks(g)])
      /\ rank.overhead = 1
  BY <1>1 DEF Planner!RankGeometry, Planner!shared_pool_block_stride,
              Planner!required_blocks_per_sequence
<1>5. rank.stride \in Planner!Positive
  <2> DEFINE T == {Planner!bytes_per_group_block(g) : g \in groups}
  <2>1. T \subseteq Planner!Positive /\ T # {}
    BY <1>2, <1>3
  <2>2. T \in SUBSET Planner!Word
    BY <2>1, Words
  <2> HIDE DEF T
  <2>3. Planner!Max(T) \in T
    BY <2>1, <2>2, LargestWord
  <2> QED
    BY <1>4, <2>1, <2>3 DEF T
<1> DEFINE blocks == [g \in groups |-> Planner!GroupSequenceBlocks(g)]
<1>6. DOMAIN blocks = groups /\ \A g \in DOMAIN blocks : blocks[g] \in Planner!Positive
  BY <1>3
<1>7. [g \in groups |-> Planner!Min({b \in Planner!Word : b * g.page >= g.seqBytes})] = blocks
  BY <1>3, GroupNeeds
<1> HIDE DEF blocks
<1>8. rank.sequence \in Planner!Positive /\ rank.sequence = Planner!Total(blocks)
  <2>1. rank.sequence = Planner!CheckedSum(blocks)
    BY <1>4 DEF blocks
  <2> QED
    BY <1>2, <1>6, <2>1, CheckedPositive, CheckedTotal
<1>9. ASSUME NEW n PROVE Planner!Needed(groups, n) = 1 + n * rank.sequence
  BY <1>7, <1>8 DEF Planner!Needed
<1> QED
  BY <1>1, <1>4, <1>5, <1>8, <1>9 DEF RankOK

-----------------------------------------------------------------------------
(* What the ranks agree on, and what a planned rank was given.             *)

LEMMA SeveralRanks == ASSUME Planner!TypeOK
                      PROVE  IsFiniteSet(Planner!Ranks) /\ 0 \in Planner!Ranks
<1>1. tp \in Nat \ {0}
  BY PartsAssumption DEF PartsAssumption, Planner!PlannerAssumption, Planner!TypeOK
<1> QED
  BY <1>1, FS_Interval DEF Planner!Ranks

BlockSizes(config) == {Planner!bytes_per_group_block(g) : g \in config.groups}

\* Ranks that agree on their groups' geometry agree on the bytes of their blocks.
LEMMA SameBlocks ==
  ASSUME NEW D, IsFiniteSet(D), NEW found, DOMAIN found = D, Planner!GeometryAccepted(found),
         NEW r \in D, NEW q \in D
  PROVE  BlockSizes(found[r]) = BlockSizes(found[q])
<1> DEFINE f == [d \in D |-> {Planner!GroupGeometry(g) : g \in found[d].groups}]
           T == {f[d] : d \in D}
<1>1. T = {{Planner!GroupGeometry(g) : g \in found[d].groups} : d \in DOMAIN found}
  OBVIOUS
<1>2. Cardinality(T) = 1
  BY <1>1, PlannerSets DEF Planner!GeometryAccepted, Planner!Uniform
<1>3. DOMAIN f = D /\ f \in [D -> T]
  OBVIOUS
<1>4. f[r] = {Planner!GroupGeometry(g) : g \in found[r].groups}
      /\ f[q] = {Planner!GroupGeometry(g) : g \in found[q].groups}
  OBVIOUS
<1> HIDE DEF f
<1>5. f \in Surjection(D, T)
  BY <1>3 DEF Surjection
<1>6. IsFiniteSet(T)
  BY <1>5, FS_Surjection
<1>7. \E x : T = {x}
  BY <1>2, <1>6, FS_Singleton
<1>8. f[r] = f[q]
  BY <1>7
<1>9. \A g : Planner!GroupGeometry(g).bytes = Planner!bytes_per_group_block(g)
  BY DEF Planner!GroupGeometry
<1>10. ASSUME NEW a \in D, NEW b \in D,
              {Planner!GroupGeometry(g) : g \in found[a].groups}
                = {Planner!GroupGeometry(g) : g \in found[b].groups},
              NEW g \in found[a].groups
       PROVE  \E h \in found[b].groups :
                Planner!bytes_per_group_block(g) = Planner!bytes_per_group_block(h)
  <2>1. PICK h \in found[b].groups : Planner!GroupGeometry(g) = Planner!GroupGeometry(h)
    BY <1>10
  <2> QED
    BY <1>9, <2>1
<1> HIDE DEF T
<1>11. {Planner!GroupGeometry(g) : g \in found[r].groups}
         = {Planner!GroupGeometry(g) : g \in found[q].groups}
  BY <1>4, <1>8, Zenon
<1>12. \A g \in found[r].groups : \E h \in found[q].groups :
         Planner!bytes_per_group_block(g) = Planner!bytes_per_group_block(h)
  BY <1>11, <1>10, Zenon
<1>13. \A g \in found[q].groups : \E h \in found[r].groups :
         Planner!bytes_per_group_block(g) = Planner!bytes_per_group_block(h)
  BY <1>11, <1>10, Zenon
<1> QED
  BY <1>12, <1>13 DEF BlockSizes

\* What vLLM resolved and the geometry checks accepted, while run() goes on with it.
Accepted ==
  /\ configs # <<>> => configs \in [Planner!Ranks -> Configs] /\ Planner!GeometryAccepted(configs)
  /\ pc \in {"validate", "plan", "print"} => configs # <<>>
  /\ pc \in {"shutdown", "restore"} /\ raised = "none" => configs # <<>>
  /\ out = <<"plan">> =>
       configs # <<>> /\ Planner!build_plan(configs, policy).totalMaximum # Planner!Err

PlanInv == PlannerInv /\ Planner!TypeOK /\ Accepted

LEMMA StrideHolds == ASSUME PlanInv PROVE Planner!StrideIsPhysical
<1> SUFFICES ASSUME configs # <<>>, NEW r \in Planner!Ranks, NEW q \in Planner!Ranks
             PROVE  Planner!RankGeometry(configs[q]).stride =
                      Planner!Max({Planner!PhysicalBlock(g) : g \in configs[r].groups})
  BY DEF Planner!StrideIsPhysical
<1>1. /\ DOMAIN configs = Planner!Ranks /\ configs[r] \in Configs
      /\ Planner!GeometryAccepted(configs) /\ IsFiniteSet(Planner!Ranks)
  BY SeveralRanks DEF PlanInv, Accepted
<1>2. BlockSizes(configs[r]) = BlockSizes(configs[q])
  BY <1>1, SameBlocks
<1>3. \A g \in configs[r].groups :
        Planner!PhysicalBlock(g) = Planner!bytes_per_group_block(g)
  <2>1. Planner!ResolvedConfig(configs[r]) /\ Planner!RankAccepted(configs[r])
    BY <1>1, PartsAssumption
       DEF PartsAssumption, Planner!PlannerAssumption, Planner!GeometryAccepted
  <2>2. ASSUME NEW g \in configs[r].groups
        PROVE  /\ Planner!ResolvedGroup(g) /\ Planner!TopologyAccepted(g)
               /\ Planner!bytes_per_group_block(g) \in Planner!Positive
    BY <2>1 DEF Planner!ResolvedConfig, Planner!RankAccepted, Planner!GroupsAccepted
  <2> QED
    BY <2>2, GroupBytes
<1>4. {Planner!PhysicalBlock(g) : g \in configs[r].groups}
        = BlockSizes(configs[q])
  BY <1>2, <1>3 DEF BlockSizes
<1>5. Planner!RankGeometry(configs[q]).stride =
        Planner!Max(BlockSizes(configs[q]))
  BY DEF BlockSizes, Planner!RankGeometry, Planner!shared_pool_block_stride
<1> QED
  BY <1>4, <1>5

\* A planned rank: what size_rank was given, and that it did not raise.
LEMMA PlannedRank ==
  ASSUME PlanInv, Planner!Planned, NEW r \in Planner!Ranks
  PROVE  LET rank == Planner!RankGeometry(configs[r])
         IN  /\ RankOK(rank) /\ Planner!SizingPolicy(policy) /\ Planner!Sizable(rank, policy)
             /\ \A n : Planner!Needed(configs[r].groups, n) = 1 + n * rank.sequence
             /\ policy \in Planner!PolicyRecords
             /\ r \in DOMAIN configs
<1>1. configs # <<>> /\ Planner!SizingPolicy(policy) /\ Planner!Plannable(configs, policy)
  <2>1. CASE pc = "print"
    BY <2>1 DEF PlanInv, PlannerInv, Checked, Accepted
  <2>2. CASE "plan" \in Planner!Range(out)
    <3>1. out \in {<<>>, <<"schema">>, <<"plan">>}
      BY DEF PlanInv, PlannerInv, RunsOn, Ends
    <3>2. out = <<"plan">>
      BY <2>2, <3>1 DEF Planner!Range
    <3> QED
      BY <3>2 DEF PlanInv, PlannerInv, Checked, Accepted
  <2> QED
    BY <2>1, <2>2 DEF Planner!Planned
<1>2. DOMAIN configs = Planner!Ranks /\ configs[r] \in Configs /\ Planner!GeometryAccepted(configs)
  BY <1>1 DEF PlanInv, Accepted
<1>3. Planner!ResolvedConfig(configs[r]) /\ policy \in Planner!PolicyRecords
  BY <1>2, PartsAssumption
     DEF PartsAssumption, Planner!PlannerAssumption, PlanInv, Planner!TypeOK
<1>4. Planner!RankAccepted(configs[r])
  BY <1>2 DEF Planner!GeometryAccepted
<1>5. Planner!Sizable(Planner!RankGeometry(configs[r]), policy)
  BY <1>1, <1>2 DEF Planner!Plannable
<1>6. PICK rank : rank = Planner!RankGeometry(configs[r])
  OBVIOUS
<1>7. rank.sequence # Planner!Err
  BY <1>5, <1>6 DEF Planner!Sizable
<1>8. RankOK(rank) /\ \A n : Planner!Needed(configs[r].groups, n) = 1 + n * rank.sequence
  BY <1>3, <1>4, <1>6, <1>7, RankIsOK
<1> QED
  BY <1>1, <1>2, <1>3, <1>5, <1>6, <1>8

-----------------------------------------------------------------------------
(* What a plan promises.                                                   *)

LEMMA BytesHold == ASSUME PlanInv PROVE Planner!WithinBytePolicy
<1> SUFFICES ASSUME Planner!Planned, NEW r \in Planner!Ranks
             PROVE  LET s == Planner!Sizing(r)
                    IN /\ s.minimum <= s.desired /\ s.desired <= s.maximum
                       /\ s.desired % policy.alignment = 0 /\ s.maximum % policy.alignment = 0
                       /\ policy.minBytes # Planner!Absent => policy.minBytes <= s.desiredBytes
                       /\ policy.maxBytes # Planner!Absent => s.maximumBytes <= policy.maxBytes
  BY DEF Planner!WithinBytePolicy
<1>1. PICK rank, p : rank = Planner!RankGeometry(configs[r]) /\ p = policy
  OBVIOUS
<1>2. RankOK(rank) /\ Planner!SizingPolicy(p) /\ Planner!Sizable(rank, p)
  BY <1>1, PlannedRank
<1>3. PICK s : s = Planner!size_rank(rank, p)
  OBVIOUS
<1>4. /\ s.minimum <= s.desired /\ s.desired <= s.maximum
      /\ s.desired % p.alignment = 0 /\ s.maximum % p.alignment = 0
      /\ p.minBytes # Planner!Absent => p.minBytes <= s.desiredBytes
      /\ p.maxBytes # Planner!Absent => s.maximumBytes <= p.maxBytes
  BY <1>2, <1>3, GrantsKeepPolicy
<1>5. Planner!Sizing(r) = s
  BY <1>1, <1>3 DEF Planner!Sizing
<1> QED
  BY <1>1, <1>4, <1>5

LEMMA ConcurrencyHolds == ASSUME PlanInv PROVE Planner!PlanHoldsItsConcurrency
<1> SUFFICES ASSUME Planner!Planned, NEW r \in Planner!Ranks
             PROVE  LET s == Planner!Sizing(r)
                        groups == configs[r].groups
                        fits(n) == Planner!Needed(groups, n) <= s.desired
                    IN /\ s.effective = Planner!Max({n \in 0 .. policy.target : fits(n)})
                       /\ s.effective < policy.target =>
                            /\ policy.maxBytes # Planner!Absent
                            /\ \A b \in Planner!Word :
                                 /\ b % policy.alignment = 0
                                 /\ b >= Planner!Needed(groups, policy.target)
                                 => b * s.stride > policy.maxBytes
  BY DEF Planner!PlanHoldsItsConcurrency
<1>1. PICK rank, p : rank = Planner!RankGeometry(configs[r]) /\ p = policy
  OBVIOUS
<1>2. /\ RankOK(rank) /\ Planner!SizingPolicy(p) /\ Planner!Sizable(rank, p)
      /\ \A n : Planner!Needed(configs[r].groups, n) = 1 + n * rank.sequence
  BY <1>1, PlannedRank
<1>3. PICK s : s = Planner!size_rank(rank, p)
  OBVIOUS
<1>4. /\ s.effective \in 1 .. p.target
      /\ \A n \in 0 .. p.target :
           n <= s.effective <=> 1 + n * rank.sequence <= s.desired
      /\ s.effective < p.target =>
           /\ p.maxBytes # Planner!Absent
           /\ \A b \in Nat :
                /\ b % p.alignment = 0
                /\ b >= 1 + p.target * rank.sequence
                => b * rank.stride > p.maxBytes
  BY <1>2, <1>3, GrantHoldsConcurrency
<1>5. Planner!Sizing(r) = s /\ s.stride = rank.stride
  BY <1>1, <1>3 DEF Planner!Sizing, Planner!size_rank
<1>6. p.target \in Planner!Positive
  BY <1>2 DEF Planner!SizingPolicy
<1>7. p.target \in Nat /\ p.target <= MaxWord /\ MaxWord \in Nat
  BY <1>6, WordAssumption DEF Planner!Positive
<1> DEFINE fit == {n \in 0 .. p.target : 1 + n * rank.sequence <= s.desired}
<1>8. fit = 0 .. s.effective
  <2>1. s.effective \in Nat /\ s.effective <= p.target
    BY <1>4, <1>7
  <2>2. \A n : n \in fit <=> n \in 0 .. p.target /\ n <= s.effective
    BY <1>4
  <2>3. \A n : n \in 0 .. p.target /\ n <= s.effective <=> n \in 0 .. s.effective
    BY <1>7, <2>1
  <2> HIDE DEF fit
  <2> QED
    BY <2>2, <2>3
<1>9. Planner!Max(fit) = s.effective
  <2>1. PICK e : e = s.effective
    OBVIOUS
  <2>2. e \in Nat /\ e <= MaxWord
    BY <1>4, <1>7, <2>1
  <2>3. 0 .. e \in SUBSET Planner!Word /\ e \in 0 .. e
    BY <1>7, <2>2 DEF Planner!Word
  <2>4. Planner!Max(0 .. e) \in 0 .. e /\ e <= Planner!Max(0 .. e)
    BY <2>3, LargestWord
  <2>5. Planner!Max(0 .. e) = e
    BY <2>2, <2>4
  <2> HIDE DEF fit
  <2> QED
    BY <1>8, <2>1, <2>5
<1>10. {n \in 0 .. policy.target : Planner!Needed(configs[r].groups, n) <= s.desired} = fit
  BY <1>1, <1>2
<1>11. \A b \in Planner!Word : b \in Nat
  BY Words
<1> HIDE DEF fit
<1>12. s.effective < p.target =>
         /\ p.maxBytes # Planner!Absent
         /\ \A b \in Planner!Word :
              /\ b % p.alignment = 0
              /\ b >= Planner!Needed(configs[r].groups, p.target)
              => b * s.stride > p.maxBytes
  BY <1>2, <1>4, <1>5, <1>11
<1> QED
  BY <1>1, <1>5, <1>9, <1>10, <1>12

LEMMA MoreHolds == ASSUME PlanInv PROVE Planner!MoreIsNotLess
<1> SUFFICES ASSUME Planner!Planned, NEW n \in policy.target .. policy.target + 2,
                    Planner!SizingPolicy([policy EXCEPT !.target = n]),
                    Planner!Plannable(configs, [policy EXCEPT !.target = n]),
                    NEW r \in Planner!Ranks
             PROVE  LET s == Planner!size_rank(Planner!RankGeometry(configs[r]),
                                               [policy EXCEPT !.target = n])
                    IN /\ s.desired >= Planner!Sizing(r).desired
                       /\ s.effective >= Planner!Sizing(r).effective
  BY DEF Planner!MoreIsNotLess
<1>1. PICK rank, p : rank = Planner!RankGeometry(configs[r]) /\ p = policy
  OBVIOUS
<1>2. /\ RankOK(rank) /\ Planner!SizingPolicy(p) /\ Planner!Sizable(rank, p)
      /\ p \in Planner!PolicyRecords /\ r \in DOMAIN configs
  BY <1>1, PlannedRank
<1>3. Planner!SizingPolicy([p EXCEPT !.target = n])
      /\ Planner!Sizable(rank, [p EXCEPT !.target = n])
  BY <1>1, <1>2 DEF Planner!Plannable
<1>4. p.target \in Planner!Positive
  BY <1>2 DEF Planner!SizingPolicy
<1>5. n \in Nat /\ n >= p.target
  BY <1>1, <1>4, Words
<1>6. PICK s, more : /\ s = Planner!size_rank(rank, p)
                     /\ more = Planner!size_rank(rank, [p EXCEPT !.target = n])
  OBVIOUS
<1>7. more.desired >= s.desired /\ more.effective >= s.effective
  BY <1>2, <1>3, <1>5, <1>6, MoreConcurrencyIsNotLess
<1>8. /\ Planner!Sizing(r) = s
      /\ Planner!size_rank(Planner!RankGeometry(configs[r]), [policy EXCEPT !.target = n]) = more
  BY <1>1, <1>6 DEF Planner!Sizing
<1> QED
  BY <1>7, <1>8

LEMMA PositiveProduct ==
  ASSUME NEW a, NEW b \in Planner!Positive, Planner!checked_mul(a, b) # Planner!Err,
         a \in Int, a >= 1
  PROVE  /\ a \in Planner!Positive /\ a * b \in Planner!Positive
         /\ Planner!checked_mul(a, b) = a * b
<1>1. /\ a \in Planner!Word /\ Planner!checked_mul(a, b) = a * b /\ a * b \in Planner!Word
  BY CheckedResults
<1>2. a \in Nat /\ a <= MaxWord /\ b \in Nat /\ b >= 1 /\ a * b <= MaxWord
  BY <1>1, Words
<1>3. 1 * b <= a * b /\ 1 * b \in Nat /\ a * b \in Nat
  BY <1>2, Products
<1>4. a * b >= 1
  BY <1>2, <1>3
<1> QED
  BY <1>1, <1>2, <1>3, <1>4, Words

\* The numbers of a sized rank are those its schema allows.
LEMMA SizedRank ==
  ASSUME NEW rank, RankOK(rank), NEW p, Planner!SizingPolicy(p), Planner!Sizable(rank, p)
  PROVE  LET s == Planner!size_rank(rank, p)
         IN  /\ {s.stride, s.sequence, s.minimum, s.minimumBytes, s.base, s.desired,
                 s.desiredBytes, s.maximum, s.maximumBytes, s.effective}
                   \subseteq Planner!Positive
             /\ s.headroom \in Planner!Word
<1> DEFINE m == Planner!MinimumBlocks(rank, p)
           d == Planner!DesiredBlocks(rank, p)
           e == Planner!MaximumBlocks(rank, p)
           k == rank.stride
<1>1. k \in Planner!Positive /\ rank.sequence \in Planner!Positive /\ rank.overhead = 1
  BY DEF RankOK
<1>2. m \in Nat /\ 1 + rank.sequence <= m /\ rank.sequence \in Nat
  BY <1>1, Limits, Words
<1>3. d \in Nat /\ m <= d /\ e \in Nat /\ d <= e
  BY Grants
<1>4. m >= 1 /\ d >= 1 /\ e >= 1
  <2> HIDE DEF m, d, e
  <2> QED
    BY <1>2, <1>3
<1>5. /\ Planner!checked_mul(m, k) # Planner!Err /\ Planner!MinimumBytes(rank, p) = Planner!checked_mul(m, k)
      /\ Planner!checked_mul(d, k) # Planner!Err /\ Planner!checked_mul(e, k) # Planner!Err
      /\ Planner!CapacityFor(rank, p, p.target) # Planner!Err
  BY DEF Planner!Sizable, Planner!MinimumBytes
<1> HIDE DEF m, d, e, k
<1>6. /\ m \in Planner!Positive /\ m * k \in Planner!Positive /\ Planner!checked_mul(m, k) = m * k
      /\ d \in Planner!Positive /\ d * k \in Planner!Positive
      /\ e \in Planner!Positive /\ e * k \in Planner!Positive
  BY <1>1, <1>2, <1>3, <1>4, <1>5, PositiveProduct
<1>7. p.target \in Planner!Positive
  BY DEF Planner!SizingPolicy
<1>8. p.target \in Nat /\ p.target <= MaxWord
  BY <1>7, Words
<1> DEFINE w == Planner!Workload(rank, p, p.target)
           base == Planner!checked_add(rank.overhead, w)
<1>9. /\ base \in Planner!Word /\ base = 1 + w /\ w \in Planner!Word
      /\ Planner!Headroom(rank, p, p.target) \in Planner!Word
  BY <1>5, <1>8, CapacityHolds
<1> HIDE DEF w, base
<1>10. base \in Planner!Positive
  <2>1. w \in Nat /\ base \in Nat /\ base <= MaxWord
    BY <1>9, Words
  <2>2. 0 < base
    BY <1>9, <2>1
  <2> QED
    BY <2>1, <2>2, Words
<1>11. PICK s : s = Planner!size_rank(rank, p)
  OBVIOUS
<1>12. s.effective \in 1 .. p.target
  BY <1>11, GrantHoldsConcurrency
<1>13. s.effective \in Planner!Positive
  <2>1. s.effective \in Nat /\ 0 < s.effective /\ s.effective <= MaxWord
    BY <1>8, <1>12, WordAssumption
  <2> QED
    BY <2>1, Words
<1>14. /\ s.stride = k /\ s.sequence = rank.sequence /\ s.minimum = m
       /\ s.minimumBytes = m * k /\ s.base = base /\ s.desired = d /\ s.desiredBytes = d * k
       /\ s.maximum = e /\ s.maximumBytes = e * k
       /\ s.headroom = Planner!Headroom(rank, p, p.target)
  BY <1>5, <1>6, <1>11 DEF Planner!size_rank, m, d, e, k, w, base
<1>15. /\ {s.stride, s.sequence, s.minimum, s.minimumBytes, s.base, s.desired,
           s.desiredBytes, s.maximum, s.maximumBytes, s.effective} \subseteq Planner!Positive
       /\ s.headroom \in Planner!Word
  BY <1>1, <1>6, <1>9, <1>10, <1>13, <1>14 DEF k
<1> QED
  BY <1>11, <1>15

LEMMA SchemaHolds == ASSUME PlanInv PROVE Planner!EmittedPlanFitsSchema
<1> SUFFICES ASSUME "plan" \in Planner!Range(out)
             PROVE  Planner!SchemaAccepts(Planner!build_plan(configs, policy))
  BY DEF Planner!EmittedPlanFitsSchema
<1>1. Planner!Planned
  BY DEF Planner!Planned
<1>2. out = <<"plan">>
  <2>1. out \in {<<>>, <<"schema">>, <<"plan">>}
    BY DEF PlanInv, PlannerInv, RunsOn, Ends
  <2> QED
    BY <2>1 DEF Planner!Range
<1>3. PICK found, p, D : found = configs /\ p = policy /\ D = Planner!Ranks
  OBVIOUS
<1>4. /\ DOMAIN found = D /\ Planner!Plannable(found, p) /\ IsFiniteSet(D) /\ 0 \in D
      /\ Planner!build_plan(found, p).totalMaximum # Planner!Err
  BY <1>2, <1>3, SeveralRanks DEF PlanInv, PlannerInv, Checked, Accepted
<1> DEFINE sized == [r \in D |-> Planner!size_rank(Planner!RankGeometry(found[r]), p)]
           desired == [r \in D |-> sized[r].desiredBytes]
           maximum == [r \in D |-> sized[r].maximumBytes]
           plan == Planner!build_plan(found, p)
<1>5. plan.ranks = sized /\ plan.totalDesired = Planner!CheckedSum(desired)
      /\ plan.totalMaximum = Planner!CheckedSum(maximum)
  BY <1>4 DEF Planner!build_plan
<1>6. Planner!CheckedSum(desired) # Planner!Err
  <2>1. desired = [r \in D |-> Planner!size_rank(Planner!RankGeometry(found[r]), p).desiredBytes]
    OBVIOUS
  <2> QED
    BY <1>4, <2>1 DEF Planner!Plannable
<1>7. ASSUME NEW r \in D
      PROVE  LET s == sized[r]
             IN  /\ {s.stride, s.sequence, s.minimum, s.minimumBytes, s.base, s.desired,
                     s.desiredBytes, s.maximum, s.maximumBytes, s.effective}
                       \subseteq Planner!Positive
                 /\ s.headroom \in Planner!Word
  <2>1. PICK rank : rank = Planner!RankGeometry(found[r])
    OBVIOUS
  <2>2. RankOK(rank) /\ Planner!SizingPolicy(p) /\ Planner!Sizable(rank, p)
    BY <1>1, <1>3, <2>1, PlannedRank
  <2>3. sized[r] = Planner!size_rank(rank, p)
    BY <2>1
  <2> HIDE DEF sized
  <2> QED
    BY <2>2, <2>3, SizedRank
<1>8. DOMAIN sized = D
  OBVIOUS
<1> HIDE DEF sized
<1>9. /\ DOMAIN desired = D /\ \A r \in D : desired[r] \in Planner!Positive
      /\ DOMAIN maximum = D /\ \A r \in D : maximum[r] \in Planner!Positive
  BY <1>7
<1> HIDE DEF desired, maximum, plan
<1>10. Planner!CheckedSum(desired) \in Planner!Positive
       /\ Planner!CheckedSum(maximum) \in Planner!Positive
  BY <1>4, <1>5, <1>6, <1>9, CheckedPositive DEF plan
<1>11. Planner!SchemaAccepts(plan)
  BY <1>4, <1>5, <1>7, <1>8, <1>10 DEF Planner!SchemaAccepts
<1> QED
  BY <1>3, <1>11 DEF plan

-----------------------------------------------------------------------------
(* The plan along a run of the command.                                    *)

LEMMA Documents == {<<>>, <<"schema">>, <<"plan">>} \subseteq Seq({"log", "schema", "plan"})
<1>1. ASSUME NEW S, NEW x \in S PROVE <<>> \in Seq(S) /\ <<x>> \in Seq(S)
  OBVIOUS
<1> QED
  BY <1>1

LEMMA PlanInit == Planner!Init => PlanInv
<1> SUFFICES ASSUME Planner!Init PROVE PlanInv
  OBVIOUS
<1>1. PlannerInv
  BY PlannerInit
<1>2. Planner!TypeOK
  <2>1. out \in Seq({"log", "schema", "plan"})
    BY Documents DEF Planner!Init
  <2> QED
    BY <2>1 DEF Planner!Init, Planner!TypeOK, Planner!Pending
<1>3. Accepted
  BY DEF Planner!Init, Accepted
<1> QED
  BY <1>1, <1>2, <1>3 DEF PlanInv

\* Where the steps of run() leave the request, the executor, stdout and itself.
LEMMA PlanMoves ==
  ASSUME PlanInv, Planner!Next
  PROVE  /\ pc # "ended"
         /\ policy' = policy /\ tp' = tp
         /\ raised' \in Planner!Pending
         /\ executor' \in {"none", "live", "down", "leaked"}
         /\ fd1' \in {"stdout", "stderr"}
         /\ pc = "resolve" \/ configs' = configs
         /\ pc' \in {"validate", "plan", "print"} =>
              pc \in {"validate", "plan"} \/ (pc = "restore" /\ raised = "none")
         /\ pc' \in {"shutdown", "restore"} /\ raised' = "none" =>
              pc = "resolve" \/ (pc = "shutdown" /\ raised = "none")
<1>1. /\ raised \in Planner!Pending /\ executor \in {"none", "live", "down", "leaked"}
      /\ fd1 \in {"stdout", "stderr"}
  BY DEF PlanInv, Planner!TypeOK
<1> USE DEF Planner!Pending, Planner!Fail, Planner!Unwind
<1>2. CASE Planner!PrintSchema \/ Planner!RejectArguments \/ Planner!AcceptArguments
  BY <1>1, <1>2 DEF Planner!PrintSchema, Planner!RejectArguments, Planner!AcceptArguments
<1>3. CASE Planner!ReadVersion \/ Planner!RedirectLogs
  BY <1>1, <1>3 DEF Planner!ReadVersion, Planner!RedirectLogs
<1>4. CASE Planner!LoadRuntime
  BY <1>1, <1>4 DEF Planner!LoadRuntime
<1>5. CASE Planner!BuildExecutor
  BY <1>1, <1>5 DEF Planner!BuildExecutor
<1>6. CASE Planner!ResolveGeometry
  BY <1>1, <1>6 DEF Planner!ResolveGeometry
<1>7. CASE Planner!ShutdownExecutor
  BY <1>1, <1>7 DEF Planner!ShutdownExecutor
<1>8. CASE Planner!RestoreStdout
  BY <1>1, <1>8 DEF Planner!RestoreStdout
<1>9. CASE Planner!ValidateGeometry
  BY <1>1, <1>9 DEF Planner!ValidateGeometry
<1>10. CASE Planner!BuildPlan
  BY <1>1, <1>10 DEF Planner!BuildPlan
<1>11. CASE Planner!PrintPlan
  BY <1>1, <1>11 DEF Planner!PrintPlan
<1> QED
  BY <1>2, <1>3, <1>4, <1>5, <1>6, <1>7, <1>8, <1>9, <1>10, <1>11 DEF Planner!Next

\* The configurations are only ever set to ones the geometry checks accept.
LEMMA ResolveAccepts ==
  ASSUME PlanInv, Planner!ResolveGeometry
  PROVE  /\ configs' # <<>> =>
              configs' \in [Planner!Ranks -> Configs] /\ Planner!GeometryAccepted(configs')
         /\ raised' = "none" => configs' # <<>>
         /\ pc' = "shutdown"
<1>1. \/ \E found \in [Planner!Ranks -> Configs] :
           Planner!GeometryAccepted(found) /\ configs' = found
      \/ raised' = "planning" /\ configs' = configs
  BY DEF Planner!ResolveGeometry, Planner!Unwind
<1>2. \A found \in [Planner!Ranks -> Configs] : found # <<>>
  <2>1. 0 \in Planner!Ranks
    BY SeveralRanks DEF PlanInv
  <2> QED
    BY <2>1
<1>3. pc' = "shutdown"
  BY DEF Planner!ResolveGeometry, Planner!Unwind
<1>4. configs # <<>> =>
        configs \in [Planner!Ranks -> Configs] /\ Planner!GeometryAccepted(configs)
  BY DEF PlanInv, Accepted
<1> QED
  BY <1>1, <1>2, <1>3, <1>4

LEMMA PlanNext == PlanInv /\ [Planner!Next]_plannerVars => PlanInv'
<1> SUFFICES ASSUME PlanInv, [Planner!Next]_plannerVars PROVE PlanInv'
  OBVIOUS
<1>1. PlannerInv'
  BY PlannerNext DEF PlanInv
<1>2. CASE UNCHANGED plannerVars
  BY <1>2, <1>1 DEF plannerVars, PlanInv, Accepted, Planner!TypeOK, Planner!Ranks
<1>3. CASE Planner!Next
  <2>1. /\ pc # "ended" /\ policy' = policy /\ tp' = tp
        /\ raised' \in Planner!Pending
        /\ executor' \in {"none", "live", "down", "leaked"}
        /\ fd1' \in {"stdout", "stderr"}
        /\ pc = "resolve" \/ configs' = configs
        /\ pc' \in {"validate", "plan", "print"} =>
             pc \in {"validate", "plan"} \/ (pc = "restore" /\ raised = "none")
        /\ pc' \in {"shutdown", "restore"} /\ raised' = "none" =>
             pc = "resolve" \/ (pc = "shutdown" /\ raised = "none")
    BY <1>3, PlanMoves
  <2>2. pc = "resolve" => Planner!ResolveGeometry
    BY <1>3 DEF Planner!Next, Planner!PrintSchema, Planner!RejectArguments,
                Planner!AcceptArguments, Planner!ReadVersion, Planner!RedirectLogs,
                Planner!LoadRuntime, Planner!BuildExecutor, Planner!ShutdownExecutor,
                Planner!RestoreStdout, Planner!ValidateGeometry, Planner!BuildPlan,
                Planner!PrintPlan
  <2>3. Planner!Ranks' = Planner!Ranks
    BY <2>1 DEF Planner!Ranks
  <2>4. configs' # <<>> =>
          configs' \in [Planner!Ranks -> Configs] /\ Planner!GeometryAccepted(configs')
    BY <2>1, <2>2, ResolveAccepts DEF PlanInv, Accepted
  <2>5. pc' \in {"validate", "plan", "print"} => configs' # <<>>
    BY <2>1 DEF PlanInv, Accepted
  <2>6. pc' \in {"shutdown", "restore"} /\ raised' = "none" => configs' # <<>>
    BY <2>1, <2>2, ResolveAccepts DEF PlanInv, Accepted
  <2>7. out' = <<"plan">> =>
          configs' # <<>> /\ Planner!build_plan(configs', policy').totalMaximum # Planner!Err
    <3> SUFFICES ASSUME out' = <<"plan">>
                 PROVE  /\ configs' # <<>>
                        /\ Planner!build_plan(configs', policy').totalMaximum # Planner!Err
      OBVIOUS
    <3>1. out = <<>>
      BY <2>1 DEF PlanInv, PlannerInv, RunsOn
    <3>2. Planner!Log => out' # <<"plan">>
      BY <3>1 DEF Planner!Log
    <3>3. Planner!PrintSchema => out' # <<"plan">>
      BY <3>1 DEF Planner!PrintSchema
    <3>4. Planner!PrintPlan
      BY <1>3, <3>1, <3>2, <3>3
         DEF Planner!Next, Planner!RejectArguments,
             Planner!AcceptArguments, Planner!ReadVersion, Planner!RedirectLogs,
             Planner!LoadRuntime, Planner!BuildExecutor, Planner!ResolveGeometry,
             Planner!ShutdownExecutor, Planner!RestoreStdout, Planner!ValidateGeometry,
             Planner!BuildPlan
    <3>5. /\ pc = "print" /\ configs' = configs /\ policy' = policy
          /\ Planner!build_plan(configs, policy).totalMaximum # Planner!Err
      BY <3>1, <3>4 DEF Planner!PrintPlan
    <3> QED
      BY <3>5 DEF PlanInv, Accepted
  <2>8. Accepted'
    BY <2>3, <2>4, <2>5, <2>6, <2>7 DEF Accepted
  <2>9. Planner!TypeOK'
    <3>1. /\ out' \in Seq({"log", "schema", "plan"})
          /\ exit' \in {"running", "ok", "failure", "traceback"}
      <4>1. out' \in {<<>>, <<"schema">>, <<"plan">>}
        BY <1>1 DEF PlannerInv, RunsOn, Ends
      <4>2. exit' \in {"running", "ok", "failure", "traceback"}
        BY <1>1 DEF PlannerInv, RunsOn, Ends
      <4> QED
        BY <4>1, <4>2, Documents
    <3>2. /\ pc' \in {"parse", "version", "redirect", "load", "build", "resolve", "shutdown",
                      "restore", "validate", "plan", "print", "ended"}
          /\ saved' \in BOOLEAN
      BY <1>1 DEF PlannerInv, RunsOn, Redirected
    <3>3. policy' \in Policies /\ tp' \in Worlds
      BY <2>1 DEF PlanInv, Planner!TypeOK
    <3>4. configs' = <<>> \/ configs' \in [Planner!Ranks' -> Configs]
      BY <2>3, <2>4
    <3> QED
      BY <2>1, <3>1, <3>2, <3>3, <3>4 DEF Planner!TypeOK, Planner!Pending
  <2> QED
    BY <1>1, <2>8, <2>9 DEF PlanInv
<1> QED
  BY <1>2, <1>3

\* Whatever vLLM resolves, the operator asks for and fails on the way: a geometry the
\* planner accepts (geometry_from_resolved_configs) has blocks as large as the largest
\* group physically needs on every rank; a plan (size_rank, build_plan) promises exactly
\* the sequences its grant holds, within the operator's floor and cap, never less for a
\* larger target, and fits the schema it is published under; and it is all that reaches
\* stdout, after the executor is gone (run).
THEOREM PlanIsSoundHolds == Spec => []PlanIsSound
<1>1. Init => PlanInv
  BY PlanInit DEF Init
<1>2. PlanInv /\ [Next]_allVars => PlanInv'
  <2>1. [Next]_allVars => [Planner!Next]_plannerVars
    BY DEF Next, allVars, plannerVars
  <2> QED
    BY <2>1, PlanNext
<1>3. Spec => [](/\ Planner!StdoutIsOneDocument /\ Planner!ReleasedBeforePlan
                 /\ Planner!Planned =>
                      Planner!SizingPolicy(policy) /\ Planner!Plannable(configs, policy))
  BY PlansAreChecked
<1>4. PlanInv /\ Planner!StdoutIsOneDocument /\ Planner!ReleasedBeforePlan => PlanIsSound
  <2> SUFFICES ASSUME PlanInv, Planner!StdoutIsOneDocument, Planner!ReleasedBeforePlan
               PROVE  Planner!PlanIsSound
    BY DEF PlanIsSound
  <2>1. Planner!TypeOK
    BY DEF PlanInv
  <2> QED
    BY <2>1, StrideHolds, ConcurrencyHolds, BytesHold, MoreHolds, SchemaHolds
       DEF Planner!PlanIsSound
<1> QED
  BY <1>1, <1>2, <1>3, <1>4, PTL DEF Spec
=============================================================================
