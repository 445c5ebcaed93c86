---------------------------- MODULE MCCallsReturn ----------------------------
(* What the calls of the ONNX Runtime backend get in the end: a session that   *)
(* is idle, or an answer once they are cancelled; and the generation backend.  *)
(* The pool is looked at twice, without cancellations (part = "idle") and with *)
(* calls that need not wait for a session (part = "cancel"). The components    *)
(* share no state, so each behaviour moves one of them and leaves the other    *)
(* where it starts: interleaving them would reach nothing new.                 *)
EXTENDS Naturals, FiniteSets, Sequences

CONSTANTS
  Threads, FirstThread, Ids, Cancellers, Runs, MaxSessions,  \* OrtSessionPool
  Calls, Managers                                            \* GenerationBackend

VARIABLES
  part,
  phase, idle, total, pc, ids, todo, filled, res, run, active, cancelled, term,
  pend, terminated,
  slot, engine, loaded_model, requests, call, manager

Pool == INSTANCE OrtSessionPool
Generation == INSTANCE GenerationBackend WITH active <- requests

ASSUME PartsAssumption ==
  /\ Pool!ThreadsFinite /\ Pool!IdsFinite /\ Pool!MaxSessionsPositive
  /\ Pool!RunsAreRuns /\ Generation!GenerationAssumption

poolVars ==
  <<phase, idle, total, pc, ids, todo, filled, res, run, active, cancelled, term,
    pend, terminated>>
generationVars == <<slot, engine, loaded_model, requests, call, manager>>
allVars == <<part, poolVars, generationVars>>

Init ==
  /\ part \in {"idle", "cancel", "generation"}
  /\ part = "generation" => phase = "ready"
  /\ Pool!Init /\ Generation!Init

Next ==
  \/ part = "idle" /\ Pool!Next /\ cancelled' = {}
       /\ UNCHANGED <<part, generationVars>>
  \/ part = "cancel" /\ Pool!Next
       /\ (\A t \in Threads \ {FirstThread} : pc'[t] = "idle")
       /\ UNCHANGED <<part, generationVars>>
  \/ part = "generation" /\ Generation!Next /\ UNCHANGED <<part, poolVars>>

\* The fairness of each component, for the one that moves: threads are scheduled, a
\* terminated graph execution ends, and without cancellations each one does.
Fairness ==
  /\ \A t \in Threads :
       /\ WF_poolVars(part \in {"idle", "cancel"} /\ Pool!CallStep(t))
       /\ WF_poolVars(part = "cancel" /\ run[t] \in terminated /\ Pool!RunEnds(t))
       /\ WF_poolVars(part = "idle" /\ Pool!RunEnds(t))
  /\ \A c \in Cancellers : WF_poolVars(part = "cancel" /\ Pool!CancelFinishes(c))
  /\ \A c \in Calls :
       /\ WF_generationVars(part = "generation" /\ Generation!Proceed(c))
       /\ SF_generationVars(part = "generation" /\ Generation!StreamEnds(c)
                              /\ call[c].cancelled)

Spec == Init /\ [][Next]_allVars /\ Fairness

-----------------------------------------------------------------------------
(* The components' properties. *)

\* An idle session does not stay idle beside a sleeping thread (acquire).
IdleSessionTaken == Pool!IdleSessionTaken

\* A cancelled call that need not wait for a session returns (cancel).
CancelledCallReturns == Pool!CancelledCallReturns

\* Generation calls, loads and unloads leave engine, path and streams in order.
CallsLeaveClean == part = "generation" => Generation!CallsLeaveClean

\* A cancelled generation ends, and not as a success.
CancelledEnds == Generation!CancelledEnds
=============================================================================
